----------------------- MODULE MCDNSPolicyController -----------------------
(***************************************************************************)
(* Small instances of DNSPolicyController: two regions, a cluster that is  *)
(* renamed or moved, and the policies, identities and configurations that  *)
(* take every branch of Reconcile.                                         *)
(***************************************************************************)
EXTENDS DNSPolicyController

CONSTANTS weu, neu, blue, green, zone, extWeu, extNeu

pinned == [mode |-> "RegionBound", sourceRegion |-> Unset, sourceCluster |-> blue]
regional == [mode |-> "Active", sourceRegion |-> neu, sourceCluster |-> Unset]

MCPolicySpecs == {pinned, regional}

\* The cluster pinned policies name, in the region no regional policy names;
\* and another cluster, in that region, that has taken over the other one.
MCIdentities ==
    {[region |-> weu, cluster |-> blue, zone |-> zone, adopts |-> {}],
     [region |-> neu, cluster |-> green, zone |-> zone, adopts |-> {weu}]}

bothListed == [c \in {extWeu, extNeu} |-> IF c = extWeu THEN weu ELSE neu]
oneListed == [c \in {extWeu} |-> weu]

MCConfigs == {bothListed}

MCTwoConfigs == {bothListed, oneListed}
=============================================================================
