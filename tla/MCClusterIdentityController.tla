--------------------- MODULE MCClusterIdentityController ---------------------
(***************************************************************************)
(* Small instances of ClusterIdentityController: a cluster that is moved   *)
(* from one region to another and adopts the first one or not.             *)
(***************************************************************************)
EXTENDS ClusterIdentityController

CONSTANTS weu, neu, blue, zone, extWeu, extNeu

blueInWeu == [region |-> weu, cluster |-> blue, zone |-> zone, adopts |-> {}]
blueInNeu == [region |-> neu, cluster |-> blue, zone |-> zone, adopts |-> {weu}]

MCIdentities == {blueInWeu, blueInNeu}

MCConfigs == {[c \in {extNeu} |-> neu], [c \in {extWeu} |-> weu]}

MCNoConfigs == {}
=============================================================================
