--------------------- MODULE MCDNSConfigurationController ---------------------
(***************************************************************************)
(* A small instance of DNSConfigurationController: two names, two valid    *)
(* specs and a refused one.                                                *)
(***************************************************************************)
EXTENDS DNSConfigurationController

CONSTANTS one, both, nameless

MCSpecs == {one, both, nameless}

MCRefused == {nameless}
=============================================================================
