-------------------------------- MODULE MCHost --------------------------------
(* Small instances of HostModules. *)
EXTENDS HostModules

EveryPlatform == AllPlatforms
EveryFeature == AllFeatures
=============================================================================
