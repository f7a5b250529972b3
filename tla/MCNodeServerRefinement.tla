----------------------- MODULE MCNodeServerRefinement -----------------------
(* The instance on which TLC checks the properties of NodeServer and its   *)
(* refinement of VolumeService.                                            *)
EXTENDS NodeServerRefinement, MCNodeServer
=============================================================================
