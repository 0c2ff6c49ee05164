---------------------------- MODULE MCRenderPath ----------------------------
(***************************************************************************)
(* Instances of RenderPath for TLC.                                        *)
(***************************************************************************)
EXTENDS RenderPath
=============================================================================
