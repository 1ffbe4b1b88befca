-------------------------- MODULE MCHdRenderThread --------------------------
(* Instances of HdRenderThread for TLC.                                    *)
EXTENDS HdRenderThread

CONSTANTS main, h1, h2, h3
=============================================================================
