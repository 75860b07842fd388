------------------------- MODULE MCHandlerLifecycle -------------------------
(* Instances of HandlerLifecycle for TLC.                                  *)
EXTENDS HandlerLifecycle
=============================================================================
