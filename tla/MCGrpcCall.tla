----------------------------- MODULE MCGrpcCall -----------------------------
(* Instances of GrpcCall for TLC.                                          *)
EXTENDS GrpcCall

(* The server counts, and the client counts or not.                        *)
MCSizeConfigs == [client : BOOLEAN, server : {TRUE}]
=============================================================================
