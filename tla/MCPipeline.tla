----------------------------- MODULE MCPipeline ------------------------------
(* Instances of one request's way, for TLC. *)
EXTENDS PipelineProperties

Broadcast == {<<"AdminNotificationsController", "broadcast">>}
=============================================================================
