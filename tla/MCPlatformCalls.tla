-------------------------- MODULE MCPlatformCalls --------------------------
(* One platform at a time; see the cfg file for the bounds.                *)
EXTENDS PlatformCalls

=============================================================================
