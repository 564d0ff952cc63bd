----------------------------- MODULE MCSitePage -----------------------------
(* SitePage on a small instance. Its liveness properties rule out symmetry. *)
EXTENDS SitePage
=============================================================================
