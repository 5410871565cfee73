----------------------------- MODULE MCSysDirs -----------------------------
(* Callers in small environments.                                          *)
EXTENDS SysDirs
INSTANCE Environments
=============================================================================
