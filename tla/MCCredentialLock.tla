--------------------------- MODULE MCCredentialLock ---------------------------
(***************************************************************************)
(* CredentialLock with two Python processes and a Node one, one of which   *)
(* may be killed anywhere: enough for an abandoned lock file and two       *)
(* waiters that race to take it over.                                      *)
(***************************************************************************)
EXTENDS CredentialLockProps

CONSTANTS py1, py2, node1

MCPython == {py1, py2}
MCProcs  == {py1, py2, node1}

==============================================================================
