---------------------------- MODULE MCTokenRefresh ----------------------------
(***************************************************************************)
(* TokenRefresh with a Python and a Node caller on one credential.         *)
(***************************************************************************)
EXTENDS TokenRefreshInv

CONSTANTS py, node, base

MCCallers == {py, node}
MCPython  == {py}
MCCarried == {base}

==============================================================================
