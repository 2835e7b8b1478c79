------------------------------- MODULE MCSession -------------------------------
(***************************************************************************)
(* Session with one caller of access_token and two command processes.      *)
(***************************************************************************)
EXTENDS SessionRotation, TLC

CONSTANTS caller, pycmd, nodecmd, home, other

MCCallers  == {caller}
MCCommands == {pycmd, nodecmd}
MCProcs    == {caller, pycmd, nodecmd}
MCPython   == {caller, pycmd}
MCBases    == {home, other}
MCSymmetry == Permutations(MCBases)
MCCarried  == [base : Bases, temp : 0..MaxTemp]

==============================================================================
