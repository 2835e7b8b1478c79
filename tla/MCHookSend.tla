------------------------------ MODULE MCHookSend ------------------------------
(***************************************************************************)
(* A repository, a space of its name and one that differs in case.         *)
(***************************************************************************)
EXTENDS HookSendProps

CONSTANTS p1, p2, r1, repo, Repo

MCCasts == {{p1, p2}, {p1, r1}}

\* Over REST a payload that Anona is to place can do nothing more than over MCP.
MCSetups == [via : {"mcp"}, pinned : {None}, mode : {"auto"}]
              \cup [via : {"rest"}, pinned : {None}, mode : {""}]
              \cup [via : {"mcp"}, pinned : {repo}, mode : {"off"}]

View(own, shared) == [own |-> own, shared |-> shared]

MCAccounts == {View({}, {repo}), View({Repo}, {repo}), View({repo, Repo}, {repo})}

=============================================================================
