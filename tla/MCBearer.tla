------------------------------- MODULE MCBearer -------------------------------
(***************************************************************************)
(* A command with API keys and servers named in any places, a command      *)
(* without a key, and a proxy.                                             *)
(***************************************************************************)
EXTENDS BearerProps

CONSTANTS anona, own, plain

Input(role, keys, urls, spaces) ==
  [role : role, key : keys, url : urls, space : spaces, needSpace : {TRUE}]

AnyUrl == [Sources -> {anona, own, plain, None}]
Named  == {u \in [Sources -> {anona, own, None}] : u["env"] = None /\ u["config"] = None}
                \cup {[flag |-> None, env |-> plain, config |-> own]}

MCInputs ==
  Input({"command"}, SUBSET Sources \ {{}}, AnyUrl, {TRUE})
  \cup Input({"command"}, {{"env"}}, {[s \in Sources |-> None]}, {FALSE})
  \cup Input({"command"}, {{}}, Named, BOOLEAN)
  \cup Input({"proxy"}, {{}}, Named, {TRUE})
  \cup [role : {"command"}, key : {{}}, url : {[s \in Sources |-> None]}, space : {FALSE},
        needSpace : {FALSE}]

(* Without keys.                                                           *)
MCStored == {o \in MCInputs : o.key = {}}

=============================================================================
