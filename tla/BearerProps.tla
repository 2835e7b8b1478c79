----------------------------- MODULE BearerProps -----------------------------
(***************************************************************************)
(* What a process promises about the credentials it presents.              *)
(***************************************************************************)
EXTENDS Bearer

Places == {"begin", "mcp file", "ready", "check", "load", "access", "send", "posted", "renew",
           "done"}

TypeOK ==
  /\ file \in [Kinds -> Files \cup {None}]
  /\ issued \in 1..MaxIssued
  /\ opt \in Options
  /\ place \in Places
  /\ base \in (Deployments \ Insecure) \cup {None}
  /\ held \in Deployments \cup {None}
  /\ kind \in Kinds
  /\ token \in Tokens \cup {None}
  /\ refused \in Tokens \cup {None}
  /\ quiet \in BOOLEAN /\ still \in BOOLEAN
  /\ place \in {"send", "posted", "renew"} => token # None /\ base # None

Posted == place = "posted"
Stays(t) == Posted /\ token.kind = t

(* "A stored credential belongs to the deployment that issued it"          *)
(* (target.py 3): while nobody logs in or out, every token a command or a  *)
(* proxy sends goes to its own deployment, on every message.               *)
PinnedWhileQuiet ==
  Posted /\ quiet /\ token.kind # "key" => token.base = base

(* "The MCP login is never one of them" (memory.py 184): the REST API is   *)
(* never sent one; a profile's token is sent only if there was a moment    *)
(* during the message without a login to send ("a leftover temp token must *)
(* not be sent", proxy.py 85); and an account's request names its space    *)
(* ("the space has already been required by main", memory.py 156), unless  *)
(* the login was made after main looked.                                   *)
RightCredential ==
  Posted =>
    /\ opt.role = "command" => token.kind # "mcp"
    /\ token.kind = "temp" /\ still =>
         /\ ~SignedIn(file["mcp"])
         /\ SignedIn(file["cli"]) => opt.role = "proxy" /\ file["cli"].base # base
    /\ token.kind \in {"cli", "key"} /\ opt.role = "command" /\ opt.needSpace /\ quiet => opt.space

(* "A 401 refreshes once and retries once, per message. Never a loop"      *)
(* (proxy.py 20): what is sent after a 401 is not what was refused, and a  *)
(* second 401 ends the message.                                            *)
OneFreshRetry ==
  [][refused # None =>
       /\ Posted => place' # "renew"
       /\ Posted' => token' # refused]_vars

(* Every message the client sends is answered, and every command ends.     *)
EveryMessageEnds == place = "check" ~> place \in {"ready", "done"}

(* "The command-line login is used only for the deployment it was issued   *)
(* by" (proxy.py 14); "Pinned to the deployment that issued it, like every *)
(* stored credential" (main.py 500).                                       *)
OwnDeployment == Stays("cli") => token.base = base

=============================================================================
