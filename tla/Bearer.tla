-------------------------------- MODULE Bearer --------------------------------
(***************************************************************************)
(* Which credential goes to which deployment: one process, a data command  *)
(* (cli/main.py, _data_credential; cli/memory.py) or the MCP proxy         *)
(* (cli/main.py, the mcp branch; cli/proxy.py), beside any number of       *)
(* others that log in and out, start profiles and refresh tokens.          *)
(*                                                                         *)
(* The process reads the credential files several times: once to fix the   *)
(* deployment it will talk to, and again for each token.  Every read is a  *)
(* step of its own here; access_token, which TokenRefresh models, is one.  *)
(* That a token is filed under the deployment it came from is checked in   *)
(* Session (FiledAtItsDeployment).                                         *)
(***************************************************************************)
EXTENDS Naturals

CONSTANTS
  Deployments,   \* base URLs
  Insecure,      \* those that are neither https nor local
  AnonaHosts,    \* api.anonalabs.com and memory.anonalabs.com
  Home,          \* the default of both kinds of requests
  Inputs,        \* command lines and environments: a set of Options
  MaxIssued,     \* bound: how many tokens are issued
  None

Kinds   == {"cli", "mcp"}                  \* the two credential files
Sources == {"flag", "env", "config"}
Roles   == {"command", "proxy"}

Options ==
  [role : Roles, key : SUBSET Sources, url : [Sources -> Deployments \cup {None}],
   space : BOOLEAN, needSpace : BOOLEAN]

(* A file: signed in if gen is not 0; "expired" is a profile past its time.*)
Files  == [base : Deployments, gen : 0..MaxIssued, temp : {"none", "live", "expired"}]
Tokens == [kind : Kinds \cup {"temp", "key"}, base : Deployments \cup {None},
           gen : 0..MaxIssued]

ASSUME BearerAssumption ==
  /\ Insecure \subseteq Deployments
  /\ AnonaHosts \subseteq Deployments \ Insecure
  /\ Home \in AnonaHosts
  /\ None \notin Deployments \cup Files \cup Tokens
  /\ MaxIssued \in Nat \ {0}
  /\ Inputs \subseteq Options

VARIABLES
  file,     \* the two credential files
  issued,   \* the number of tokens issued so far
  opt,      \* what the process was told
  place,    \* where it is
  base,     \* the deployment it has fixed
  held,     \* at its start, the proxy: the deployment of the command-line login
  kind,     \* the file it is about to take a token from
  token,    \* the token it presents
  refused,  \* the token that was answered with 401
  quiet,    \* nobody has changed a file's deployment or logins since it started
  still     \* the same, since this message or command began

files   == <<file, issued>>
work    == <<place, base, held, kind, token, refused, still>>
vars    == <<file, issued, opt, place, base, held, kind, token, refused, quiet, still>>

SignedIn(f)    == f # None /\ f.gen # 0
TokenOf(k)     == [kind |-> k, base |-> file[k].base, gen |-> file[k].gen]
KeyToken       == [kind |-> "key", base |-> None, gen |-> 0]
Login(b, g, t) == [base |-> b, gen |-> g, temp |-> t]

Init ==
  /\ \E cli \in {None} \cup [base : Deployments \ Insecure, gen : {1}, temp : {"none"}],
        mcp \in {None} \cup [base : Deployments \ Insecure, gen : {0}, temp : {"live", "expired"}]
                       \cup [base : Deployments \ Insecure, gen : {1}, temp : {"none", "live"}] :
       file = [k \in Kinds |-> IF k = "cli" THEN cli ELSE mcp]
  /\ issued = 1
  /\ opt \in Inputs
  /\ place = "begin"
  /\ base = None /\ held = None /\ token = None /\ refused = None
  /\ kind = "cli"
  /\ quiet = TRUE /\ still = TRUE

-----------------------------------------------------------------------------
(* Others, working on the files.                                           *)

Changes(k, f) ==
  /\ file' = [file EXCEPT ![k] = f]
  /\ quiet' = FALSE /\ still' = FALSE
  /\ UNCHANGED <<opt, place, base, held, kind, token, refused>>

(* login, at any deployment; an MCP login may keep a profile of its own.   *)
OtherLogin(k, b) ==
  /\ issued < MaxIssued
  /\ issued' = issued + 1
  /\ \E temp \in {"none"} \cup (IF k = "mcp" /\ file[k] # None /\ file[k].base = b
                                  THEN {file[k].temp} ELSE {}) :
       Changes(k, Login(b, issued + 1, temp))

(* logout; the profile that a command-line login has claimed goes likewise.*)
OtherLogout(k) ==
  /\ file[k] # None
  /\ Changes(k, None)
  /\ UNCHANGED issued

(* start: only where nobody is logged in for MCP.                          *)
OtherStart(b) ==
  /\ ~SignedIn(file["mcp"])
  /\ file["mcp"] # None => file["mcp"].temp # "live"
  /\ Changes("mcp", Login(b, 0, "live"))
  /\ UNCHANGED issued

(* A refresh by another process, which keeps everything but the token.     *)
OtherRefresh(k) ==
  /\ issued < MaxIssued /\ SignedIn(file[k])
  /\ issued' = issued + 1
  /\ file' = [file EXCEPT ![k].gen = issued + 1]
  /\ UNCHANGED <<opt, place, base, held, kind, token, refused, quiet, still>>

ProfileExpires ==
  /\ file["mcp"] # None /\ file["mcp"].temp = "live"
  /\ file' = [file EXCEPT !["mcp"].temp = "expired"]
  /\ UNCHANGED <<issued, opt, place, base, held, kind, token, refused, quiet, still>>

-----------------------------------------------------------------------------
(* The choice of the deployment.                                           *)

First(order, given) ==
  IF \E s \in Sources : s \in given
    THEN CHOOSE s \in given : \A t \in given : order[s] <= order[t]
    ELSE None

Order == [flag |-> 1, env |-> 2, config |-> 3]

(* find_api_key, find_base_url                                             *)
KeySource == First(Order, opt.key)
UrlSource == First(Order, {s \in Sources : opt.url[s] # None})

(* What the user has named for a stored credential: not in config.env.     *)
Requested ==
  LET s == First(Order, {t \in {"flag", "env"} : opt.url[t] # None})
  IN  IF s = None THEN None ELSE opt.url[s]

\* Mutant: a server named without TLS is taken.
ResolveOverHttp(stored) ==
  IF stored # None
    THEN IF Requested \in {None, stored} THEN stored ELSE None
    ELSE IF Requested = None THEN Home ELSE Requested

(* target.resolve: the deployment, or None if it refuses.                  *)
Resolve(stored) ==
  IF stored # None
    THEN IF Requested \in {None, stored} /\ stored \notin Insecure THEN stored ELSE None
    ELSE IF Requested = None THEN Home
         ELSE IF Requested \notin Insecure THEN Requested ELSE None

(* target.for_api_key                                                      *)
ForApiKey ==
  LET b == IF UrlSource = None THEN Home ELSE opt.url[UrlSource] IN
  IF b \notin Insecure /\ (b \in AnonaHosts \/ UrlSource = KeySource) THEN b ELSE None

Goto(p) == place' = p

Fix(b, p) == base' = b /\ Goto(IF b = None THEN "done" ELSE p)

(* A data command with an API key: it needs no file.                       *)
ChooseKey ==
  /\ place = "begin" /\ opt.role = "command" /\ KeySource # None
  /\ opt.needSpace => opt.space
  /\ Fix(ForApiKey, "send")
  /\ token' = KeyToken
  /\ UNCHANGED <<file, issued, opt, held, kind, refused, quiet, still>>

(* An account implies no space: with a key or a login one must be named.   *)
NameASpace ==
  /\ place = "begin" /\ opt.role = "command" /\ opt.needSpace /\ ~opt.space
  /\ KeySource # None \/ SignedIn(file["cli"])
  /\ Goto("done")
  /\ UNCHANGED <<file, issued, opt, base, held, kind, token, refused, quiet, still>>

ReadCli ==
  /\ place = "begin" /\ opt.role = "command" /\ KeySource = None
  /\ IF SignedIn(file["cli"])
       THEN (opt.needSpace => opt.space) /\ Fix(Resolve(file["cli"].base), "check")
       ELSE Goto("mcp file") /\ UNCHANGED base
  /\ UNCHANGED <<file, issued, opt, held, kind, token, refused, quiet, still>>

ReadMcp ==
  /\ place = "mcp file" /\ opt.role = "command"
  /\ Fix(Resolve(IF file["mcp"] = None THEN None ELSE file["mcp"].base), "check")
  /\ UNCHANGED <<file, issued, opt, held, kind, token, refused, quiet, still>>

(* The proxy: the command-line login's deployment wins, unless the user    *)
(* has named the MCP file's and not its own.                               *)
ProxyReadCli ==
  /\ place = "begin" /\ opt.role = "proxy"
  /\ held' = IF SignedIn(file["cli"]) THEN file["cli"].base ELSE None
  /\ Goto("mcp file")
  /\ UNCHANGED <<file, issued, opt, base, kind, token, refused, quiet, still>>

Stored(cli, mcp) ==
  IF cli # None /\ (Requested \in {None, cli} \/ mcp # Requested \/ mcp = None) THEN cli ELSE mcp

ProxyReadMcp ==
  /\ place = "mcp file" /\ opt.role = "proxy"
  /\ Fix(Resolve(Stored(held, IF file["mcp"] = None THEN None ELSE file["mcp"].base)), "ready")
  /\ held' = None
  /\ UNCHANGED <<file, issued, opt, kind, token, refused, quiet, still>>

-----------------------------------------------------------------------------
(* A message of the proxy, or the request of a command.                    *)

Message ==
  /\ place = "ready"
  /\ Goto("check") /\ still' = TRUE
  /\ UNCHANGED <<file, issued, opt, base, held, kind, token, refused, quiet>>

(* The message is answered with an error, or the command ends.             *)
Give(p) ==
  /\ place' = p /\ token' = None /\ refused' = None /\ kind' = "cli"

GiveUp == Give(IF opt.role = "proxy" THEN "ready" ELSE "done")

\* Mutant: the proxy takes the command-line login of any deployment.
CheckAnyCli ==
  /\ place = "check"
  /\ IF SignedIn(file["cli"]) THEN kind' = "cli" /\ Goto("access") ELSE Goto("load") /\ UNCHANGED kind
  /\ UNCHANGED <<file, issued, opt, base, held, token, refused, quiet, still>>

(* _cli_bearer looks whether there is a login, _cli_login also for whom.   *)
Check ==
  /\ place = "check"
  /\ IF SignedIn(file["cli"]) /\ (opt.role = "proxy" => file["cli"].base = base)
       THEN kind' = "cli" /\ Goto("access")
       ELSE Goto("load") /\ UNCHANGED kind
  /\ UNCHANGED <<file, issued, opt, base, held, token, refused, quiet, still>>

\* Mutant: a profile is presented whether or not there is a login.
LoadProfileFirst ==
  /\ place = "load"
  /\ IF file["mcp"] # None /\ file["mcp"].temp = "live"
       THEN /\ token' = [kind |-> "temp", base |-> file["mcp"].base, gen |-> 0]
            /\ Goto("send") /\ UNCHANGED <<kind, refused>>
       ELSE IF SignedIn(file["mcp"]) /\ opt.role = "proxy"
         THEN kind' = "mcp" /\ Goto("access") /\ UNCHANGED <<token, refused>>
         ELSE GiveUp
  /\ UNCHANGED <<file, issued, opt, base, held, quiet, still>>

(* The MCP file: its login is for the proxy alone; a live profile is the   *)
(* fallback where there is no login.                                       *)
Load ==
  /\ place = "load"
  /\ CASE SignedIn(file["mcp"]) /\ opt.role = "proxy" ->
            kind' = "mcp" /\ Goto("access") /\ UNCHANGED <<token, refused>>
       [] ~SignedIn(file["mcp"]) /\ file["mcp"] # None /\ file["mcp"].temp = "live" ->
            /\ token' = [kind |-> "temp", base |-> file["mcp"].base, gen |-> 0]
            /\ Goto("send") /\ UNCHANGED <<kind, refused>>
       [] OTHER -> GiveUp
  /\ UNCHANGED <<file, issued, opt, base, held, quiet, still>>

Take(f) == token' = f /\ Goto("send")

(* A refresh of our own: the next token, saved.                            *)
Rotate ==
  /\ issued < MaxIssued
  /\ issued' = issued + 1
  /\ file' = [file EXCEPT ![kind].gen = issued + 1]
  /\ Take([TokenOf(kind) EXCEPT !.gen = issued + 1])

(* access_token: the stored token, or a refreshed one, or an error.        *)
Access ==
  /\ place = "access"
  /\ \/ SignedIn(file[kind]) /\ Take(TokenOf(kind)) /\ UNCHANGED <<files, kind, refused>>
     \/ SignedIn(file[kind]) /\ Rotate /\ UNCHANGED <<kind, refused>>
     \/ GiveUp /\ UNCHANGED files
  /\ UNCHANGED <<opt, base, held, quiet, still>>

Send ==
  /\ place = "send"
  /\ Goto("posted")
  /\ UNCHANGED <<file, issued, opt, base, held, kind, token, refused, quiet, still>>

(* Any answer that is not a 401 that can be renewed ends the request.      *)
End ==
  /\ place = "posted"
  /\ GiveUp
  /\ UNCHANGED <<file, issued, opt, base, held, quiet, still>>

Renewable ==
  /\ token.kind \in IF opt.role = "proxy" THEN {"cli", "mcp"} ELSE {"cli"}
  /\ refused = None

Denied ==
  /\ place = "posted" /\ Renewable
  /\ refused' = token /\ Goto("renew")
  /\ UNCHANGED <<file, issued, opt, base, held, kind, token, quiet, still>>

\* Mutant: the stored token is taken without a look at the refused one.
RenewWithoutLook ==
  /\ place = "renew"
  /\ \/ SignedIn(file[kind]) /\ Take(TokenOf(kind)) /\ UNCHANGED files
     \/ SignedIn(file[kind]) /\ Rotate
  /\ UNCHANGED <<opt, base, held, kind, refused, quiet, still>>

\* Mutant: a renewal that fails is waited out.
RenewOrWait ==
  /\ place = "renew"
  /\ \/ SignedIn(file[kind]) /\ TokenOf(kind) # refused /\ Take(TokenOf(kind)) /\ UNCHANGED files
     \/ SignedIn(file[kind]) /\ Rotate
  /\ UNCHANGED <<opt, base, held, kind, refused, quiet, still>>

(* access_token(force_refresh, rejected): the stored token if it is not    *)
(* the refused one, else a refreshed one, or an error.                     *)
Renew ==
  /\ place = "renew"
  /\ \/ /\ SignedIn(file[kind]) /\ TokenOf(kind) # refused
        /\ Take(TokenOf(kind)) /\ UNCHANGED <<files, kind, refused>>
     \/ SignedIn(file[kind]) /\ Rotate /\ UNCHANGED <<kind, refused>>
     \/ GiveUp /\ UNCHANGED files
  /\ UNCHANGED <<opt, base, held, quiet, still>>

-----------------------------------------------------------------------------
Others ==
  \/ \E k \in Kinds : OtherLogout(k) \/ OtherRefresh(k)
                      \/ \E b \in Deployments \ Insecure : OtherLogin(k, b)
  \/ \E b \in Deployments \ Insecure : OtherStart(b)
  \/ ProfileExpires

Work ==
  \/ ChooseKey \/ NameASpace \/ ReadCli \/ ReadMcp \/ ProxyReadCli \/ ProxyReadMcp
  \/ Check \/ Load \/ Access \/ Send \/ End \/ Denied \/ Renew

Next == Work \/ Message \/ Others

(* The process keeps running, and its requests time out.  No message has   *)
(* to come, and the others need not do anything.                           *)
Spec == Init /\ [][Next]_vars /\ WF_vars(Work)

=============================================================================
