----------------------------- MODULE BearerProofs -----------------------------
(***************************************************************************)
(* For any deployments, command lines and environments, and any number of  *)
(* tokens: a stored token goes to its own deployment while nobody logs in  *)
(* or out, and a 401 is renewed once.                                      *)
(***************************************************************************)
EXTENDS BearerProps, TLAPS

Cli  == file["cli"]
Mcp  == file["mcp"]
Sent == {"send", "posted", "renew"}
Live == {"ready", "check", "load", "access"} \cup Sent

(* Which token the process holds, where.                                   *)
PlaceInv ==
  /\ place \in Live => base # None
  /\ place \notin Sent => refused = None /\ (place = "done" \/ token = None)
  /\ place \in Sent /\ token.kind \in Kinds => token.kind = kind
  /\ place = "renew" => token.kind \in Kinds /\ refused = token
  /\ place \in {"send", "posted"} => refused # token
  /\ opt.role = "command" => kind = "cli"
  /\ place = "ready" => opt.role = "proxy"

(* Every token there is has been issued.                                   *)
GenInv ==
  /\ \A k \in Kinds : file[k] # None => file[k].gen <= issued
  /\ token # None => token.gen <= issued

Key == place \in Sent /\ token.kind = "key"

KeyInv == Key => opt.role = "command" /\ (opt.needSpace => opt.space)

(* The command-line login is the one to present.                           *)
TakesCli == SignedIn(Cli) /\ (opt.role = "proxy" => Cli.base = base)

(* The deployment that was fixed is that of the login that will be used.   *)
Agrees ==
  \/ SignedIn(Cli) /\ Cli.base = base
  \/ ~(SignedIn(Cli) /\ opt.role = "command") /\ (Mcp # None => Mcp.base = base)

Spaced == opt.role = "command" /\ SignedIn(Cli) /\ opt.needSpace => opt.space

QuietInv ==
  quiet =>
    /\ still
    /\ place = "mcp file" /\ opt.role = "command" => ~SignedIn(Cli)
    /\ place = "mcp file" /\ opt.role = "proxy" =>
         held = IF SignedIn(Cli) THEN Cli.base ELSE None
    /\ place \in Live /\ ~Key => Agrees /\ Spaced
    /\ place = "access" \/ (place \in Sent /\ token.kind \in Kinds) =>
         SignedIn(file[kind]) /\ file[kind].base = base
    /\ place \in Sent /\ ~Key => token.base = base

StillInv ==
  still =>
    /\ place = "load" => ~TakesCli
    /\ place \in Sent /\ token.kind = "temp" => ~SignedIn(Mcp) /\ ~TakesCli

BearerInv == TypeOK /\ PlaceInv /\ GenInv /\ KeyInv /\ QuietInv /\ StillInv

-----------------------------------------------------------------------------
(* The choice of the deployment.                                           *)

LEMMA FirstGiven ==
  ASSUME NEW given \in SUBSET Sources, First(Order, given) # None
  PROVE  /\ First(Order, given) \in given
         /\ \A t \in given : Order[First(Order, given)] <= Order[t]
<1>1. given # {} /\ First(Order, given) =
        CHOOSE s \in given : \A t \in given : Order[s] <= Order[t]
  BY DEF First
<1>2. \E s \in given : \A t \in given : Order[s] <= Order[t]
  <2>1. Order["flag"] = 1 /\ Order["env"] = 2 /\ Order["config"] = 3
    BY DEF Order
  <2>2. CASE "flag" \in given
    BY <2>1, <2>2 DEF Sources
  <2>3. CASE "flag" \notin given /\ "env" \in given
    BY <2>1, <2>3 DEF Sources
  <2>4. CASE "flag" \notin given /\ "env" \notin given
    <3>1. given = {"config"}
      BY <1>1, <2>4 DEF Sources
    <3> QED BY <2>1, <3>1
  <2> QED BY <2>2, <2>3, <2>4
<1> QED BY <1>1, <1>2

LEMMA RequestedTyped ==
  ASSUME opt \in Options
  PROVE  Requested \in Deployments \cup {None}
<1> DEFINE given == {t \in {"flag", "env"} : opt.url[t] # None}
           s == First(Order, given)
<1>1. CASE s = None
  BY <1>1 DEF Requested
<1>2. CASE s # None
  <2>1. s \in given
    BY <1>2, FirstGiven DEF Sources
  <2> HIDE DEF s
  <2>2. opt.url[s] \in Deployments \cup {None}
    BY <2>1 DEF Options, Sources
  <2>3. Requested = opt.url[s]
    BY <1>2 DEF Requested, s
  <2> QED BY <2>2, <2>3
<1> QED BY <1>1, <1>2

(* What is stored is answered as it is or not at all.                      *)
LEMMA Resolved ==
  ASSUME opt \in Options, NEW stored \in Deployments \cup {None}
  PROVE  /\ Resolve(stored) \in (Deployments \ Insecure) \cup {None}
         /\ stored # None /\ Resolve(stored) # None => Resolve(stored) = stored
  BY RequestedTyped, BearerAssumption DEF Resolve

LEMMA KeyGoes ==
  ASSUME opt \in Options, KeySource # None, ForApiKey # None
  PROVE  /\ ForApiKey \in Deployments \ Insecure
         /\ \/ ForApiKey \in AnonaHosts
            \/ \E s \in opt.key : opt.url[s] = ForApiKey /\ \A t \in opt.key : Order[s] <= Order[t]
<1> DEFINE given == {s \in Sources : opt.url[s] # None}
<1>1. KeySource \in opt.key /\ \A t \in opt.key : Order[KeySource] <= Order[t]
  BY FirstGiven DEF KeySource, Options
<1>2. CASE UrlSource = None
  BY <1>2, BearerAssumption DEF ForApiKey
<1>3. CASE UrlSource # None
  <2>1. UrlSource \in given
    BY <1>3, FirstGiven DEF UrlSource
  <2>2. opt.url[UrlSource] \in Deployments
    BY <2>1 DEF Options
  <2>3. ForApiKey = opt.url[UrlSource] /\ ForApiKey \notin Insecure
        /\ (ForApiKey \in AnonaHosts \/ UrlSource = KeySource)
    BY <1>3 DEF ForApiKey
  <2> QED BY <1>1, <2>2, <2>3
<1> QED BY <1>2, <1>3

-----------------------------------------------------------------------------
LEMMA BearerInit == Init => BearerInv
<1> SUFFICES ASSUME Init PROVE BearerInv
  OBVIOUS
<1>1. file \in [Kinds -> Files \cup {None}] /\ \A k \in Kinds : file[k] # None => file[k].gen <= 1
  <2>1. PICK cli \in {None} \cup [base : Deployments \ Insecure, gen : {1}, temp : {"none"}],
             mcp \in {None} \cup [base : Deployments \ Insecure, gen : {0}, temp : {"live", "expired"}]
                            \cup [base : Deployments \ Insecure, gen : {1}, temp : {"none", "live"}] :
          file = [k \in Kinds |-> IF k = "cli" THEN cli ELSE mcp]
    BY DEF Init
  <2>2. 0 \in 0..MaxIssued /\ 1 \in 0..MaxIssued
    BY BearerAssumption DEF Init
  <2>3. cli \in Files \cup {None} /\ mcp \in Files \cup {None}
    BY <2>2 DEF Files
  <2>4. (cli # None => cli.gen <= 1) /\ (mcp # None => mcp.gen <= 1)
    OBVIOUS
  <2> QED BY <2>1, <2>3, <2>4 DEF Kinds
<1> USE BearerAssumption DEF Init
<1>2. TypeOK
  BY <1>1 DEF TypeOK, Places, Kinds
<1>3. PlaceInv /\ KeyInv /\ QuietInv /\ StillInv
  BY DEF PlaceInv, Key, KeyInv, QuietInv, StillInv, Live, Sent
<1>4. GenInv
  BY <1>1 DEF GenInv
<1> QED BY <1>2, <1>3, <1>4 DEF BearerInv

-----------------------------------------------------------------------------
(* Others: what they change, the process has not seen yet.                 *)

LEMMA ChangesKeeps ==
  ASSUME BearerInv, NEW k \in Kinds, NEW f \in Files \cup {None}, Changes(k, f),
         issued' \in 1..MaxIssued, issued <= issued', f # None => f.gen <= issued'
  PROVE  BearerInv'
<1> USE DEF BearerInv, Changes
<1>1. TypeOK'
  BY DEF TypeOK, Places
<1>2. PlaceInv'
  BY DEF PlaceInv
<1>3. GenInv'
  <2>1. issued \in Nat /\ issued' \in Nat /\ \A l \in Kinds : file[l] # None => file[l].gen \in Nat
    BY DEF TypeOK, Files
  <2>2. token # None => token.gen \in Nat
    BY DEF TypeOK, Tokens
  <2>3. \A l \in Kinds : file'[l] # None => file'[l].gen <= issued'
    BY <2>1 DEF GenInv, TypeOK
  <2> QED BY <2>1, <2>2, <2>3 DEF GenInv
<1>4. KeyInv'
  BY DEF KeyInv, Key
<1>5. QuietInv' /\ StillInv'
  BY DEF QuietInv, StillInv
<1> QED BY <1>1, <1>2, <1>3, <1>4, <1>5

LEMMA OtherLoginKeeps ==
  ASSUME BearerInv, NEW k \in Kinds, NEW b \in Deployments \ Insecure, OtherLogin(k, b)
  PROVE  BearerInv'
<1>1. issued \in Nat /\ issued + 1 \in 0..MaxIssued /\ issued' = issued + 1
  BY BearerAssumption DEF BearerInv, TypeOK, OtherLogin
<1>2. PICK temp \in {"none", "live", "expired"} : Changes(k, Login(b, issued + 1, temp))
  BY DEF OtherLogin, BearerInv, TypeOK, Files
<1>3. Login(b, issued + 1, temp) \in Files /\ Login(b, issued + 1, temp).gen = issued + 1
  BY <1>1 DEF Login, Files
<1> QED BY <1>1, <1>2, <1>3, ChangesKeeps, BearerAssumption

LEMMA OtherLogoutKeeps ==
  ASSUME BearerInv, NEW k \in Kinds, OtherLogout(k)
  PROVE  BearerInv'
<1>1. issued' \in 1..MaxIssued /\ issued <= issued'
  BY BearerAssumption DEF BearerInv, TypeOK, OtherLogout
<1> QED BY <1>1, ChangesKeeps DEF OtherLogout

LEMMA OtherStartKeeps ==
  ASSUME BearerInv, NEW b \in Deployments \ Insecure, OtherStart(b)
  PROVE  BearerInv'
<1>1. issued' \in 1..MaxIssued /\ issued <= issued' /\ 0 <= issued'
  BY BearerAssumption DEF BearerInv, TypeOK, OtherStart
<1>2. Login(b, 0, "live") \in Files /\ Login(b, 0, "live").gen = 0
  BY BearerAssumption DEF Login, Files
<1> QED BY <1>1, <1>2, ChangesKeeps DEF OtherStart, Kinds

(* A file that keeps its deployment and its login.                         *)
Same(f, g) ==
  /\ g = None <=> f = None
  /\ f # None => g.base = f.base /\ (g.gen = 0 <=> f.gen = 0)

LEMMA SameReads ==
  ASSUME \A k \in Kinds : Same(file[k], file'[k]), UNCHANGED <<opt, base>>
  PROVE  /\ (Agrees' <=> Agrees) /\ (Spaced' <=> Spaced) /\ (TakesCli' <=> TakesCli)
         /\ (SignedIn(Cli)' <=> SignedIn(Cli)) /\ (SignedIn(Mcp)' <=> SignedIn(Mcp))
         /\ \A k \in Kinds : /\ SignedIn(file'[k]) <=> SignedIn(file[k])
                             /\ file[k] # None => file'[k].base = file[k].base
<1>1. \A k \in Kinds : /\ SignedIn(file'[k]) <=> SignedIn(file[k])
                       /\ file[k] # None => file'[k].base = file[k].base
                       /\ file[k] = None <=> file'[k] = None
  BY DEF Same, SignedIn
<1>2. "cli" \in Kinds /\ "mcp" \in Kinds
  BY DEF Kinds
<1> QED BY <1>1, <1>2 DEF Agrees, Spaced, TakesCli, Cli, Mcp, SignedIn

LEMMA SteadyKeeps ==
  ASSUME BearerInv, \A k \in Kinds : Same(file[k], file'[k]),
         UNCHANGED <<opt, place, base, held, kind, token, refused, quiet, still>>
  PROVE  PlaceInv' /\ KeyInv' /\ QuietInv' /\ StillInv'
<1> USE SameReads DEF BearerInv
<1>1. "cli" \in Kinds /\ kind \in Kinds
  BY DEF Kinds, TypeOK
<1>2. SignedIn(Cli) => Cli'.base = Cli.base
  BY <1>1 DEF Cli, SignedIn
<1>3. PlaceInv'
  BY DEF PlaceInv
<1>4. KeyInv'
  BY DEF KeyInv, Key
<1>5. QuietInv'
  BY <1>1, <1>2 DEF QuietInv, Key, SignedIn
<1>6. StillInv'
  BY DEF StillInv
<1> QED BY <1>3, <1>4, <1>5, <1>6

LEMMA Refreshed ==
  ASSUME BearerInv, NEW k \in Kinds, SignedIn(file[k]), issued < MaxIssued,
         issued' = issued + 1, file' = [file EXCEPT ![k].gen = issued + 1]
  PROVE  /\ file' \in [Kinds -> Files \cup {None}]
         /\ issued' \in 1..MaxIssued
         /\ \A l \in Kinds : file'[l] # None => file'[l].gen <= issued'
         /\ \A l \in Kinds : Same(file[l], file'[l])
         /\ file'[k] # None /\ file'[k].base = file[k].base /\ file'[k].gen = issued + 1
<1> DEFINE g == [file[k] EXCEPT !.gen = issued + 1]
<1>1. issued \in Nat /\ issued + 1 \in 1..MaxIssued
  BY BearerAssumption DEF BearerInv, TypeOK
<1>2. file \in [Kinds -> Files \cup {None}] /\ file[k] \in Files /\ file[k].gen # 0
  BY DEF BearerInv, TypeOK, SignedIn
<1>3. g \in Files /\ g.base = file[k].base /\ g.gen = issued + 1
  BY <1>1, <1>2 DEF Files
<1>4. file' = [file EXCEPT ![k] = g]
  OBVIOUS
<1> HIDE DEF g
<1>5. g # None
  BY <1>3, BearerAssumption
<1>6. \A l \in Kinds : file'[l] = IF l = k THEN g ELSE file[l]
  BY <1>2, <1>4
<1>7. \A l \in Kinds : file[l] # None => file[l].gen \in Nat /\ file[l].gen <= issued
  BY <1>2 DEF BearerInv, GenInv, Files
<1>8. \A l \in Kinds : file'[l] # None => file'[l].gen <= issued'
  BY <1>1, <1>3, <1>6, <1>7
<1>9. \A l \in Kinds : Same(file[l], file'[l])
  BY <1>1, <1>2, <1>3, <1>5, <1>6, BearerAssumption DEF Same
<1> QED BY <1>1, <1>2, <1>3, <1>4, <1>5, <1>6, <1>8, <1>9

LEMMA OtherRefreshKeeps ==
  ASSUME BearerInv, NEW k \in Kinds, OtherRefresh(k)
  PROVE  BearerInv'
<1> USE DEF BearerInv
<1>1. /\ file' \in [Kinds -> Files \cup {None}] /\ issued' \in 1..MaxIssued
      /\ \A l \in Kinds : file'[l] # None => file'[l].gen <= issued'
      /\ \A l \in Kinds : Same(file[l], file'[l])
  BY Refreshed DEF OtherRefresh
<1>2. PlaceInv' /\ KeyInv' /\ QuietInv' /\ StillInv'
  BY <1>1, SteadyKeeps DEF OtherRefresh
<1>3. TypeOK'
  BY <1>1 DEF TypeOK, OtherRefresh, Places
<1>4. token # None => token.gen \in Nat /\ token.gen <= issued + 1
  BY DEF TypeOK, Tokens, GenInv
<1>5. GenInv'
  BY <1>1, <1>4 DEF GenInv, OtherRefresh
<1> QED BY <1>2, <1>3, <1>5

LEMMA ProfileExpiresKeeps ==
  ASSUME BearerInv, ProfileExpires
  PROVE  BearerInv'
<1> USE DEF BearerInv
<1> DEFINE g == [Mcp EXCEPT !.temp = "expired"]
<1>1. file \in [Kinds -> Files \cup {None}] /\ Mcp \in Files /\ "mcp" \in Kinds
  BY DEF TypeOK, ProfileExpires, Mcp, Kinds
<1>2. g \in Files /\ g.base = Mcp.base /\ g.gen = Mcp.gen
  BY <1>1 DEF Files
<1>3. file' = [file EXCEPT !["mcp"] = g]
  BY DEF ProfileExpires, Mcp
<1> HIDE DEF g
<1>4. \A l \in Kinds : file'[l] = IF l = "mcp" THEN g ELSE file[l]
  BY <1>1, <1>3
<1>5. \A l \in Kinds : Same(file[l], file'[l])
  BY <1>1, <1>2, <1>4, BearerAssumption DEF Same, Mcp
<1>6. PlaceInv' /\ KeyInv' /\ QuietInv' /\ StillInv'
  BY <1>5, SteadyKeeps DEF ProfileExpires
<1>7. TypeOK'
  BY <1>1, <1>2, <1>3 DEF TypeOK, ProfileExpires, Places
<1>8. \A l \in Kinds : file'[l] # None => file[l] # None /\ file'[l].gen = file[l].gen
  BY <1>1, <1>2, <1>4, BearerAssumption DEF Mcp
<1>9. GenInv'
  BY <1>8 DEF GenInv, ProfileExpires
<1> QED BY <1>6, <1>7, <1>9

-----------------------------------------------------------------------------
(* The process: the choice of the deployment.                              *)

LEMMA ChooseKeyKeeps ==
  ASSUME BearerInv, ChooseKey
  PROVE  BearerInv'
<1> USE DEF BearerInv, ChooseKey, Goto
<1>a. ForApiKey # None => ForApiKey \in Deployments \ Insecure
  BY KeyGoes DEF TypeOK, Fix
<1>b. /\ KeyToken \in Tokens /\ KeyToken # None /\ KeyToken.gen <= issued
      /\ KeyToken.kind = "key" /\ "key" \notin Kinds
  BY BearerAssumption DEF KeyToken, Tokens, Kinds, TypeOK
<1>c. ForApiKey \in (Deployments \ Insecure) \cup {None}
  BY <1>a
<1>1. TypeOK'
  BY <1>b, <1>c DEF TypeOK, Places, Fix
<1>2. PlaceInv'
  BY <1>b DEF PlaceInv, Live, Sent, Fix
<1>3. GenInv'
  BY <1>b DEF GenInv
<1>4. KeyInv'
  BY <1>a, <1>b DEF KeyInv, Key, Sent, Fix
<1>5. QuietInv'
  BY <1>b DEF QuietInv, Key, Live, Sent, Agrees, Spaced, Cli, Mcp, SignedIn, Fix
<1>6. StillInv'
  BY <1>b DEF StillInv, TakesCli, Cli, Mcp, Sent, Fix
<1> QED BY <1>1, <1>2, <1>3, <1>4, <1>5, <1>6

LEMMA NameASpaceKeeps ==
  ASSUME BearerInv, NameASpace
  PROVE  BearerInv'
<1> USE DEF BearerInv, NameASpace, Goto
<1>1. TypeOK'
  BY DEF TypeOK, Places
<1>2. PlaceInv'
  BY DEF PlaceInv, Live, Sent
<1>3. GenInv'
  BY DEF GenInv
<1>4. KeyInv'
  BY DEF KeyInv, Key, Sent
<1>5. QuietInv'
  BY DEF QuietInv, Key, Live, Sent, Agrees, Spaced, Cli, Mcp, SignedIn
<1>6. StillInv'
  BY DEF StillInv, TakesCli, Cli, Mcp, Sent
<1> QED BY <1>1, <1>2, <1>3, <1>4, <1>5, <1>6

LEMMA ReadCliKeeps ==
  ASSUME BearerInv, ReadCli
  PROVE  BearerInv'
<1> USE DEF BearerInv, ReadCli, Goto
<1>a. SignedIn(Cli) => Cli.base \in Deployments
  BY DEF TypeOK, SignedIn, Cli, Files, Kinds
<1>b. SignedIn(Cli) => /\ Resolve(Cli.base) \in (Deployments \ Insecure) \cup {None}
                       /\ Resolve(Cli.base) # None => Resolve(Cli.base) = Cli.base
  BY <1>a, Resolved, BearerAssumption DEF TypeOK
<1>1. TypeOK'
  BY <1>b DEF Cli, TypeOK, Places, Fix
<1>2. PlaceInv'
  BY DEF PlaceInv, Live, Sent, Fix
<1>3. GenInv'
  BY DEF GenInv
<1>4. KeyInv'
  BY DEF KeyInv, Key, Sent, Fix
<1>5. QuietInv'
  BY <1>b DEF QuietInv, Key, Live, Sent, Agrees, Spaced, Cli, Mcp, SignedIn, Fix
<1>6. StillInv'
  BY DEF StillInv, TakesCli, Cli, Mcp, Sent, Fix
<1> QED BY <1>1, <1>2, <1>3, <1>4, <1>5, <1>6

LEMMA ReadMcpKeeps ==
  ASSUME BearerInv, ReadMcp
  PROVE  BearerInv'
<1> USE DEF BearerInv, ReadMcp, Goto
<1> DEFINE stored == IF Mcp = None THEN None ELSE Mcp.base
<1>a. stored \in Deployments \cup {None} /\ (Mcp # None => stored = Mcp.base /\ stored # None)
  BY BearerAssumption DEF TypeOK, SignedIn, Mcp, Files, Kinds
<1>b. /\ Resolve(stored) \in (Deployments \ Insecure) \cup {None}
      /\ Mcp # None /\ Resolve(stored) # None => Resolve(stored) = Mcp.base
  BY <1>a, Resolved DEF TypeOK
<1>c. Fix(Resolve(stored), "check")
  BY DEF Mcp
<1> HIDE DEF stored
<1>1. TypeOK'
  BY <1>b, <1>c DEF TypeOK, Places, Fix
<1>2. PlaceInv'
  BY <1>c DEF PlaceInv, Live, Sent, Fix
<1>3. GenInv'
  BY DEF GenInv
<1>4. KeyInv'
  BY <1>c DEF KeyInv, Key, Sent, Fix
<1>5. QuietInv'
  BY <1>b, <1>c DEF QuietInv, Key, Live, Sent, Agrees, Spaced, Cli, Mcp, SignedIn, Fix
<1>6. StillInv'
  BY <1>c DEF StillInv, TakesCli, Cli, Mcp, Sent, Fix
<1> QED BY <1>1, <1>2, <1>3, <1>4, <1>5, <1>6

LEMMA ProxyReadCliKeeps ==
  ASSUME BearerInv, ProxyReadCli
  PROVE  BearerInv'
<1> USE DEF BearerInv, ProxyReadCli, Goto
<1>a. held' \in Deployments \cup {None}
  BY DEF TypeOK, SignedIn, Files, Kinds
<1>1. TypeOK'
  BY <1>a DEF TypeOK, Places
<1>2. PlaceInv'
  BY DEF PlaceInv, Live, Sent
<1>3. GenInv'
  BY DEF GenInv
<1>4. KeyInv'
  BY DEF KeyInv, Key, Sent
<1>5. QuietInv'
  BY DEF QuietInv, Key, Live, Sent, Agrees, Spaced, Cli, Mcp, SignedIn
<1>6. StillInv'
  BY DEF StillInv, TakesCli, Cli, Mcp, Sent
<1> QED BY <1>1, <1>2, <1>3, <1>4, <1>5, <1>6

LEMMA ProxyReadMcpKeeps ==
  ASSUME BearerInv, ProxyReadMcp
  PROVE  BearerInv'
<1> USE DEF BearerInv, ProxyReadMcp, Goto
<1> DEFINE mcp    == IF Mcp = None THEN None ELSE Mcp.base
           stored == Stored(held, mcp)
<1>a. mcp \in Deployments \cup {None} /\ (Mcp # None => mcp = Mcp.base /\ mcp # None)
  BY BearerAssumption DEF TypeOK, Mcp, Files, Kinds
<1>b. (stored = held \/ stored = mcp) /\ (held # None /\ stored # mcp => stored = held)
  BY DEF Stored
<1>c. held \in Deployments \cup {None}
  BY DEF TypeOK
<1>d. (stored = held /\ held # None) \/ stored = mcp
  BY DEF Stored
<1>e. stored \in Deployments \cup {None}
  BY <1>a, <1>b, <1>c
<1>f. Fix(Resolve(stored), "ready")
  BY DEF Mcp
<1> HIDE DEF stored, mcp
<1>g. /\ Resolve(stored) \in (Deployments \ Insecure) \cup {None}
      /\ stored # None /\ Resolve(stored) # None => Resolve(stored) = stored
  BY <1>e, Resolved DEF TypeOK
<1>1. TypeOK'
  BY <1>f, <1>g DEF TypeOK, Places, Fix
<1>2. PlaceInv'
  BY <1>f DEF PlaceInv, Live, Sent, Fix
<1>3. GenInv'
  BY DEF GenInv
<1>4. KeyInv'
  BY <1>f DEF KeyInv, Key, Sent, Fix
<1>5. QuietInv'
  <2>1. CASE Resolve(stored) = None
    BY <1>f, <2>1 DEF QuietInv, Key, Live, Sent, Fix
  <2>2. CASE Resolve(stored) # None
    <3>1. quiet => held = IF SignedIn(Cli) THEN Cli.base ELSE None
      BY DEF QuietInv
    <3>2. base' = Resolve(stored) /\ place' = "ready"
      BY <1>f, <2>2 DEF Fix
    <3>3. quiet => Agrees'
      BY <1>a, <1>d, <1>g, <2>2, <3>1, <3>2 DEF Agrees, Cli, Mcp, SignedIn
    <3>4. Spaced'
      BY DEF Spaced
    <3> QED BY <3>2, <3>3, <3>4 DEF QuietInv, Key, Live, Sent
  <2> QED BY <2>1, <2>2
<1>6. StillInv'
  BY <1>f DEF StillInv, Sent, Fix
<1> QED BY <1>1, <1>2, <1>3, <1>4, <1>5, <1>6

-----------------------------------------------------------------------------
(* The process: its messages.                                              *)

LEMMA GiveUpKeeps ==
  ASSUME BearerInv, place \in Live, GiveUp,
         UNCHANGED <<file, issued, opt, base, held, quiet, still>>
  PROVE  BearerInv'
<1> USE DEF BearerInv, GiveUp, Give
<1>a. place' = IF opt.role = "proxy" THEN "ready" ELSE "done"
  OBVIOUS
<1>b. Key => opt.role = "command"
  BY DEF KeyInv
<1>1. TypeOK'
  BY <1>a DEF TypeOK, Places, Kinds
<1>2. PlaceInv'
  BY <1>a DEF PlaceInv, Live, Sent
<1>3. GenInv'
  BY DEF GenInv
<1>4. KeyInv'
  BY <1>a DEF KeyInv, Key, Sent
<1>5. QuietInv'
  BY <1>a, <1>b DEF QuietInv, Live, Sent, Key, Agrees, Spaced, Cli, Mcp, SignedIn
<1>6. StillInv'
  BY <1>a DEF StillInv, Sent
<1> QED BY <1>1, <1>2, <1>3, <1>4, <1>5, <1>6

LEMMA MessageKeeps ==
  ASSUME BearerInv, Message
  PROVE  BearerInv'
<1> USE DEF BearerInv, Message, Goto
<1>1. TypeOK'
  BY DEF TypeOK, Places
<1>2. PlaceInv'
  BY DEF PlaceInv, Live, Sent
<1>3. GenInv'
  BY DEF GenInv
<1>4. KeyInv'
  BY DEF KeyInv, Key, Sent
<1>5. QuietInv'
  BY DEF QuietInv, Key, Live, Sent, Agrees, Spaced, Cli, Mcp, SignedIn
<1>6. StillInv'
  BY DEF StillInv, Sent
<1> QED BY <1>1, <1>2, <1>3, <1>4, <1>5, <1>6

LEMMA CheckKeeps ==
  ASSUME BearerInv, Check
  PROVE  BearerInv'
<1> USE DEF BearerInv, Check, Goto
<1>a. \/ TakesCli /\ kind' = "cli" /\ place' = "access"
      \/ ~TakesCli /\ kind' = kind /\ place' = "load"
  BY DEF TakesCli, Cli
<1>b. opt.role \in Roles
  BY DEF TypeOK, Options
<1>1. TypeOK'
  BY <1>a DEF TypeOK, Places, Kinds
<1>2. PlaceInv'
  BY <1>a DEF PlaceInv, Live, Sent
<1>3. GenInv'
  BY DEF GenInv
<1>4. KeyInv'
  BY <1>a DEF KeyInv, Key, Sent
<1>5. QuietInv'
  <2>1. quiet => Agrees /\ Spaced
    BY DEF QuietInv, Live, Key, Sent
  <2>2. quiet /\ TakesCli => SignedIn(Cli) /\ Cli.base = base
    BY <1>b, <2>1 DEF Agrees, TakesCli, Roles
  <2> QED BY <1>a, <2>1, <2>2 DEF QuietInv, Key, Live, Sent, Agrees, Spaced, Cli, Mcp, SignedIn
<1>6. StillInv'
  BY <1>a DEF StillInv, Sent, TakesCli, Cli, SignedIn
<1> QED BY <1>1, <1>2, <1>3, <1>4, <1>5, <1>6

LEMMA LoadKeeps ==
  ASSUME BearerInv, Load
  PROVE  BearerInv'
<1> USE DEF BearerInv
<1> DEFINE temp == [kind |-> "temp", base |-> Mcp.base, gen |-> 0]
<1>a. place = "load" /\ UNCHANGED <<file, issued, opt, base, held, quiet, still>>
  BY DEF Load
<1>b. \/ /\ SignedIn(Mcp) /\ opt.role = "proxy"
         /\ kind' = "mcp" /\ place' = "access" /\ UNCHANGED <<token, refused>>
      \/ /\ ~SignedIn(Mcp) /\ Mcp # None
         /\ token' = temp /\ place' = "send" /\ UNCHANGED <<kind, refused>>
      \/ GiveUp
  BY DEF Load, Goto, Mcp
<1>c. Mcp # None => temp \in Tokens
  BY BearerAssumption DEF TypeOK, Mcp, Files, Kinds, Tokens
<1>d. temp.kind = "temp" /\ temp.base = Mcp.base /\ temp.gen = 0 /\ "temp" \notin Kinds
  BY DEF Kinds
<1>e. opt.role \in Roles /\ "mcp" \in Kinds /\ 0 <= issued
  BY BearerAssumption DEF TypeOK, Options, Kinds
<1>f. quiet => Agrees /\ Spaced /\ still
  BY <1>a DEF QuietInv, Live, Key, Sent
<1>g. still => ~TakesCli
  BY <1>a DEF StillInv
<1>h. quiet /\ Mcp # None => Mcp.base = base
  BY <1>e, <1>f, <1>g DEF Agrees, TakesCli, Roles
<1>i. base # None /\ refused = None /\ token = None
  BY <1>a DEF PlaceInv, Live, Sent
<1> HIDE DEF temp
<1>j. Mcp # None => temp # None
  BY <1>c, BearerAssumption
<1>1. CASE GiveUp
  BY <1>1, <1>a, GiveUpKeeps DEF Live
<1>2. CASE /\ SignedIn(Mcp) /\ opt.role = "proxy"
           /\ kind' = "mcp" /\ place' = "access" /\ UNCHANGED <<token, refused>>
  <2>1. TypeOK'
    BY <1>2, <1>a, <1>e DEF TypeOK, Places
  <2>2. PlaceInv'
    BY <1>2, <1>a DEF PlaceInv, Live, Sent
  <2>3. GenInv' /\ KeyInv' /\ StillInv'
    BY <1>2, <1>a DEF GenInv, KeyInv, Key, StillInv, Sent
  <2>4. QuietInv'
    BY <1>2, <1>a, <1>f, <1>h
       DEF QuietInv, Key, Live, Sent, Agrees, Spaced, Cli, Mcp, SignedIn
  <2> QED BY <2>1, <2>2, <2>3, <2>4
<1>3. CASE /\ ~SignedIn(Mcp) /\ Mcp # None
           /\ token' = temp /\ place' = "send" /\ UNCHANGED <<kind, refused>>
  <2>1. TypeOK'
    BY <1>3, <1>a, <1>c, <1>i, <1>j DEF TypeOK, Places
  <2>2. PlaceInv'
    BY <1>3, <1>a, <1>d, <1>i, <1>j DEF PlaceInv, Live, Sent
  <2>3. GenInv'
    BY <1>3, <1>a, <1>d, <1>e DEF GenInv
  <2>4. KeyInv'
    BY <1>3, <1>d DEF KeyInv, Key
  <2>5. StillInv'
    BY <1>3, <1>a, <1>g DEF StillInv, TakesCli, Cli, Mcp, SignedIn
  <2>6. QuietInv'
    BY <1>3, <1>a, <1>d, <1>f, <1>h
       DEF QuietInv, Key, Live, Sent, Agrees, Spaced, Cli, Mcp, SignedIn
  <2> QED BY <2>1, <2>2, <2>3, <2>4, <2>5, <2>6
<1> QED BY <1>b, <1>1, <1>2, <1>3

LEMMA SendKeeps ==
  ASSUME BearerInv, Send
  PROVE  BearerInv'
<1> USE DEF BearerInv, Send, Goto
<1>1. TypeOK'
  BY DEF TypeOK, Places
<1>2. PlaceInv'
  BY DEF PlaceInv, Live, Sent
<1>3. GenInv'
  BY DEF GenInv
<1>4. KeyInv'
  BY DEF KeyInv, Key, Sent
<1>5. QuietInv'
  BY DEF QuietInv, Key, Live, Sent, Agrees, Spaced, Cli, Mcp, SignedIn
<1>6. StillInv'
  BY DEF StillInv, Sent, TakesCli, Cli, Mcp, SignedIn
<1> QED BY <1>1, <1>2, <1>3, <1>4, <1>5, <1>6

LEMMA EndKeeps ==
  ASSUME BearerInv, End
  PROVE  BearerInv'
  BY GiveUpKeeps DEF End, Live, Sent

LEMMA DeniedKeeps ==
  ASSUME BearerInv, Denied
  PROVE  BearerInv'
<1> USE DEF BearerInv, Denied, Goto
<1>a. token.kind \in Kinds /\ token.kind # "key" /\ token.kind # "temp"
  BY DEF Renewable, Kinds
<1>1. TypeOK'
  BY DEF TypeOK, Places
<1>2. PlaceInv'
  BY <1>a DEF PlaceInv, Live, Sent
<1>3. GenInv'
  BY DEF GenInv
<1>4. KeyInv'
  BY <1>a DEF KeyInv, Key, Sent
<1>5. QuietInv'
  BY <1>a DEF QuietInv, Key, Live, Sent, Agrees, Spaced, Cli, Mcp, SignedIn
<1>6. StillInv'
  BY <1>a DEF StillInv
<1> QED BY <1>1, <1>2, <1>3, <1>4, <1>5, <1>6

(* A token of the file that was chosen, stored or just refreshed.          *)
LEMMA TakeKeeps ==
  ASSUME BearerInv, place \in {"access", "renew"}, SignedIn(file[kind]),
         file' \in [Kinds -> Files \cup {None}], issued' \in 1..MaxIssued,
         \A l \in Kinds : file'[l] # None => file'[l].gen <= issued',
         \A l \in Kinds : Same(file[l], file'[l]),
         NEW f, f = [kind |-> kind, base |-> file[kind].base, gen |-> file'[kind].gen],
         f # refused, Take(f),
         UNCHANGED <<opt, base, held, kind, refused, quiet, still>>
  PROVE  BearerInv'
<1> USE DEF BearerInv, Take, Goto
<1>a. kind \in Kinds /\ "key" \notin Kinds /\ "temp" \notin Kinds
  BY DEF TypeOK, Kinds
<1>b. file[kind] \in Files /\ file'[kind] \in Files /\ file'[kind] # None
  BY <1>a DEF TypeOK, SignedIn, Same
<1>c. /\ f \in Tokens /\ f.kind = kind /\ f.base = file[kind].base
      /\ f.gen = file'[kind].gen /\ f.gen <= issued'
  BY <1>a, <1>b DEF Tokens, Files
<1>d. f # None
  BY <1>c, BearerAssumption
<1>e. base # None
  BY DEF PlaceInv, Live, Sent
<1>1. TypeOK'
  BY <1>c, <1>d, <1>e DEF TypeOK, Places
<1>2. PlaceInv'
  BY <1>c, <1>e DEF PlaceInv, Live, Sent
<1>3. GenInv'
  BY <1>c DEF GenInv
<1>4. KeyInv'
  BY <1>a, <1>c DEF KeyInv, Key
<1>5. QuietInv'
  <2>1. quiet => still /\ Agrees /\ Spaced /\ file[kind].base = base
    <3>1. place = "access" \/ (place \in Sent /\ token.kind \in Kinds)
      BY DEF PlaceInv, Sent
    <3>2. place \in Live /\ ~Key
      BY <1>a, <3>1 DEF Live, Key, Sent
    <3> QED BY <3>1, <3>2 DEF QuietInv
  <2>2. (Agrees' <=> Agrees) /\ (Spaced' <=> Spaced)
        /\ SignedIn(file'[kind]) /\ file'[kind].base = file[kind].base
    <3>1. file[kind] # None
      BY DEF SignedIn
    <3> QED BY <1>a, <3>1, SameReads
  <2> QED BY <1>c, <2>1, <2>2 DEF QuietInv, SignedIn
<1>6. StillInv'
  BY <1>a, <1>c DEF StillInv
<1> QED BY <1>1, <1>2, <1>3, <1>4, <1>5, <1>6

(* What Access and Renew come to.                                          *)
LEMMA TokenKeeps ==
  ASSUME BearerInv, place \in {"access", "renew"},
         \/ /\ SignedIn(file[kind]) /\ TokenOf(kind) # refused
            /\ Take(TokenOf(kind)) /\ UNCHANGED <<files, kind, refused>>
         \/ SignedIn(file[kind]) /\ Rotate /\ UNCHANGED <<kind, refused>>
         \/ GiveUp /\ UNCHANGED files,
         UNCHANGED <<opt, base, held, quiet, still>>
  PROVE  BearerInv'
<1>a. file \in [Kinds -> Files \cup {None}] /\ kind \in Kinds /\ issued \in 1..MaxIssued
  BY DEF BearerInv, TypeOK
<1>1. CASE /\ SignedIn(file[kind]) /\ TokenOf(kind) # refused
           /\ Take(TokenOf(kind)) /\ UNCHANGED <<files, kind, refused>>
  <2>1. file' = file /\ issued' = issued
    BY <1>1 DEF files
  <2>2. \A l \in Kinds : Same(file[l], file'[l])
    BY <2>1 DEF Same
  <2>3. \A l \in Kinds : file'[l] # None => file'[l].gen <= issued'
    BY <2>1 DEF BearerInv, GenInv
  <2>4. TokenOf(kind) = [kind |-> kind, base |-> file[kind].base, gen |-> file'[kind].gen]
    BY <2>1 DEF TokenOf
  <2> QED BY <1>a, <1>1, <2>1, <2>2, <2>3, <2>4, TakeKeeps
<1>2. CASE SignedIn(file[kind]) /\ Rotate /\ UNCHANGED <<kind, refused>>
  <2> DEFINE f == [TokenOf(kind) EXCEPT !.gen = issued + 1]
  <2>1. /\ issued < MaxIssued /\ issued' = issued + 1 /\ Take(f)
        /\ file' = [file EXCEPT ![kind].gen = issued + 1]
    BY <1>2 DEF Rotate
  <2>2. /\ file' \in [Kinds -> Files \cup {None}] /\ issued' \in 1..MaxIssued
        /\ \A l \in Kinds : file'[l] # None => file'[l].gen <= issued'
        /\ \A l \in Kinds : Same(file[l], file'[l])
        /\ file'[kind].gen = issued + 1
    BY <1>a, <1>2, <2>1, Refreshed
  <2>3. f = [kind |-> kind, base |-> file[kind].base, gen |-> file'[kind].gen] /\ f.gen = issued + 1
    BY <2>2 DEF TokenOf
  <2>4. refused # None => refused = token /\ token.gen \in Nat /\ token.gen <= issued
    BY DEF BearerInv, PlaceInv, GenInv, TypeOK, Tokens, Sent
  <2>5. f # None
    <3>1. file[kind] \in Files /\ issued + 1 \in 0..MaxIssued
      BY <1>a, <1>2, <2>1, <2>2 DEF SignedIn
    <3>2. [kind |-> kind, base |-> file[kind].base, gen |-> issued + 1] \in Tokens
      BY <1>a, <3>1 DEF Files, Tokens
    <3> QED BY <2>2, <2>3, <3>2, BearerAssumption
  <2> HIDE DEF f
  <2>6. f # refused
    BY <1>a, <2>3, <2>4, <2>5
  <2> QED BY <1>2, <2>1, <2>2, <2>3, <2>6, TakeKeeps
<1>3. CASE GiveUp /\ UNCHANGED files
  BY <1>3, GiveUpKeeps DEF Live, Sent, files
<1> QED BY <1>1, <1>2, <1>3

LEMMA AccessKeeps ==
  ASSUME BearerInv, Access
  PROVE  BearerInv'
<1>1. SignedIn(file[kind]) => TokenOf(kind) # refused
  <2>1. refused = None
    BY DEF Access, BearerInv, PlaceInv, Sent
  <2>2. SignedIn(file[kind]) => TokenOf(kind) \in Tokens
    BY DEF BearerInv, TypeOK, SignedIn, TokenOf, Tokens, Files
  <2> QED BY <2>1, <2>2, BearerAssumption
<1> QED BY <1>1, TokenKeeps DEF Access

LEMMA RenewKeeps ==
  ASSUME BearerInv, Renew
  PROVE  BearerInv'
  BY TokenKeeps DEF Renew

-----------------------------------------------------------------------------
LEMMA BearerStep == BearerInv /\ [Next]_vars => BearerInv'
<1> SUFFICES ASSUME BearerInv, [Next]_vars PROVE BearerInv'
  OBVIOUS
<1>1. CASE Work
  BY <1>1, ChooseKeyKeeps, NameASpaceKeeps, ReadCliKeeps, ReadMcpKeeps, ProxyReadCliKeeps,
     ProxyReadMcpKeeps, CheckKeeps, LoadKeeps, AccessKeeps, SendKeeps, EndKeeps, DeniedKeeps,
     RenewKeeps DEF Work
<1>2. CASE Message
  BY <1>2, MessageKeeps
<1>3. CASE Others
  BY <1>3, OtherLogoutKeeps, OtherRefreshKeeps, OtherLoginKeeps, OtherStartKeeps,
     ProfileExpiresKeeps DEF Others
<1>4. CASE UNCHANGED vars
  <2> USE <1>4 DEF vars
  <2>1. TypeOK'
    BY DEF BearerInv, TypeOK, Places
  <2>2. PlaceInv'
    BY DEF BearerInv, PlaceInv
  <2>3. GenInv'
    BY DEF BearerInv, GenInv
  <2>4. KeyInv'
    BY DEF BearerInv, KeyInv, Key
  <2>5. QuietInv'
    BY DEF BearerInv, QuietInv, Key, Agrees, Spaced, Cli, Mcp, SignedIn
  <2>6. StillInv'
    BY DEF BearerInv, StillInv, TakesCli, Cli, Mcp, SignedIn
  <2> QED BY <2>1, <2>2, <2>3, <2>4, <2>5, <2>6 DEF BearerInv
<1> QED BY <1>1, <1>2, <1>3, <1>4 DEF Next

THEOREM BearerInvariant == Spec => []BearerInv
  BY BearerInit, BearerStep, PTL DEF Spec

(* The two files, and what the process keeps of them, are of their types.  *)
THEOREM BearerTypeCorrect == Spec => []TypeOK
  BY BearerInvariant, PTL DEF BearerInv

(* target.py 3: while nobody logs in or out, a token goes to its issuer.   *)
THEOREM PinnedToIssuer == Spec => []PinnedWhileQuiet
<1>1. BearerInv => PinnedWhileQuiet
  BY DEF BearerInv, QuietInv, Key, Sent, PinnedWhileQuiet, Posted
<1> QED BY <1>1, BearerInvariant, PTL

(* memory.py 156 and 184, proxy.py 85: no MCP login to the REST API, no    *)
(* profile's token beside a login, no account's request without its space. *)
THEOREM RightOne == Spec => []RightCredential
<1>1. BearerInv => RightCredential
  <2> SUFFICES ASSUME BearerInv, Posted PROVE RightCredential
    BY DEF RightCredential
  <2> USE DEF BearerInv, Posted
  <2>1. place \in Sent /\ place \in Live
    BY DEF Sent, Live
  <2>2. token \in Tokens /\ opt.role \in Roles /\ file \in [Kinds -> Files \cup {None}]
    BY DEF TypeOK, Options
  <2>3. opt.role = "command" => token.kind # "mcp"
    BY <2>1 DEF PlaceInv, Kinds
  <2>4. token.kind = "temp" /\ still =>
          /\ ~SignedIn(Mcp)
          /\ SignedIn(Cli) => opt.role = "proxy" /\ Cli.base # base
    BY <2>1, <2>2 DEF StillInv, TakesCli, Roles
  <2>5. token.kind = "key" /\ opt.role = "command" /\ opt.needSpace => opt.space
    BY <2>1 DEF KeyInv, Key
  <2>6. token.kind = "cli" /\ opt.role = "command" /\ opt.needSpace /\ quiet => opt.space
    <3> SUFFICES ASSUME token.kind = "cli", opt.role = "command", opt.needSpace, quiet
                 PROVE  opt.space
      OBVIOUS
    <3>1. kind = "cli" /\ token.kind \in Kinds /\ ~Key
      BY DEF PlaceInv, Kinds, Key
    <3>2. SignedIn(Cli) /\ Spaced
      BY <2>1, <3>1 DEF QuietInv, Cli
    <3> QED BY <3>2 DEF Spaced
  <2> QED BY <2>3, <2>4, <2>5, <2>6 DEF RightCredential, Cli, Mcp
<1> QED BY <1>1, BearerInvariant, PTL

(* proxy.py 20: a 401 is renewed once, and what was refused is not sent    *)
(* again.                                                                  *)
THEOREM FreshRetry == Spec => OneFreshRetry
<1> DEFINE A == refused # None => /\ Posted => place' # "renew"
                                  /\ Posted' => token' # refused
<1>1. BearerInv /\ BearerInv' /\ [Next]_vars => [A]_vars
  <2> SUFFICES ASSUME BearerInv, BearerInv', Next PROVE A
    BY DEF vars
  <2>1. Posted /\ refused # None => place' # "renew"
    <3> SUFFICES ASSUME place = "posted", refused # None, place' = "renew" PROVE FALSE
      BY DEF Posted
    <3>1. CASE Work
      BY <3>1 DEF Work, ChooseKey, NameASpace, ReadCli, ReadMcp, ProxyReadCli, ProxyReadMcp, Check,
                  Load, Access, Send, End, GiveUp, Give, Denied, Renewable, Renew
    <3>2. CASE Message
      BY <3>2 DEF Message
    <3>3. CASE Others
      BY <3>3 DEF Others, OtherLogin, OtherLogout, OtherStart, Changes, OtherRefresh,
                  ProfileExpires
    <3> QED BY <3>1, <3>2, <3>3 DEF Next
  <2>2. Posted' => refused' = refused
    <3> SUFFICES ASSUME place' = "posted" PROVE refused' = refused
      BY DEF Posted
    <3>1. CASE Work
      BY <3>1 DEF Work, ChooseKey, NameASpace, ReadCli, ReadMcp, ProxyReadCli, ProxyReadMcp, Check,
                  Load, Access, Send, End, GiveUp, Give, Denied, Renew, Take, Rotate, Goto, Fix
    <3>2. CASE Message
      BY <3>2 DEF Message
    <3>3. CASE Others
      BY <3>3 DEF Others, OtherLogin, OtherLogout, OtherStart, Changes, OtherRefresh,
                  ProfileExpires
    <3> QED BY <3>1, <3>2, <3>3 DEF Next
  <2>3. Posted' => refused' # token'
    BY DEF BearerInv, PlaceInv, Posted
  <2> QED BY <2>1, <2>2, <2>3
<1> QED BY <1>1, BearerInvariant, PTL DEF Spec, OneFreshRetry

=============================================================================
