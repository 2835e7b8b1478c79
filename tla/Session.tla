-------------------------------- MODULE Session --------------------------------
(***************************************************************************)
(* The commands that write the MCP credential file while others refresh    *)
(* it: `login` (anona/cli/login.py), `logout` (main.py `_logout`) and      *)
(* `start` (temp.py), with the temporary profile that rides in the file    *)
(* and the command-line login in a file of its own.                        *)
(*                                                                         *)
(* `login` asks the server to adopt the stored profile when it registers,  *)
(* waits for the browser, redeems the code and only then takes the lock to *)
(* save.  `logout` checks under the lock, lets go, and deletes under it    *)
(* again.  `start` never takes the lock.  A profile's token is printed     *)
(* nowhere: the file is its only copy.                                     *)
(***************************************************************************)
EXTENDS TokenRefresh

CONSTANTS
  Commands,   \* processes, each of which runs one command
  Kinds,      \* the commands they run
  Bases,      \* deployments
  MaxTemp     \* bound: temporary profiles, numbered from 1

NoTemp == 0
Temps  == 1..MaxTemp

ASSUME SessionAssumption ==
  /\ Commands \subseteq Procs /\ Commands \cap Callers = {}
  /\ Kinds \subseteq {"login", "login --mcp", "login --cli", "logout",
                      "logout --mcp", "logout --cli", "start"}
  /\ Carried = [base : Bases, temp : 0..MaxTemp]
  /\ MaxTemp \in Nat \ {0} /\ MaxFam # 0

VARIABLES
  cliBase,    \* cli-credentials.json: the deployments it is a login for
  profile,    \* server: what became of each temporary profile
  madeAt,     \* server: the deployment each profile was made at
  issuedAt,   \* server: the deployment each family was issued by
  issued,     \* how many families there are
  job,        \* what each command is doing
  kept,       \* history: profiles whose token reached the file
  discarded,  \* history: profiles given up on purpose
  loggedOut,  \* history: families a logout has deleted
  raced       \* history: did `start` ever run beside another command?

sessionVars == <<cliBase, profile, madeAt, issuedAt, issued, job, kept,
                 discarded, loggedOut, raced>>
allVars == <<vars, sessionVars>>

\* What a command remembers: its options, and what it has learned so far.
NewJob(b) == [at |-> "new", kind |-> "none", scope |-> "mcp", force |-> FALSE,
             base |-> b, temp |-> NoTemp, dropped |-> FALSE, claimed |-> FALSE,
             fam |-> 0]

\* A name with ? waits for the lock of the MCP file, one with ! holds it.
Places == {"new", "done", "ask", "register", "forget?", "forget!", "browser", "redeem",
           "unclaim?", "unclaim!", "check", "save?", "save!",
           "held?", "held!", "cli", "delete?", "delete!", "revoke",
           "probe", "create", "store"}

WaitPlaces == {"forget?", "unclaim?", "save?", "held?", "delete?"}
HeldPlaces == {"forget!", "unclaim!", "save!", "held!", "delete!"}

Jobs == [at : Places, kind : Kinds \cup {"none"}, scope : {"mcp", "cli"},
         force : BOOLEAN, base : Bases, temp : 0..MaxTemp, dropped : BOOLEAN,
         claimed : BOOLEAN, fam : 0..MaxFam]

SessionTypeOK ==
  /\ TypeOK
  /\ cliBase  \in SUBSET Bases
  /\ profile  \in [Temps -> {"unused", "live", "claimed", "expired"}]
  /\ madeAt   \in [Temps -> Bases] /\ issuedAt \in [Fams -> Bases]
  /\ issued   \in 0..MaxFam
  /\ job      \in [Commands -> Jobs]
  /\ \A c \in Commands : c \in holders <=> job[c].at \in HeldPlaces
  /\ ~stolen => Cardinality(holders) <= 1
  /\ kept     \in SUBSET Temps /\ discarded \in SUBSET Temps
  /\ loggedOut \in SUBSET Fams /\ raced \in BOOLEAN

-----------------------------------------------------------------------------
\* The profile in the file, and the one whose deadline is still ahead.
Stored(c)   == IF c = NoCred THEN NoTemp ELSE c.carried.temp
LiveTemp(c) == IF Stored(c) # NoTemp /\ profile[Stored(c)] # "expired"
                 THEN Stored(c) ELSE NoTemp

\* Mutant (see CredentialLock): any stored credential will do.
AnyBase(c, b)  == c # NoCred
SameBase(c, b) == c # NoCred /\ c.carried.base = b

\* Mutant: a login always replaces the profile.
LoginAlone(f, b, t) ==
  [fam |-> f, gen |-> 0, fresh |-> TRUE, carried |-> [base |-> b, temp |-> NoTemp]]

Login(f, b, t) ==
  [fam |-> f, gen |-> 0, fresh |-> TRUE, carried |-> [base |-> b, temp |-> t]]
TempOnly(b, t) ==
  [fam |-> 0, gen |-> 0, fresh |-> FALSE, carried |-> [base |-> b, temp |-> t]]

(* At first nothing is stored, or a profile, or a login, or a login that   *)
(* claimed nothing and still carries the profile.                          *)
SessionInit ==
  /\ Quiet
  /\ \E b \in Bases :
       /\ file \in {NoCred, TempOnly(b, 1), Login(1, b, NoTemp), Login(1, b, 1)}
       /\ madeAt = [t \in Temps |-> b] /\ issuedAt = [f \in Fams |-> b]
       /\ job = [c \in Commands |-> NewJob(b)]
  /\ cliBase = {}
  /\ issued = IF SignedIn(file) THEN 1 ELSE 0
  /\ profile = [t \in Temps |-> IF t = Stored(file) THEN "live" ELSE "unused"]
  /\ kept = {t \in Temps : t = Stored(file)}
  /\ discarded = {} /\ loggedOut = {} /\ raced = FALSE

-----------------------------------------------------------------------------
(* Steps of a command.  Each leaves the callers of access_token alone.     *)
At(c, l)   == job[c].at = l
To(c, l)   == job' = [job EXCEPT ![c].at = l]
Running(c) == job[c].at \notin {"new", "done"}
Over(c)    == [NewJob(job[c].base) EXCEPT !.at = "done"]
End(c)     == job' = [job EXCEPT ![c] = Over(c)]

KeepServer  == UNCHANGED <<profile, madeAt, issuedAt, issued>>
KeepHistory == UNCHANGED <<kept, discarded, loggedOut, raced>>
KeepFiles   == UNCHANGED <<file, cliBase>>
KeepCallers == UNCHANGED <<serverVars, wire, callVars, faults, abandoned>>

Begin(c, k, b, force) ==
  /\ At(c, "new")
  /\ force => k \in {"logout", "logout --mcp"}
  /\ job' = [job EXCEPT ![c] =
       [NewJob(b) EXCEPT
          !.kind  = k, !.force = force,
          !.scope = IF k \in {"login", "login --cli"} THEN "cli" ELSE "mcp",
          !.at    = CASE k \in {"login", "login --mcp", "login --cli"} -> "ask"
                      [] k \in {"logout", "logout --mcp"} -> "held?"
                      [] k = "logout --cli" -> "cli"
                      [] k = "start" -> "probe"]]
  /\ raced' = (raced \/ \E d \in Commands \ {c} :
                 Running(d) /\ "start" \in {k, job[d].kind})
  /\ UNCHANGED <<mutexVars, kept, discarded, loggedOut>>
  /\ KeepFiles /\ KeepServer /\ KeepCallers

\* Waiting for the lock ends with the lock, or after 90 seconds without it.
Locked(l) == CASE l = "forget?" -> "forget!" [] l = "unclaim?" -> "unclaim!"
               [] l = "save?" -> "save!"     [] l = "held?" -> "held!"
               [] l = "delete?" -> "delete!"

\* Mutant: changes the file without its lock.
TakeNothing(c) ==
  /\ job[c].at \in WaitPlaces
  /\ holders' = holders \cup {c} /\ UNCHANGED stolen
  /\ To(c, Locked(job[c].at))
  /\ KeepFiles /\ KeepServer /\ KeepHistory /\ KeepCallers

TakeLock(c) ==
  /\ job[c].at \in WaitPlaces
  /\ Mutex!Enter(c)
  /\ To(c, Locked(job[c].at))
  /\ KeepFiles /\ KeepServer /\ KeepHistory /\ KeepCallers

\* `_forget_temp` swallows the timeout; everything else gives up on it.
NoLock(c) ==
  /\ job[c].at \in WaitPlaces
  /\ CASE At(c, "forget?")  -> To(c, "browser")
       [] At(c, "unclaim?") -> To(c, "check")
       [] OTHER             -> End(c)
  /\ UNCHANGED mutexVars
  /\ KeepFiles /\ KeepServer /\ KeepHistory /\ KeepCallers

-----------------------------------------------------------------------------
(* login: `_live_temp_token`, then `_register`.  A profile the server will *)
(* not adopt (claimed, expired, unknown) is dropped and login goes on.     *)
Ask(c) ==
  /\ At(c, "ask")
  /\ job' = [job EXCEPT ![c].at = "register",
                        ![c].temp = IF SameBase(file, job[c].base)
                                      THEN LiveTemp(file) ELSE NoTemp]
  /\ UNCHANGED mutexVars
  /\ KeepFiles /\ KeepServer /\ KeepHistory /\ KeepCallers

Register(c) ==
  LET t == job[c].temp
      refused == t # NoTemp /\ profile[t] # "live"
  IN /\ At(c, "register")
     /\ job' = [job EXCEPT
          ![c].dropped = refused,
          ![c].temp = IF refused THEN NoTemp ELSE t,
          ![c].at = IF refused /\ job[c].scope = "cli" THEN "forget?" ELSE "browser"]
     /\ UNCHANGED mutexVars
     /\ KeepFiles /\ KeepServer /\ KeepHistory /\ KeepCallers

(* The user clicks Allow.  The profile is adopted there and then, unless   *)
(* the account needs none or another login adopted it first.               *)
Consent(c) ==
  /\ At(c, "browser")
  /\ \E adopt \in BOOLEAN :
       /\ adopt => job[c].temp # NoTemp /\ profile[job[c].temp] = "live"
       /\ job' = [job EXCEPT ![c].at = "redeem", ![c].claimed = adopt]
       /\ profile' = IF adopt THEN [profile EXCEPT ![job[c].temp] = "claimed"]
                              ELSE profile
  /\ UNCHANGED <<mutexVars, madeAt, issuedAt, issued>>
  /\ KeepFiles /\ KeepHistory /\ KeepCallers

\* `_exchange`: a new family, and whether the server confirmed a claim.
Redeem(c) ==
  /\ At(c, "redeem")
  /\ IF job[c].scope = "mcp"
       THEN /\ issued < MaxFam
            /\ issued' = issued + 1
            /\ issuedAt' = [issuedAt EXCEPT ![issued + 1] = job[c].base]
            /\ job' = [job EXCEPT ![c].at = "save?", ![c].fam = issued + 1]
       ELSE /\ To(c, IF job[c].claimed THEN "unclaim?" ELSE "check")
            /\ UNCHANGED <<issued, issuedAt>>
  /\ UNCHANGED <<mutexVars, profile, madeAt>>
  /\ KeepFiles /\ KeepHistory /\ KeepCallers

(* `_forget_temp`, run by a command-line login whose profile was claimed   *)
(* or refused: the MCP file keeps its login and loses the profile.         *)
ForgetTemp(c) ==
  /\ job[c].at \in {"forget!", "unclaim!"}
  /\ file' = IF Stored(file) = NoTemp \/ ~SameBase(file, job[c].base) THEN file
             ELSE IF SignedIn(file) THEN [file EXCEPT !.carried.temp = NoTemp]
             ELSE NoCred
  /\ Mutex!Leave(c)
  /\ To(c, IF At(c, "forget!") THEN "browser" ELSE "check")
  /\ UNCHANGED cliBase
  /\ KeepServer /\ KeepHistory /\ KeepCallers

\* The command-line credential goes to its own file, under that file's lock.
SaveCli(c) ==
  /\ At(c, "check")
  /\ cliBase' = {job[c].base}
  /\ End(c)
  /\ UNCHANGED <<mutexVars, file>>
  /\ KeepServer /\ KeepHistory /\ KeepCallers

(* ScopeRefused, before the browser opens or when the token turns out to   *)
(* be an MCP one: plain `login` starts over for MCP, `login --cli` fails.  *)
ScopeRefused(c) ==
  /\ job[c].scope = "cli" /\ job[c].at \in {"browser", "check"}
  /\ IF job[c].kind = "login"
       THEN job' = [job EXCEPT ![c] =
              [NewJob(job[c].base) EXCEPT !.kind = "login", !.at = "ask"]]
       ELSE End(c)
  /\ UNCHANGED mutexVars
  /\ KeepFiles /\ KeepServer /\ KeepHistory /\ KeepCallers

(* Saving the MCP login.  A profile that was neither claimed nor refused   *)
(* is carried over, read again under the lock, for the same deployment.    *)
SaveLogin(c) ==
  LET carries == ~job[c].claimed /\ ~job[c].dropped /\ SameBase(file, job[c].base)
  IN /\ At(c, "save!")
     /\ file' = Login(job[c].fam, job[c].base, IF carries THEN Stored(file) ELSE NoTemp)
     /\ discarded' = IF SameBase(file, job[c].base) THEN discarded
                     ELSE discarded \cup ({Stored(file)} \ {NoTemp})
     /\ Mutex!Leave(c)
     /\ End(c)
     /\ UNCHANGED <<cliBase, kept, loggedOut, raced>>
     /\ KeepServer /\ KeepCallers

(* Discovery, registration or the exchange failed, the user denied, or     *)
(* nobody came back from the browser within 300 seconds.                   *)
Abort(c) ==
  /\ job[c].at \in {"ask", "register", "browser", "redeem"}
  /\ End(c)
  /\ UNCHANGED mutexVars
  /\ KeepFiles /\ KeepServer /\ KeepHistory /\ KeepCallers

-----------------------------------------------------------------------------
(* logout: refuse to abandon a live profile unless forced; then let go of  *)
(* the lock, delete the command-line file, and take the lock again.        *)
CheckHeld(c) ==
  /\ At(c, "held!")
  /\ Mutex!Leave(c)
  /\ IF LiveTemp(file) # NoTemp /\ ~job[c].force THEN End(c)
     ELSE To(c, IF job[c].kind = "logout" THEN "cli" ELSE "delete?")
  /\ KeepFiles /\ KeepServer /\ KeepHistory /\ KeepCallers

DeleteCli(c) ==
  /\ At(c, "cli")
  /\ cliBase' = {}
  /\ IF job[c].kind = "logout" THEN To(c, "delete?") ELSE End(c)
  /\ UNCHANGED <<mutexVars, file>>
  /\ KeepServer /\ KeepHistory /\ KeepCallers

Delete(c) ==
  LET fam == IF SignedIn(file) THEN file.fam ELSE 0
  IN /\ At(c, "delete!")
     /\ file' = NoCred
     /\ Mutex!Leave(c)
     /\ job' = [job EXCEPT ![c].at = "revoke", ![c].fam = fam]
     /\ loggedOut' = loggedOut \cup ({fam} \ {0})
     /\ discarded' = IF job[c].force THEN discarded \cup ({Stored(file)} \ {NoTemp})
                                      ELSE discarded
     /\ UNCHANGED <<cliBase, kept, raced>>
     /\ KeepServer /\ KeepCallers

\* Best effort: the server may never hear of it.
RevokeDeleted(c) ==
  /\ At(c, "revoke")
  /\ \E told \in BOOLEAN :
       revoked' = IF told /\ job[c].fam # 0 THEN revoked \cup {job[c].fam} ELSE revoked
  /\ End(c)
  /\ UNCHANGED <<mutexVars, serverGen, late, replayed, wire, callVars, faults, abandoned>>
  /\ KeepFiles /\ KeepServer /\ KeepHistory

-----------------------------------------------------------------------------
(* start: refused when signed in or when a profile is still live.  Python  *)
(* looks at both logins, Node only at the MCP file.                        *)
Probe(c) ==
  /\ At(c, "probe")
  /\ IF \/ SignedIn(file)
        \/ c \in Python /\ cliBase # {}
        \/ LiveTemp(file) # NoTemp
       THEN End(c) ELSE To(c, "create")
  /\ UNCHANGED mutexVars
  /\ KeepFiles /\ KeepServer /\ KeepHistory /\ KeepCallers

Create(c) ==
  /\ At(c, "create")
  /\ \/ /\ End(c)
        /\ UNCHANGED <<profile, madeAt>>
     \/ \E t \in Temps :
          /\ profile[t] = "unused"
          /\ \A u \in 1..(t - 1) : profile[u] # "unused"
          /\ profile' = [profile EXCEPT ![t] = "live"]
          /\ madeAt' = [madeAt EXCEPT ![t] = job[c].base]
          /\ job' = [job EXCEPT ![c].at = "store", ![c].temp = t]
  /\ UNCHANGED <<mutexVars, issuedAt, issued>>
  /\ KeepFiles /\ KeepHistory /\ KeepCallers

\* Over whatever the file holds by now, and without its lock.
Store(c) ==
  /\ At(c, "store")
  /\ file' = TempOnly(job[c].base, job[c].temp)
  /\ kept' = kept \cup {job[c].temp}
  /\ End(c)
  /\ UNCHANGED <<mutexVars, cliBase, discarded, loggedOut, raced>>
  /\ KeepServer /\ KeepCallers

-----------------------------------------------------------------------------
\* Interrupted or killed anywhere, or the disk refuses a write.
Die(c) ==
  /\ Running(c)
  /\ IF c \in holders THEN Mutex!Leave(c) ELSE UNCHANGED mutexVars
  /\ End(c)
  /\ KeepFiles /\ KeepServer /\ KeepHistory /\ KeepCallers

\* 72 hours after it was made, a profile nobody claimed is deleted.
PassDeadline(t) ==
  /\ profile[t] \in {"live", "claimed"}
  /\ profile' = [profile EXCEPT ![t] = "expired"]
  /\ UNCHANGED <<mutexVars, madeAt, issuedAt, issued, job>>
  /\ KeepFiles /\ KeepHistory /\ KeepCallers

CommandStep(c) ==
  \/ TakeLock(c) \/ NoLock(c)
  \/ Ask(c) \/ Register(c) \/ Consent(c) \/ Redeem(c) \/ ForgetTemp(c)
  \/ SaveCli(c) \/ ScopeRefused(c) \/ SaveLogin(c) \/ Abort(c)
  \/ CheckHeld(c) \/ DeleteCli(c) \/ Delete(c) \/ RevokeDeleted(c)
  \/ Probe(c) \/ Create(c) \/ Store(c)

(* Revocation in the dashboard is left to TokenRefresh: what it changes is *)
(* how a refresh ends, and a deleted login's family is revoked here too.   *)
SessionNext ==
  \/ RefreshNext /\ UNCHANGED sessionVars
  \/ \E c \in Commands :
       \/ \E k \in Kinds, b \in Bases, force \in BOOLEAN : Begin(c, k, b, force)
       \/ CommandStep(c) \/ Die(c)
  \/ \E t \in Temps : PassDeadline(t)

SessionSpec == SessionInit /\ [][SessionNext]_allVars

==============================================================================
