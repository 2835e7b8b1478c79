----------------------------- MODULE SessionProofs -----------------------------
(***************************************************************************)
(* For any callers, commands and deployments: what login, logout and start *)
(* keep true of the MCP credential file beside refreshes.  Where a token   *)
(* is filed needs no lock (CredInv); that a deleted login stays deleted    *)
(* needs it (LogoutInv); that a profile is kept also needs start to run    *)
(* alone (KeepInv, and Relies in JobInv).                                  *)
(***************************************************************************)
EXTENDS SessionProps, FiniteSetTheorems, TLAPS

Hand        == {"post", "await", "save"}
StartPlaces == {"probe", "create", "store"}
LoginPlaces == {"ask", "register", "forget?", "forget!", "browser", "redeem",
                "unclaim?", "unclaim!", "check", "save?", "save!"}
SavePlaces  == {"save?", "save!"}

Typed ==
  /\ TypeOK
  /\ cliBase  \in SUBSET Bases
  /\ profile  \in [Temps -> {"unused", "live", "claimed", "expired"}]
  /\ madeAt   \in [Temps -> Bases] /\ issuedAt \in [Fams -> Bases]
  /\ issued   \in 0..MaxFam
  /\ job      \in [Commands -> Jobs]
  /\ kept     \in SUBSET Temps /\ discarded \in SUBSET Temps
  /\ loggedOut \in SUBSET Fams /\ raced \in BOOLEAN

WireInv == \A p \in Callers : wire[p] # "none" => pc[p] = "await"

HoldInv ==
  /\ holders \subseteq Callers \cup Commands
  /\ \A p \in Callers : pc[p] \in InLock <=> p \in holders
  /\ \A c \in Commands : job[c].at \in HeldPlaces <=> c \in holders
  /\ ~stolen => \A p, q \in holders : p = q

(* A credential made of what was issued, at the deployment that issued it. *)
Known(c) ==
  /\ c.fam <= issued
  /\ c.fam # 0 => issuedAt[c.fam] = c.carried.base
  /\ c.carried.temp # NoTemp => /\ profile[c.carried.temp] # "unused"
                                /\ madeAt[c.carried.temp] = c.carried.base

CredInv ==
  /\ file # NoCred => Known(file)
  /\ \A t \in kept : profile[t] # "unused"
  /\ \A p \in Callers : pc[p] \in Hand =>
       cred[p] \in Credentials /\ cred[p].fam # 0 /\ Known(cred[p])

(* A login that was deleted is in nobody's hand.                           *)
LogoutInv ==
  /\ \A f \in loggedOut : f <= issued
  /\ ~stolen => /\ SignedIn(file) => file.fam \notin loggedOut
                /\ \A p \in Callers : pc[p] \in Hand => cred[p].fam \notin loggedOut

(* A refresh under way is of the login and the profile in the file.        *)
KeepInv ==
  ~raced /\ ~stolen =>
    /\ ProfileKept
    /\ \A p \in Callers : pc[p] \in Hand =>
         SignedIn(file) /\ cred[p].fam = file.fam /\ cred[p].carried = file.carried

Settled == Stored(file) = NoTemp \/ profile[Stored(file)] # "live"

(* What a command may rely on.                                             *)
Shape(j) ==
  /\ j.at \in StartPlaces => j.kind = "start"
  /\ j.at \in LoginPlaces => j.kind # "start"
  /\ j.claimed \/ j.dropped => j.at \in LoginPlaces
  /\ j.at \in {"forget?", "forget!"} => j.dropped /\ j.temp = NoTemp
  /\ j.at \in {"unclaim?", "unclaim!"} => j.claimed
  /\ j.at \in {"held?", "held!", "cli", "delete?", "delete!"} => j.kind # "start"

Redeemed(j) ==
  j.at \in SavePlaces =>
    /\ j.fam # 0 /\ j.fam <= issued /\ issuedAt[j.fam] = j.base /\ j.fam \notin loggedOut
    /\ file # NoCred => file.fam # j.fam
    /\ \A p \in Callers : pc[p] \in Hand => cred[p].fam # j.fam

Made(j) == j.at = "store" => j.temp # NoTemp /\ profile[j.temp] # "unused" /\ madeAt[j.temp] = j.base

Relies(j) ==
  ~raced /\ ~stolen =>
    /\ j.at \in {"create", "store"} => ~SignedIn(file) /\ LiveTemp(file) = NoTemp
    /\ j.at \in {"register", "browser", "redeem"} /\ j.temp # NoTemp => Stored(file) \in {j.temp, NoTemp}
    /\ j.claimed \/ j.dropped => Settled
    /\ ~j.force /\ (j.at \in {"delete?", "delete!"} \/ (j.at = "cli" /\ j.kind = "logout")) =>
         LiveTemp(file) = NoTemp

JobInv ==
  /\ \A c \in Commands : Shape(job[c]) /\ Redeemed(job[c]) /\ Made(job[c]) /\ Relies(job[c])
  /\ \A c, d \in Commands : c # d /\ job[c].at \in SavePlaces /\ job[d].at \in SavePlaces =>
       job[c].fam # job[d].fam
  /\ ~raced => \A c, d \in Commands : c # d /\ Running(c) /\ Running(d) => job[c].kind # "start"

SessionInv == Typed /\ WireInv /\ HoldInv /\ CredInv /\ LogoutInv /\ KeepInv /\ JobInv

-----------------------------------------------------------------------------
LEMMA Bounds ==
  /\ 0 \in 0..MaxTemp /\ 1 \in Temps /\ Temps \subseteq 0..MaxTemp /\ 0 \notin Temps
  /\ 1 \in Fams /\ Fams \subseteq 0..MaxFam /\ 0 \in 0..MaxFam /\ 0 \notin Fams
  /\ \A t \in 0..MaxTemp : t # 0 => t \in Temps
  /\ \A f \in 0..MaxFam : f # 0 => f \in Fams
<1>1. MaxTemp \in Nat /\ MaxTemp # 0 /\ MaxFam \in Nat /\ MaxFam # 0
  BY RefreshAssumption, SessionAssumption
<1> QED BY <1>1 DEF Temps, Fams

(* The parts of a credential.                                              *)
LEMMA CredTyped ==
  ASSUME NEW c \in Credentials
  PROVE  /\ c # NoCred /\ c.fam \in 0..MaxFam /\ c.carried.base \in Bases
         /\ c.carried.temp \in 0..MaxTemp /\ Stored(c) = c.carried.temp
         /\ SignedIn(c) <=> c.fam # 0
  BY RefreshAssumption, SessionAssumption DEF Credentials, Stored, SignedIn

LEMMA LoginTyped ==
  ASSUME NEW f \in 0..MaxFam, NEW b \in Bases, NEW t \in 0..MaxTemp
  PROVE  /\ Login(f, b, t) \in Credentials /\ Login(f, b, t).fam = f
         /\ Login(f, b, t).carried.base = b /\ Login(f, b, t).carried.temp = t
         /\ TempOnly(b, t) \in Credentials /\ TempOnly(b, t).fam = 0
         /\ TempOnly(b, t).carried.base = b /\ TempOnly(b, t).carried.temp = t
  BY Bounds, SessionAssumption DEF Login, TempOnly, Credentials

LEMMA NewJobTyped ==
  ASSUME NEW b \in Bases
  PROVE  NewJob(b) \in Jobs
  BY Bounds DEF NewJob, Jobs, Places, NoTemp

LEMMA SessionBegins == SessionInit => SessionInv
<1> SUFFICES ASSUME SessionInit PROVE SessionInv
  OBVIOUS
<1>1. PICK b \in Bases :
        /\ file \in {NoCred, TempOnly(b, 1), Login(1, b, NoTemp), Login(1, b, 1)}
        /\ madeAt = [t \in Temps |-> b] /\ issuedAt = [f \in Fams |-> b]
        /\ job = [c \in Commands |-> NewJob(b)]
  BY DEF SessionInit
<1>2. /\ TempOnly(b, 1) \in Credentials /\ TempOnly(b, 1).fam = 0
      /\ TempOnly(b, 1).carried.base = b /\ TempOnly(b, 1).carried.temp = 1
      /\ Login(1, b, NoTemp) \in Credentials /\ Login(1, b, NoTemp).fam = 1
      /\ Login(1, b, NoTemp).carried.base = b /\ Login(1, b, NoTemp).carried.temp = 0
      /\ Login(1, b, 1) \in Credentials /\ Login(1, b, 1).fam = 1
      /\ Login(1, b, 1).carried.base = b /\ Login(1, b, 1).carried.temp = 1
  BY LoginTyped, Bounds DEF NoTemp
<1>3. file # NoCred => /\ file \in Credentials /\ file.carried.base = b
                       /\ file.fam \in {0, 1} /\ file.carried.temp \in {0, 1}
  BY <1>1, <1>2
<1>4. /\ Stored(file) \in {0, 1}
      /\ file # NoCred => Stored(file) = file.carried.temp /\ (SignedIn(file) <=> file.fam # 0)
  BY <1>3, CredTyped DEF Stored, NoTemp
<1>5. issued = IF SignedIn(file) THEN 1 ELSE 0
  BY DEF SessionInit
<1>6. \A c \in Commands : /\ job[c].at = "new" /\ job[c].claimed = FALSE /\ job[c].dropped = FALSE
  BY <1>1 DEF NewJob
<1> USE DEF SessionInit, Quiet, Mutex!MInit
<1>7. Typed
  <2>1. TypeOK
    BY <1>3 DEF TypeOK, Outcomes
  <2>2. job \in [Commands -> Jobs]
    BY <1>1, NewJobTyped
  <2>3. issued \in 0..MaxFam
    BY <1>5, Bounds DEF Fams
  <2> QED BY <1>1, <2>1, <2>2, <2>3 DEF Typed
<1>8. WireInv /\ HoldInv
  BY <1>6 DEF WireInv, HoldInv, InLock, HeldPlaces
<1>9. CredInv
  <2>1. file # NoCred => Known(file)
    BY <1>1, <1>3, <1>4, <1>5, Bounds DEF Known, NoTemp
  <2> QED BY <2>1 DEF CredInv, Hand
<1>10. LogoutInv
  BY DEF LogoutInv, Hand
<1>11. KeepInv
  BY DEF KeepInv, ProfileKept, Hand
<1>12. JobInv
  <2>1. \A c \in Commands : Shape(job[c]) /\ Redeemed(job[c]) /\ Made(job[c]) /\ Relies(job[c])
    BY <1>6 DEF Shape, Redeemed, Made, Relies, StartPlaces, LoginPlaces, SavePlaces
  <2> QED BY <1>6, <2>1 DEF JobInv, Running, SavePlaces
<1> QED BY <1>7, <1>8, <1>9, <1>10, <1>11, <1>12 DEF SessionInv

-----------------------------------------------------------------------------
(* Steps of a command that touch no credential.                            *)

LEMMA JobStepped ==
  ASSUME job \in [Commands -> Jobs], NEW c \in Commands, NEW s \in Jobs,
         job' = [job EXCEPT ![c] = s]
  PROVE  job' \in [Commands -> Jobs] /\ \A d \in Commands : job'[d] = IF d = c THEN s ELSE job[d]
  OBVIOUS

Files  == <<file, serverGen, late, replayed, wire, callVars, faults, abandoned, profile, madeAt,
            issuedAt, issued, kept, discarded, loggedOut>>

LEMMA JobKeeps ==
  ASSUME SessionInv, NEW c \in Commands, NEW s \in Jobs, job' = [job EXCEPT ![c] = s],
         UNCHANGED <<Files, stolen>>,
         revoked' \in SUBSET Fams, cliBase' \in SUBSET Bases,
         raced' \in BOOLEAN, raced => raced',
         holders' \subseteq Callers \cup Commands,
         \A p \in Callers \cup Commands : p # c => (p \in holders' <=> p \in holders),
         c \in holders' <=> s.at \in HeldPlaces,
         ~stolen => \A p, q \in holders' : p = q,
         Shape(s), Redeemed(s), Made(s), Relies(s),
         s.at \in SavePlaces => job[c].at \in SavePlaces /\ s.fam = job[c].fam,
         ~raced' /\ s.at \notin {"new", "done"} =>
           \A d \in Commands : d # c /\ Running(d) => s.kind # "start" /\ job[d].kind # "start"
  PROVE  SessionInv'
<1> USE DEF SessionInv, Files, callVars
<1>1. job' \in [Commands -> Jobs] /\ \A d \in Commands : job'[d] = IF d = c THEN s ELSE job[d]
  BY JobStepped DEF Typed
<1>2. Commands \subseteq Procs /\ Callers \subseteq Procs /\ Commands \cap Callers = {}
  BY SessionAssumption, RefreshAssumption
<1>3. Typed'
  <2>1. TypeOK'
    BY <1>2 DEF Typed, TypeOK
  <2> QED BY <1>1, <2>1 DEF Typed
<1>4. WireInv'
  BY DEF WireInv
<1>5. HoldInv'
  <2>1. \A p \in Callers : p # c
    BY <1>2
  <2> QED BY <1>1, <2>1 DEF HoldInv
<1>6. CredInv' /\ LogoutInv' /\ KeepInv'
  <2>1. CredInv'
    BY DEF CredInv, Known
  <2>2. LogoutInv'
    BY DEF LogoutInv, SignedIn
  <2>3. KeepInv'
    BY DEF KeepInv, ProfileKept, Stored, SignedIn
  <2> QED BY <2>1, <2>2, <2>3
<1>7. JobInv'
  <2>1. ASSUME NEW d \in Commands
        PROVE  Shape(job[d])' /\ Redeemed(job[d])' /\ Made(job[d])' /\ Relies(job[d])'
    <3> DEFINE j == job'[d]
    <3>1. Shape(j) /\ Redeemed(j) /\ Made(j) /\ Relies(j)
      BY <1>1 DEF JobInv
    <3>2. (job[d])' = j
      OBVIOUS
    <3> HIDE DEF j
    <3>3. Shape(job[d])'
      BY <3>1, <3>2 DEF Shape
    <3>4. Redeemed(job[d])'
      BY <3>1, <3>2 DEF Redeemed
    <3>5. Made(job[d])'
      BY <3>1, <3>2 DEF Made
    <3>6. Relies(job[d])'
      BY <3>1, <3>2 DEF Relies, Settled, Stored, LiveTemp, SignedIn
    <3> QED BY <3>3, <3>4, <3>5, <3>6
  <2>2. \A d, e \in Commands : d # e /\ job'[d].at \in SavePlaces /\ job'[e].at \in SavePlaces =>
          job'[d].fam # job'[e].fam
    BY <1>1 DEF JobInv
  <2>3. ~raced' => \A d, e \in Commands : d # e /\ Running(d)' /\ Running(e)' => job'[d].kind # "start"
    BY <1>1 DEF JobInv, Running
  <2> QED BY <2>1, <2>2, <2>3 DEF JobInv
<1> QED BY <1>3, <1>4, <1>5, <1>6, <1>7

(* Steps between two places without the lock.                              *)
LEMMA FreeStep ==
  ASSUME SessionInv, NEW c \in Commands, Running(c), NEW s \in Jobs, job' = [job EXCEPT ![c] = s],
         UNCHANGED <<Files, mutexVars, raced>>,
         revoked' \in SUBSET Fams, cliBase' \in SUBSET Bases,
         job[c].at \notin HeldPlaces, s.at \notin HeldPlaces,
         s.at = "done" \/ s.kind = job[c].kind,
         s.at \in SavePlaces => job[c].at \in SavePlaces /\ s.fam = job[c].fam,
         Shape(s), Redeemed(s), Made(s), Relies(s)
  PROVE  SessionInv'
<1>1. holders' = holders /\ stolen' = stolen /\ raced' = raced
  BY DEF mutexVars
<1>2. raced' \in BOOLEAN /\ (raced => raced')
  BY <1>1 DEF SessionInv, Typed
<1>3. /\ holders' \subseteq Callers \cup Commands
      /\ \A p \in Callers \cup Commands : p # c => (p \in holders' <=> p \in holders)
      /\ ~stolen => \A p, q \in holders' : p = q
  BY <1>1 DEF SessionInv, HoldInv
<1>4. c \in holders' <=> s.at \in HeldPlaces
  BY <1>1 DEF SessionInv, HoldInv
<1>5. ~raced' /\ s.at \notin {"new", "done"} =>
        \A d \in Commands : d # c /\ Running(d) => s.kind # "start" /\ job[d].kind # "start"
  BY <1>1 DEF SessionInv, JobInv
<1>6. UNCHANGED <<Files, stolen>>
  BY <1>1
<1> QED BY <1>2, <1>3, <1>4, <1>5, <1>6, JobKeeps

LEMMA OverTyped ==
  ASSUME SessionInv, NEW c \in Commands
  PROVE  /\ Over(c) \in Jobs /\ Over(c).at = "done" /\ Over(c).base = job[c].base
         /\ Shape(Over(c)) /\ Redeemed(Over(c)) /\ Made(Over(c)) /\ Relies(Over(c))
<1>1. job[c].base \in Bases
  BY DEF SessionInv, Typed, Jobs
<1>2. /\ Over(c) \in Jobs /\ Over(c).at = "done" /\ ~Over(c).claimed /\ ~Over(c).dropped
      /\ Over(c).base = job[c].base
  BY <1>1, Bounds DEF Over, NewJob, Jobs, Places, NoTemp
<1> QED BY <1>2 DEF Shape, Redeemed, Made, Relies, StartPlaces, LoginPlaces, SavePlaces

LEMMA EndKeeps ==
  ASSUME SessionInv, NEW c \in Commands, Running(c), job[c].at \notin HeldPlaces, End(c),
         UNCHANGED <<Files, mutexVars, raced>>,
         revoked' \in SUBSET Fams, cliBase' \in SUBSET Bases
  PROVE  SessionInv'
<1> DEFINE s == Over(c)
<1>1. job' = [job EXCEPT ![c] = s]
  BY DEF End
<1>2. s \in Jobs /\ s.at = "done" /\ Shape(s) /\ Redeemed(s) /\ Made(s) /\ Relies(s)
  BY OverTyped
<1> HIDE DEF s
<1>3. s.at \notin HeldPlaces /\ s.at \notin SavePlaces
  BY <1>2 DEF HeldPlaces, SavePlaces
<1> QED BY <1>1, <1>2, <1>3, FreeStep

LEMMA BeginKeeps ==
  ASSUME SessionInv, NEW c \in Commands, NEW k \in Kinds, NEW b \in Bases, NEW force \in BOOLEAN,
         Begin(c, k, b, force)
  PROVE  SessionInv'
<1> DEFINE scope == IF k \in {"login", "login --cli"} THEN "cli" ELSE "mcp"
           at == CASE k \in {"login", "login --mcp", "login --cli"} -> "ask"
                   [] k \in {"logout", "logout --mcp"} -> "held?"
                   [] k = "logout --cli" -> "cli"
                   [] k = "start" -> "probe"
           s == [NewJob(b) EXCEPT !.kind = k, !.force = force, !.scope = scope, !.at = at]
<1>1. job' = [job EXCEPT ![c] = s] /\ job[c].at = "new"
  BY DEF Begin, At
<1>2. scope \in {"mcp", "cli"}
  OBVIOUS
<1>3. \/ k = "start" /\ at = "probe"
      \/ k # "start" /\ at = "ask"
      \/ k # "start" /\ at = "held?"
      \/ k = "logout --cli" /\ at = "cli"
  BY SessionAssumption
<1> HIDE DEF scope, at
<1>4. NewJob(b) \in Jobs /\ ~NewJob(b).claimed /\ ~NewJob(b).dropped
  BY NewJobTyped DEF NewJob
<1>5. NewJob(b) \in Jobs /\ NewJob(b).temp = NoTemp
  BY NewJobTyped DEF NewJob
<1>6. /\ s \in Jobs /\ s.at = at /\ s.kind = k /\ ~s.claimed /\ ~s.dropped /\ s.temp = NoTemp
  BY <1>2, <1>3, <1>4, <1>5 DEF Jobs, Places
<1> HIDE DEF s
<1>7. Shape(s) /\ Redeemed(s) /\ Made(s) /\ Relies(s)
  BY <1>3, <1>6 DEF Shape, Redeemed, Made, Relies, StartPlaces, LoginPlaces, SavePlaces
<1>8. UNCHANGED <<Files, mutexVars, revoked, cliBase>>
  BY DEF Begin, Files, KeepFiles, KeepServer, KeepCallers, serverVars
<1>9. /\ revoked' \in SUBSET Fams /\ cliBase' \in SUBSET Bases
      /\ raced' \in BOOLEAN /\ (raced => raced')
      /\ ~raced' => \A d \in Commands : d # c /\ Running(d) => k # "start" /\ job[d].kind # "start"
  BY <1>8 DEF SessionInv, Typed, TypeOK, Begin
<1>10. c \notin holders /\ holders \subseteq Callers \cup Commands
       /\ (~stolen => \A p, q \in holders : p = q)
  BY <1>1 DEF SessionInv, HoldInv, HeldPlaces
<1>11. s.at \notin HeldPlaces /\ s.at \notin SavePlaces /\ UNCHANGED <<holders, stolen>>
  BY <1>3, <1>6, <1>8 DEF HeldPlaces, SavePlaces, mutexVars
<1> QED BY <1>1, <1>6, <1>7, <1>8, <1>9, <1>10, <1>11, JobKeeps

LEMMA TakeLockKeeps ==
  ASSUME SessionInv, NEW c \in Commands, TakeLock(c)
  PROVE  SessionInv'
<1> DEFINE s == [job[c] EXCEPT !.at = Locked(job[c].at)]
<1>1. job' = [job EXCEPT ![c] = s] /\ job[c] \in Jobs
  BY DEF TakeLock, To, SessionInv, Typed
<1>2. \/ job[c].at = "forget?" /\ s.at = "forget!"
      \/ job[c].at = "unclaim?" /\ s.at = "unclaim!"
      \/ job[c].at = "save?" /\ s.at = "save!"
      \/ job[c].at = "held?" /\ s.at = "held!"
      \/ job[c].at = "delete?" /\ s.at = "delete!"
  BY <1>1 DEF TakeLock, WaitPlaces, Locked, Jobs
<1>3. /\ s.kind = job[c].kind /\ s.force = job[c].force /\ s.base = job[c].base
      /\ s.temp = job[c].temp /\ s.dropped = job[c].dropped /\ s.claimed = job[c].claimed
      /\ s.fam = job[c].fam
  BY <1>1 DEF Jobs
<1>4. s \in Jobs
  BY <1>1, <1>2 DEF Jobs, Places
<1> HIDE DEF s
<1>5. Shape(job[c]) /\ Redeemed(job[c]) /\ Made(job[c]) /\ Relies(job[c])
  BY DEF SessionInv, JobInv
<1>6. Shape(s)
  BY <1>2, <1>3, <1>5 DEF Shape, StartPlaces, LoginPlaces
<1>7. Redeemed(s) /\ Made(s)
  BY <1>2, <1>3, <1>5 DEF Redeemed, Made, SavePlaces
<1>8. Relies(s)
  BY <1>2, <1>3, <1>5 DEF Relies
<1>9. UNCHANGED <<Files, stolen, revoked, cliBase, raced>> /\ holders' = holders \cup {c}
      /\ (holders = {} \/ stolen)
  BY DEF TakeLock, Mutex!Enter, Mutex!Admits, Files, KeepFiles, KeepServer, KeepHistory,
         KeepCallers, serverVars
<1>10. /\ revoked' \in SUBSET Fams /\ cliBase' \in SUBSET Bases /\ raced' \in BOOLEAN
       /\ holders \subseteq Callers \cup Commands
  BY <1>9 DEF SessionInv, Typed, TypeOK, HoldInv
<1>11. s.at \in HeldPlaces /\ (s.at \in SavePlaces => job[c].at \in SavePlaces) /\ Running(c)
  BY <1>2 DEF HeldPlaces, SavePlaces, Running
<1>12. ~raced => \A d \in Commands : d # c /\ Running(d) => s.kind # "start" /\ job[d].kind # "start"
  BY <1>3, <1>11 DEF SessionInv, JobInv
<1> QED BY <1>1, <1>3, <1>4, <1>6, <1>7, <1>8, <1>9, <1>10, <1>11, <1>12, JobKeeps

LEMMA NoLockKeeps ==
  ASSUME SessionInv, NEW c \in Commands, NoLock(c)
  PROVE  SessionInv'
<1>1. UNCHANGED <<Files, mutexVars, revoked, cliBase, raced>>
  BY DEF NoLock, Files, KeepFiles, KeepServer, KeepHistory, KeepCallers, serverVars
<1>2. revoked' \in SUBSET Fams /\ cliBase' \in SUBSET Bases
  BY <1>1 DEF SessionInv, Typed, TypeOK
<1>3. job[c].at \notin HeldPlaces /\ Running(c) /\ job[c] \in Jobs
  BY DEF NoLock, WaitPlaces, HeldPlaces, Running, SessionInv, Typed
<1>4. CASE End(c)
  BY <1>1, <1>2, <1>3, <1>4, EndKeeps
<1>5. ASSUME NEW l \in {"browser", "check"}, To(c, l),
             \/ job[c].at = "forget?" /\ l = "browser"
             \/ job[c].at = "unclaim?" /\ l = "check"
      PROVE  SessionInv'
  <2> DEFINE s == [job[c] EXCEPT !.at = l]
  <2>1. job' = [job EXCEPT ![c] = s]
    BY <1>5 DEF To
  <2>2. /\ s \in Jobs /\ s.at = l /\ s.kind = job[c].kind /\ s.temp = job[c].temp
        /\ s.dropped = job[c].dropped /\ s.claimed = job[c].claimed
    BY <1>3 DEF Jobs, Places
  <2> HIDE DEF s
  <2>3. Shape(job[c]) /\ Relies(job[c])
    BY DEF SessionInv, JobInv
  <2>4. Shape(s) /\ Redeemed(s) /\ Made(s)
    BY <1>5, <2>2, <2>3 DEF Shape, Redeemed, Made, StartPlaces, LoginPlaces, SavePlaces
  <2>5. Relies(s)
    BY <1>5, <2>2, <2>3 DEF Relies, Shape
  <2> QED BY <1>1, <1>2, <1>3, <2>1, <2>2, <2>4, <2>5, FreeStep DEF HeldPlaces, SavePlaces
<1> QED BY <1>4, <1>5 DEF NoLock, At, WaitPlaces

LEMMA AskKeeps ==
  ASSUME SessionInv, NEW c \in Commands, Ask(c)
  PROVE  SessionInv'
<1>1. UNCHANGED <<Files, mutexVars, revoked, cliBase, raced>>
  BY DEF Ask, Files, KeepFiles, KeepServer, KeepHistory, KeepCallers, serverVars
<1>2. revoked' \in SUBSET Fams /\ cliBase' \in SUBSET Bases
  BY <1>1 DEF SessionInv, Typed, TypeOK
<1>3. job[c].at \notin HeldPlaces /\ Running(c) /\ job[c] \in Jobs
  BY DEF Ask, At, HeldPlaces, Running, SessionInv, Typed
<1>4. Shape(job[c]) /\ Redeemed(job[c]) /\ Made(job[c]) /\ Relies(job[c])
  BY DEF SessionInv, JobInv
<1> DEFINE t == IF SameBase(file, job[c].base) THEN LiveTemp(file) ELSE NoTemp
           s == [job[c] EXCEPT !.at = "register", !.temp = t]
<1>5. job' = [job EXCEPT ![c] = s] /\ job[c].at = "ask"
  BY DEF Ask, At
<1>6. t \in 0..MaxTemp /\ t \in {Stored(file), NoTemp}
  BY Bounds, CredTyped DEF LiveTemp, Stored, NoTemp, SessionInv, Typed, TypeOK
<1> HIDE DEF t
<1>7. /\ s \in Jobs /\ s.at = "register" /\ s.kind = job[c].kind /\ s.temp = t
      /\ s.dropped = job[c].dropped /\ s.claimed = job[c].claimed
  BY <1>3, <1>6 DEF Jobs, Places
<1> HIDE DEF s
<1>8. Shape(s) /\ Redeemed(s) /\ Made(s)
  BY <1>4, <1>5, <1>7 DEF Shape, Redeemed, Made, StartPlaces, LoginPlaces, SavePlaces
<1>9. Relies(s)
  BY <1>4, <1>5, <1>6, <1>7 DEF Relies
<1> QED BY <1>1, <1>2, <1>3, <1>5, <1>7, <1>8, <1>9, FreeStep DEF HeldPlaces, SavePlaces

LEMMA RegisterKeeps ==
  ASSUME SessionInv, NEW c \in Commands, Register(c)
  PROVE  SessionInv'
<1>1. UNCHANGED <<Files, mutexVars, revoked, cliBase, raced>>
  BY DEF Register, Files, KeepFiles, KeepServer, KeepHistory, KeepCallers, serverVars
<1>2. revoked' \in SUBSET Fams /\ cliBase' \in SUBSET Bases
  BY <1>1 DEF SessionInv, Typed, TypeOK
<1>3. job[c].at \notin HeldPlaces /\ Running(c) /\ job[c] \in Jobs
  BY DEF Register, At, HeldPlaces, Running, SessionInv, Typed
<1>4. Shape(job[c]) /\ Redeemed(job[c]) /\ Made(job[c]) /\ Relies(job[c])
  BY DEF SessionInv, JobInv
<1> DEFINE t == job[c].temp
           refused == t # NoTemp /\ profile[t] # "live"
           at == IF refused /\ job[c].scope = "cli" THEN "forget?" ELSE "browser"
           s == [job[c] EXCEPT !.dropped = refused, !.temp = IF refused THEN NoTemp ELSE t, !.at = at]
<1>5. job' = [job EXCEPT ![c] = s] /\ job[c].at = "register"
  BY DEF Register, At
<1>6. refused \in BOOLEAN /\ t \in 0..MaxTemp /\ NoTemp \in 0..MaxTemp
      /\ at \in {"forget?", "browser"} /\ (at = "forget?" => refused)
  BY <1>3, Bounds DEF Jobs, NoTemp
<1>7. refused /\ ~raced /\ ~stolen => Settled
  BY <1>4, <1>5 DEF Relies, Settled
<1> HIDE DEF refused, at
<1>8. /\ s \in Jobs /\ s.at = at /\ s.kind = job[c].kind
      /\ s.temp = IF refused THEN NoTemp ELSE t
      /\ s.dropped = refused /\ s.claimed = job[c].claimed
  BY <1>3, <1>6 DEF Jobs, Places
<1> HIDE DEF s
<1>9. Shape(s) /\ Redeemed(s) /\ Made(s)
  BY <1>4, <1>5, <1>6, <1>8 DEF Shape, Redeemed, Made, StartPlaces, LoginPlaces, SavePlaces
<1>10. Relies(s)
  BY <1>4, <1>5, <1>6, <1>7, <1>8 DEF Relies
<1> QED BY <1>1, <1>2, <1>3, <1>5, <1>6, <1>8, <1>9, <1>10, FreeStep DEF HeldPlaces, SavePlaces

LEMMA ScopeRefusedKeeps ==
  ASSUME SessionInv, NEW c \in Commands, ScopeRefused(c)
  PROVE  SessionInv'
<1>1. UNCHANGED <<Files, mutexVars, revoked, cliBase, raced>>
  BY DEF ScopeRefused, Files, KeepFiles, KeepServer, KeepHistory, KeepCallers, serverVars
<1>2. revoked' \in SUBSET Fams /\ cliBase' \in SUBSET Bases
  BY <1>1 DEF SessionInv, Typed, TypeOK
<1>3. job[c].at \notin HeldPlaces /\ Running(c) /\ job[c] \in Jobs
  BY DEF ScopeRefused, At, HeldPlaces, Running, SessionInv, Typed
<1>4. Shape(job[c]) /\ Redeemed(job[c]) /\ Made(job[c]) /\ Relies(job[c])
  BY DEF SessionInv, JobInv
<1> DEFINE s == [NewJob(job[c].base) EXCEPT !.kind = "login", !.at = "ask"]
<1>5. CASE End(c)
  BY <1>1, <1>2, <1>3, <1>5, EndKeeps
<1>6. CASE job' = [job EXCEPT ![c] = s] /\ job[c].kind = "login"
  <2>1. job[c].base \in Bases
    BY <1>3 DEF Jobs
  <2>2. NewJob(job[c].base) \in Jobs
    BY <2>1, NewJobTyped
  <2>3. "login" \in Kinds \cup {"none"}
    BY <1>3, <1>6 DEF Jobs
  <2>4. /\ NewJob(job[c].base).temp = NoTemp
        /\ ~NewJob(job[c].base).dropped /\ ~NewJob(job[c].base).claimed
    BY DEF NewJob
  <2>5. s \in Jobs /\ s.at = "ask" /\ s.kind = "login" /\ s.temp = NoTemp /\ ~s.dropped /\ ~s.claimed
    BY <2>2, <2>3, <2>4 DEF Jobs, Places
  <2>6. job' = [job EXCEPT ![c] = s]
    BY <1>6
  <2> HIDE DEF s
  <2>7. Shape(s) /\ Redeemed(s) /\ Made(s) /\ Relies(s)
    BY <2>5 DEF Shape, Redeemed, Made, Relies, StartPlaces, LoginPlaces, SavePlaces
  <2> QED BY <1>1, <1>2, <1>3, <1>6, <2>5, <2>6, <2>7, FreeStep DEF HeldPlaces, SavePlaces
<1> QED BY <1>5, <1>6 DEF ScopeRefused

LEMMA AbortKeeps ==
  ASSUME SessionInv, NEW c \in Commands, Abort(c)
  PROVE  SessionInv'
<1>1. UNCHANGED <<Files, mutexVars, revoked, cliBase, raced>>
  BY DEF Abort, Files, KeepFiles, KeepServer, KeepHistory, KeepCallers, serverVars
<1>2. revoked' \in SUBSET Fams /\ cliBase' \in SUBSET Bases
  BY <1>1 DEF SessionInv, Typed, TypeOK
<1>3. job[c].at \notin HeldPlaces /\ Running(c) /\ job[c] \in Jobs
  BY DEF Abort, At, HeldPlaces, Running, SessionInv, Typed
<1>4. Shape(job[c]) /\ Redeemed(job[c]) /\ Made(job[c]) /\ Relies(job[c])
  BY DEF SessionInv, JobInv
<1> QED BY <1>1, <1>2, <1>3, EndKeeps DEF Abort

LEMMA ProbeKeeps ==
  ASSUME SessionInv, NEW c \in Commands, Probe(c)
  PROVE  SessionInv'
<1>1. UNCHANGED <<Files, mutexVars, revoked, cliBase, raced>>
  BY DEF Probe, Files, KeepFiles, KeepServer, KeepHistory, KeepCallers, serverVars
<1>2. revoked' \in SUBSET Fams /\ cliBase' \in SUBSET Bases
  BY <1>1 DEF SessionInv, Typed, TypeOK
<1>3. job[c].at \notin HeldPlaces /\ Running(c) /\ job[c] \in Jobs
  BY DEF Probe, At, HeldPlaces, Running, SessionInv, Typed
<1>4. Shape(job[c]) /\ Redeemed(job[c]) /\ Made(job[c]) /\ Relies(job[c])
  BY DEF SessionInv, JobInv
<1> DEFINE s == [job[c] EXCEPT !.at = "create"]
<1>5. CASE End(c)
  BY <1>1, <1>2, <1>3, <1>5, EndKeeps
<1>6. CASE To(c, "create") /\ ~SignedIn(file) /\ LiveTemp(file) = NoTemp
  <2>1. job' = [job EXCEPT ![c] = s] /\ job[c].at = "probe"
    BY <1>6 DEF To, Probe, At
  <2>2. /\ s \in Jobs /\ s.at = "create" /\ s.kind = job[c].kind /\ s.temp = job[c].temp
        /\ s.dropped = job[c].dropped /\ s.claimed = job[c].claimed
    BY <1>3 DEF Jobs, Places
  <2> HIDE DEF s
  <2>3. Shape(s) /\ Redeemed(s) /\ Made(s)
    BY <1>4, <2>1, <2>2 DEF Shape, Redeemed, Made, StartPlaces, LoginPlaces, SavePlaces
  <2>4. Relies(s)
    BY <1>4, <1>6, <2>1, <2>2 DEF Relies
  <2> QED BY <1>1, <1>2, <1>3, <2>1, <2>2, <2>3, <2>4, FreeStep DEF HeldPlaces, SavePlaces
<1> QED BY <1>5, <1>6 DEF Probe

LEMMA SaveCliKeeps ==
  ASSUME SessionInv, NEW c \in Commands, SaveCli(c)
  PROVE  SessionInv'
<1>1. UNCHANGED <<Files, mutexVars, revoked, raced>>
  BY DEF SaveCli, Files, KeepServer, KeepHistory, KeepCallers, serverVars
<1>2. revoked' \in SUBSET Fams /\ cliBase' \in SUBSET Bases
  BY <1>1 DEF SessionInv, Typed, TypeOK, SaveCli, Jobs
<1>3. job[c].at \notin HeldPlaces /\ Running(c)
  BY DEF SaveCli, At, HeldPlaces, Running
<1> QED BY <1>1, <1>2, <1>3, EndKeeps DEF SaveCli

LEMMA DeleteCliKeeps ==
  ASSUME SessionInv, NEW c \in Commands, DeleteCli(c)
  PROVE  SessionInv'
<1>1. UNCHANGED <<Files, mutexVars, revoked, raced>>
  BY DEF DeleteCli, Files, KeepServer, KeepHistory, KeepCallers, serverVars
<1>2. revoked' \in SUBSET Fams /\ cliBase' \in SUBSET Bases
  BY <1>1 DEF SessionInv, Typed, TypeOK, DeleteCli
<1>3. job[c].at \notin HeldPlaces /\ Running(c) /\ job[c] \in Jobs /\ job[c].at = "cli"
  BY DEF DeleteCli, At, HeldPlaces, Running, SessionInv, Typed
<1>4. Shape(job[c]) /\ Relies(job[c])
  BY DEF SessionInv, JobInv
<1>5. CASE End(c)
  BY <1>1, <1>2, <1>3, <1>5, EndKeeps
<1>6. CASE job[c].kind = "logout" /\ To(c, "delete?")
  <2> DEFINE s == [job[c] EXCEPT !.at = "delete?"]
  <2>1. job' = [job EXCEPT ![c] = s]
    BY <1>6 DEF To
  <2>2. /\ s \in Jobs /\ s.at = "delete?" /\ s.kind = job[c].kind /\ s.force = job[c].force
        /\ s.dropped = job[c].dropped /\ s.claimed = job[c].claimed
    BY <1>3 DEF Jobs, Places
  <2> HIDE DEF s
  <2>3. Shape(s) /\ Redeemed(s) /\ Made(s)
    BY <1>3, <1>4, <1>6, <2>2 DEF Shape, Redeemed, Made, StartPlaces, LoginPlaces, SavePlaces
  <2>4. Relies(s)
    BY <1>3, <1>4, <1>6, <2>2 DEF Relies
  <2> QED BY <1>1, <1>2, <1>3, <2>1, <2>2, <2>3, <2>4, FreeStep DEF HeldPlaces, SavePlaces
<1> QED BY <1>5, <1>6 DEF DeleteCli

LEMMA RevokeDeletedKeeps ==
  ASSUME SessionInv, NEW c \in Commands, RevokeDeleted(c)
  PROVE  SessionInv'
<1>1. UNCHANGED <<Files, mutexVars, cliBase, raced>>
  BY DEF RevokeDeleted, Files, KeepFiles, KeepServer, KeepHistory
<1>2. job[c].at \notin HeldPlaces /\ Running(c) /\ job[c] \in Jobs
  BY DEF RevokeDeleted, At, HeldPlaces, Running, SessionInv, Typed
<1>3. job[c].fam # 0 => job[c].fam \in Fams
  BY <1>2, Bounds DEF Jobs
<1>4. revoked' \in SUBSET Fams /\ cliBase' \in SUBSET Bases
  BY <1>1, <1>3 DEF SessionInv, Typed, TypeOK, RevokeDeleted
<1> QED BY <1>1, <1>2, <1>4, EndKeeps DEF RevokeDeleted

LEMMA CheckHeldKeeps ==
  ASSUME SessionInv, NEW c \in Commands, CheckHeld(c)
  PROVE  SessionInv'
<1>1. UNCHANGED <<Files, stolen, revoked, cliBase, raced>> /\ holders' = holders \ {c}
  BY DEF CheckHeld, Files, KeepFiles, KeepServer, KeepHistory, KeepCallers, serverVars, Mutex!Leave
<1>2. /\ revoked' \in SUBSET Fams /\ cliBase' \in SUBSET Bases /\ raced' \in BOOLEAN
      /\ raced' = raced
  BY <1>1 DEF SessionInv, Typed, TypeOK
<1>3. Running(c) /\ job[c] \in Jobs /\ job[c].at = "held!"
  BY DEF CheckHeld, At, Running, SessionInv, Typed
<1>4. Shape(job[c]) /\ Relies(job[c])
  BY DEF SessionInv, JobInv
<1>5. PICK s \in Jobs : /\ job' = [job EXCEPT ![c] = s]
                        /\ Shape(s) /\ Redeemed(s) /\ Made(s) /\ Relies(s)
                        /\ s.at \notin HeldPlaces /\ s.at \notin SavePlaces
                        /\ s.at = "done" \/ s.kind = job[c].kind
  <2>1. CASE End(c)
    BY <2>1, OverTyped DEF End, HeldPlaces, SavePlaces
  <2>2. ASSUME NEW l \in {"cli", "delete?"}, To(c, l), LiveTemp(file) = NoTemp \/ job[c].force,
               l = "delete?" => job[c].kind # "start"
        PROVE  \E s \in Jobs : /\ job' = [job EXCEPT ![c] = s]
                               /\ Shape(s) /\ Redeemed(s) /\ Made(s) /\ Relies(s)
                               /\ s.at \notin HeldPlaces /\ s.at \notin SavePlaces
                               /\ s.at = "done" \/ s.kind = job[c].kind
    <3> DEFINE s == [job[c] EXCEPT !.at = l]
    <3>1. job' = [job EXCEPT ![c] = s]
      BY <2>2 DEF To
    <3>2. /\ s \in Jobs /\ s.at = l /\ s.kind = job[c].kind /\ s.force = job[c].force
          /\ s.dropped = job[c].dropped /\ s.claimed = job[c].claimed
      BY <1>3 DEF Jobs, Places
    <3> HIDE DEF s
    <3>3. Shape(s) /\ Redeemed(s) /\ Made(s)
      BY <1>3, <1>4, <2>2, <3>2 DEF Shape, Redeemed, Made, StartPlaces, LoginPlaces, SavePlaces
    <3>4. Relies(s)
      BY <1>3, <1>4, <2>2, <3>2 DEF Relies, Shape, LoginPlaces
    <3>5. s.at \notin HeldPlaces /\ s.at \notin SavePlaces
      BY <3>2 DEF HeldPlaces, SavePlaces
    <3>6. s \in Jobs /\ s.kind = job[c].kind
      BY <3>2
    <3> QED BY <3>1, <3>3, <3>4, <3>5, <3>6
  <2>3. CASE To(c, "cli") /\ (LiveTemp(file) = NoTemp \/ job[c].force)
    BY <2>2, <2>3
  <2>4. CASE To(c, "delete?") /\ (LiveTemp(file) = NoTemp \/ job[c].force)
    BY <1>3, <1>4, <2>2, <2>4 DEF Shape
  <2> QED BY <2>1, <2>3, <2>4 DEF CheckHeld
<1>6. /\ holders' \subseteq Callers \cup Commands
      /\ \A p \in Callers \cup Commands : p # c => (p \in holders' <=> p \in holders)
      /\ ~stolen => \A p, q \in holders' : p = q
      /\ c \in holders' <=> s.at \in HeldPlaces
  BY <1>1, <1>5 DEF SessionInv, HoldInv
<1>7. ~raced' /\ s.at \notin {"new", "done"} =>
        \A d \in Commands : d # c /\ Running(d) => s.kind # "start" /\ job[d].kind # "start"
  BY <1>2, <1>3, <1>5 DEF SessionInv, JobInv
<1>8. (raced => raced') /\ UNCHANGED <<Files, stolen>>
  BY <1>1, <1>2
<1>9. s.at \in SavePlaces => job[c].at \in SavePlaces /\ s.fam = job[c].fam
  BY <1>5
<1> QED BY <1>2, <1>5, <1>6, <1>7, <1>8, <1>9, JobKeeps

LEMMA DieKeeps ==
  ASSUME SessionInv, NEW c \in Commands, Die(c)
  PROVE  SessionInv'
<1> DEFINE s == Over(c)
<1>1. UNCHANGED <<Files, stolen, revoked, cliBase, raced>> /\ holders' = holders \ {c}
  BY DEF Die, Files, KeepFiles, KeepServer, KeepHistory, KeepCallers, serverVars, Mutex!Leave,
         mutexVars
<1>2. /\ revoked' \in SUBSET Fams /\ cliBase' \in SUBSET Bases /\ raced' \in BOOLEAN
      /\ raced' = raced
  BY <1>1 DEF SessionInv, Typed, TypeOK
<1>3. /\ job' = [job EXCEPT ![c] = s] /\ s \in Jobs /\ s.at = "done"
      /\ Shape(s) /\ Redeemed(s) /\ Made(s) /\ Relies(s)
  BY OverTyped DEF Die, End
<1> HIDE DEF s
<1>4. s.at \notin HeldPlaces /\ s.at \notin SavePlaces
  BY <1>3 DEF HeldPlaces, SavePlaces
<1>5. /\ holders' \subseteq Callers \cup Commands
      /\ \A p \in Callers \cup Commands : p # c => (p \in holders' <=> p \in holders)
      /\ ~stolen => \A p, q \in holders' : p = q
      /\ c \in holders' <=> s.at \in HeldPlaces
  BY <1>1, <1>4 DEF SessionInv, HoldInv
<1>6. ~raced' /\ s.at \notin {"new", "done"} =>
        \A d \in Commands : d # c /\ Running(d) => s.kind # "start" /\ job[d].kind # "start"
  BY <1>3
<1>7. (raced => raced') /\ UNCHANGED <<Files, stolen>>
  BY <1>1, <1>2
<1>8. s.at \in SavePlaces => job[c].at \in SavePlaces /\ s.fam = job[c].fam
  BY <1>4
<1> QED BY <1>2, <1>3, <1>5, <1>6, <1>7, <1>8, JobKeeps

-----------------------------------------------------------------------------
(* Steps that change the file, the profiles or what was issued.            *)

LEMMA JobInvKeeps ==
  ASSUME SessionInv, NEW c \in Commands, NEW s \in Jobs, job' = [job EXCEPT ![c] = s],
         raced' = raced, Running(c), s.at = "done" \/ s.kind = job[c].kind,
         Shape(s), Redeemed(s)', Made(s)', Relies(s)',
         \A j \in Jobs : (\E d \in Commands : d # c /\ job[d] = j) =>
                           Redeemed(j)' /\ Made(j)' /\ Relies(j)',
         s.at \in SavePlaces =>
           \A d \in Commands : d # c /\ job[d].at \in SavePlaces => job[d].fam # s.fam
  PROVE  JobInv' /\ job' \in [Commands -> Jobs]
<1>1. job' \in [Commands -> Jobs] /\ \A d \in Commands : job'[d] = IF d = c THEN s ELSE job[d]
  BY JobStepped DEF SessionInv, Typed
<1>2. ASSUME NEW d \in Commands
      PROVE  Shape(job[d])' /\ Redeemed(job[d])' /\ Made(job[d])' /\ Relies(job[d])'
  <2>1. PICK j \in Jobs : j = job'[d]
    BY <1>1
  <2>2. Shape(j) /\ Redeemed(j)' /\ Made(j)' /\ Relies(j)'
    <3>1. CASE d = c
      BY <1>1, <2>1, <3>1
    <3>2. CASE d # c
      <4>1. j = job[d]
        BY <1>1, <2>1, <3>2
      <4>2. Shape(j)
        BY <4>1 DEF SessionInv, JobInv
      <4> QED BY <3>2, <4>1, <4>2
    <3> QED BY <3>1, <3>2
  <2>3. Shape(job[d])'
    BY <2>1, <2>2 DEF Shape
  <2>4. Redeemed(job[d])' /\ Made(job[d])' /\ Relies(job[d])'
    BY <2>1, <2>2
  <2> QED BY <2>3, <2>4
<1>3. \A d, e \in Commands : d # e /\ job'[d].at \in SavePlaces /\ job'[e].at \in SavePlaces =>
        job'[d].fam # job'[e].fam
  BY <1>1 DEF SessionInv, JobInv
<1>4. ~raced' => \A d, e \in Commands : d # e /\ Running(d)' /\ Running(e)' => job'[d].kind # "start"
  BY <1>1 DEF SessionInv, JobInv, Running
<1> QED BY <1>1, <1>2, <1>3, <1>4 DEF JobInv

(* After a step that holds the lock, or let it go, nobody refreshes.       *)
LEMMA Alone ==
  ASSUME HoldInv, NEW c \in Commands, c \in holders, ~stolen
  PROVE  \A p \in Callers : pc[p] \notin Hand
<1>1. \A p \in Callers : p # c
  BY SessionAssumption
<1> QED BY <1>1 DEF HoldInv, Hand, InLock

LEMMA LeaveHolds ==
  ASSUME SessionInv, NEW c \in Commands, NEW s \in Jobs, job' = [job EXCEPT ![c] = s],
         holders' = holders \ {c}, stolen' = stolen, pc' = pc, s.at \notin HeldPlaces
  PROVE  HoldInv'
<1>1. job' \in [Commands -> Jobs] /\ \A d \in Commands : job'[d] = IF d = c THEN s ELSE job[d]
  BY JobStepped DEF SessionInv, Typed
<1>2. \A p \in Callers : p # c
  BY SessionAssumption
<1> QED BY <1>1, <1>2 DEF SessionInv, HoldInv

(* A profile grows older: adopted by an account, or past its deadline.     *)
LEMMA Ages ==
  ASSUME SessionInv, NEW t \in Temps, NEW v \in {"claimed", "expired"},
         profile[t] \in {"live", "claimed"}, profile' = [profile EXCEPT ![t] = v],
         UNCHANGED <<file, wire, callVars, madeAt, issuedAt, issued, kept, discarded, loggedOut,
                     raced, stolen>>
  PROVE  /\ profile' \in [Temps -> {"unused", "live", "claimed", "expired"}]
         /\ WireInv' /\ CredInv' /\ LogoutInv' /\ KeepInv'
         /\ \A j \in Jobs : Redeemed(j) /\ Made(j) /\ Relies(j) =>
              Redeemed(j)' /\ Made(j)' /\ Relies(j)'
<1> USE DEF SessionInv, callVars
<1>1. \A u \in Temps : profile'[u] = IF u = t THEN v ELSE profile[u]
  BY DEF Typed
<1>2. profile' \in [Temps -> {"unused", "live", "claimed", "expired"}] /\ WireInv'
  BY DEF Typed, WireInv
<1>3. Stored(file) \in 0..MaxTemp /\ Stored(file)' = Stored(file) /\ SignedIn(file)' = SignedIn(file)
  BY Bounds, CredTyped DEF Typed, TypeOK, Stored, NoTemp, SignedIn
<1>4. \A u \in 0..MaxTemp : u # NoTemp =>
        /\ u \in Temps
        /\ profile[u] # "unused" => profile'[u] # "unused"
        /\ profile[u] # "live" => profile'[u] # "live"
        /\ profile[u] = "expired" => profile'[u] = "expired"
  BY <1>1, Bounds DEF NoTemp
<1>5. \A x \in Credentials : Known(x) => Known(x)'
  BY <1>4, CredTyped DEF Known
<1>6. CredInv' /\ LogoutInv'
  <2>1. file # NoCred => Known(file)'
    BY <1>5 DEF CredInv, Typed, TypeOK, Known
  <2>2. \A p \in Callers : pc[p] \in Hand => Known(cred[p])'
    BY <1>5 DEF CredInv, Known
  <2>3. \A u \in kept : profile'[u] # "unused"
    BY <1>1 DEF CredInv, Typed
  <2> QED BY <1>3, <2>1, <2>2, <2>3 DEF CredInv, LogoutInv
<1>7. KeepInv'
  BY <1>1, <1>3 DEF KeepInv, ProfileKept, Typed
<1>8. ASSUME NEW j \in Jobs, Redeemed(j), Made(j), Relies(j)
      PROVE  Redeemed(j)' /\ Made(j)' /\ Relies(j)'
  <2>1. j.temp \in 0..MaxTemp
    BY DEF Jobs
  <2>2. Redeemed(j)' /\ Made(j)'
    BY <1>4, <1>8, <2>1 DEF Redeemed, Made
  <2>3. LiveTemp(file) = NoTemp => LiveTemp(file)' = NoTemp
    BY <1>3, <1>4 DEF LiveTemp
  <2>4. Settled => Settled'
    BY <1>3, <1>4 DEF Settled
  <2>5. Relies(j)'
    BY <1>3, <1>8, <2>3, <2>4 DEF Relies
  <2> QED BY <2>2, <2>5
<1> QED BY <1>2, <1>6, <1>7, <1>8

LEMMA PassDeadlineKeeps ==
  ASSUME SessionInv, NEW t \in Temps, PassDeadline(t)
  PROVE  SessionInv'
<1> USE DEF PassDeadline, KeepFiles, KeepHistory, KeepCallers, serverVars, callVars, mutexVars
<1>1. /\ profile' \in [Temps -> {"unused", "live", "claimed", "expired"}]
      /\ WireInv' /\ CredInv' /\ LogoutInv' /\ KeepInv'
      /\ \A j \in Jobs : Redeemed(j) /\ Made(j) /\ Relies(j) =>
           Redeemed(j)' /\ Made(j)' /\ Relies(j)'
  BY Ages
<1>2. Typed'
  BY <1>1 DEF SessionInv, Typed, TypeOK
<1>3. HoldInv'
  BY DEF SessionInv, HoldInv
<1>4. JobInv'
  <2>1. \A c \in Commands : Shape(job[c])'
    BY DEF SessionInv, JobInv, Shape
  <2>2. ASSUME NEW c \in Commands
        PROVE  Redeemed(job[c])' /\ Made(job[c])' /\ Relies(job[c])'
    <3>1. PICK j \in Jobs : j = job[c]
      BY DEF SessionInv, Typed
    <3>2. Redeemed(j)' /\ Made(j)' /\ Relies(j)'
      BY <1>1, <3>1 DEF SessionInv, JobInv
    <3>3. j = job'[c]
      BY <3>1
    <3> QED BY <3>2, <3>3
  <2> QED BY <2>1, <2>2 DEF SessionInv, JobInv, Running
<1> QED BY <1>1, <1>2, <1>3, <1>4 DEF SessionInv

LEMMA ConsentKeeps ==
  ASSUME SessionInv, NEW c \in Commands, Consent(c)
  PROVE  SessionInv'
<1>1. PICK adopt \in BOOLEAN :
        /\ adopt => job[c].temp # NoTemp /\ profile[job[c].temp] = "live"
        /\ job' = [job EXCEPT ![c].at = "redeem", ![c].claimed = adopt]
        /\ profile' = IF adopt THEN [profile EXCEPT ![job[c].temp] = "claimed"]
                               ELSE profile
  BY DEF Consent
<1>2. job[c].at = "browser" /\ job[c] \in Jobs /\ Running(c)
  BY DEF Consent, At, Running, SessionInv, Typed
<1>3. PICK s \in Jobs : s = [job[c] EXCEPT !.at = "redeem", !.claimed = adopt]
  BY <1>2 DEF Jobs, Places
<1>4. /\ s.at = "redeem" /\ s.claimed = adopt /\ s.kind = job[c].kind /\ s.temp = job[c].temp
      /\ s.dropped = job[c].dropped
  BY <1>2, <1>3 DEF Jobs
<1>5. job' = [job EXCEPT ![c] = s]
  BY <1>1, <1>3
<1>6. UNCHANGED <<mutexVars, madeAt, issuedAt, issued, cliBase, revoked, file, serverGen, late, replayed,
                  wire, callVars, faults, abandoned, kept, discarded, loggedOut, raced>>
  BY DEF Consent, KeepFiles, KeepHistory, KeepCallers, serverVars
<1>7. Shape(job[c]) /\ Redeemed(job[c]) /\ Made(job[c]) /\ Relies(job[c])
  BY DEF SessionInv, JobInv
<1>8. Shape(s) /\ Redeemed(s) /\ Made(s)
  BY <1>2, <1>4, <1>7 DEF Shape, Redeemed, Made, StartPlaces, LoginPlaces, SavePlaces
<1>9. s.at \notin HeldPlaces /\ s.at \notin SavePlaces /\ job[c].at \notin HeldPlaces
  BY <1>2, <1>4 DEF HeldPlaces, SavePlaces
<1>10. CASE ~adopt
  <2>1. Relies(s)
    BY <1>2, <1>4, <1>7, <1>10 DEF Relies
  <2>2. UNCHANGED <<Files, mutexVars, raced>>
    BY <1>1, <1>6, <1>10 DEF Files
  <2>3. revoked' \in SUBSET Fams /\ cliBase' \in SUBSET Bases
    BY <1>6 DEF SessionInv, Typed, TypeOK
  <2> QED BY <1>2, <1>4, <1>5, <1>8, <1>9, <2>1, <2>2, <2>3, FreeStep
<1>11. CASE adopt
  <2> DEFINE t == job[c].temp
  <2>1. t \in Temps /\ profile[t] = "live" /\ profile' = [profile EXCEPT ![t] = "claimed"]
    BY <1>1, <1>2, <1>11, Bounds DEF Jobs, NoTemp
  <2>2. PICK u \in Temps : u = t
    BY <2>1
  <2>3. /\ profile' \in [Temps -> {"unused", "live", "claimed", "expired"}]
        /\ WireInv' /\ CredInv' /\ LogoutInv' /\ KeepInv'
        /\ \A j \in Jobs : Redeemed(j) /\ Made(j) /\ Relies(j) =>
             Redeemed(j)' /\ Made(j)' /\ Relies(j)'
    <3>1. profile[u] \in {"live", "claimed"} /\ profile' = [profile EXCEPT ![u] = "claimed"]
      BY <2>1, <2>2
    <3>2. stolen' = stolen
      BY <1>6 DEF mutexVars
    <3> QED BY <1>6, <3>1, <3>2, Ages
  <2>4. ~raced /\ ~stolen => Settled'
    <3>1. Stored(file)' = Stored(file)
      BY <1>6 DEF Stored
    <3>2. profile'[t] = "claimed"
      BY <2>1 DEF SessionInv, Typed
    <3> QED BY <1>1, <1>2, <1>7, <1>11, <3>1, <3>2 DEF Relies, Settled
  <2>5. Redeemed(s)' /\ Made(s)'
    BY <1>8, <1>4 DEF Redeemed, Made, SavePlaces
  <2>6. Relies(s)'
    <3>1. Stored(file)' = Stored(file) /\ raced' = raced /\ stolen' = stolen
      BY <1>6 DEF Stored, mutexVars
    <3> QED BY <1>2, <1>4, <1>7, <2>4, <3>1 DEF Relies
  <2>7. JobInv' /\ job' \in [Commands -> Jobs]
    <3>1. \A j \in Jobs : (\E d \in Commands : d # c /\ job[d] = j) =>
            Redeemed(j)' /\ Made(j)' /\ Relies(j)'
      BY <2>3 DEF SessionInv, JobInv
    <3> QED BY <1>2, <1>4, <1>5, <1>6, <1>8, <1>9, <2>5, <2>6, <3>1, JobInvKeeps
  <2>8. Typed'
    BY <1>6, <2>3, <2>7 DEF SessionInv, Typed, TypeOK, mutexVars, callVars
  <2>9. HoldInv'
    <3>1. holders' = holders \ {c} /\ stolen' = stolen /\ pc' = pc
      BY <1>6, <1>9 DEF SessionInv, HoldInv, mutexVars, callVars
    <3> QED BY <1>5, <1>9, <3>1, LeaveHolds
  <2> QED BY <2>3, <2>7, <2>8, <2>9 DEF SessionInv
<1> QED BY <1>10, <1>11

LEMMA RedeemKeeps ==
  ASSUME SessionInv, NEW c \in Commands, Redeem(c)
  PROVE  SessionInv'
<1>1. job[c].at = "redeem" /\ job[c] \in Jobs /\ Running(c)
  BY DEF Redeem, At, Running, SessionInv, Typed
<1>2. Shape(job[c]) /\ Redeemed(job[c]) /\ Made(job[c]) /\ Relies(job[c])
  BY DEF SessionInv, JobInv
<1>3. UNCHANGED <<mutexVars, profile, madeAt, cliBase, revoked, file, serverGen, late, replayed,
                  wire, callVars, faults, abandoned, kept, discarded, loggedOut, raced>>
  BY DEF Redeem, KeepFiles, KeepHistory, KeepCallers, serverVars
<1>4. job[c].at \notin HeldPlaces
  BY <1>1 DEF HeldPlaces
<1>5. CASE /\ To(c, IF job[c].claimed THEN "unclaim?" ELSE "check")
           /\ UNCHANGED <<issued, issuedAt>>
  <2> DEFINE l == IF job[c].claimed THEN "unclaim?" ELSE "check"
             s == [job[c] EXCEPT !.at = l]
  <2>1. job' = [job EXCEPT ![c] = s]
    BY <1>5 DEF To
  <2>2. l \in {"unclaim?", "check"} /\ (l = "unclaim?" => job[c].claimed)
    OBVIOUS
  <2> HIDE DEF l
  <2>3. /\ s \in Jobs /\ s.at = l /\ s.kind = job[c].kind /\ s.temp = job[c].temp
        /\ s.dropped = job[c].dropped /\ s.claimed = job[c].claimed
    BY <1>1, <2>2 DEF Jobs, Places
  <2> HIDE DEF s
  <2>4. Shape(s) /\ Redeemed(s) /\ Made(s)
    BY <1>1, <1>2, <2>2, <2>3 DEF Shape, Redeemed, Made, StartPlaces, LoginPlaces, SavePlaces
  <2>5. Relies(s)
    BY <1>1, <1>2, <2>2, <2>3 DEF Relies
  <2>6. UNCHANGED <<Files, mutexVars, raced>>
    BY <1>3, <1>5 DEF Files
  <2>7. revoked' \in SUBSET Fams /\ cliBase' \in SUBSET Bases
    BY <1>3 DEF SessionInv, Typed, TypeOK
  <2>8. s.at \notin HeldPlaces /\ s.at \notin SavePlaces
    BY <2>2, <2>3 DEF HeldPlaces, SavePlaces
  <2> QED BY <1>1, <1>4, <2>1, <2>3, <2>4, <2>5, <2>6, <2>7, <2>8, FreeStep
<1>6. CASE /\ issued < MaxFam /\ issued' = issued + 1
           /\ issuedAt' = [issuedAt EXCEPT ![issued + 1] = job[c].base]
           /\ job' = [job EXCEPT ![c].at = "save?", ![c].fam = issued + 1]
  <2>1. issued \in 0..MaxFam /\ MaxFam \in Nat /\ issued \in Nat
    BY RefreshAssumption DEF SessionInv, Typed
  <2>2. PICK f \in Fams : f = issued + 1
    BY <1>6, <2>1 DEF Fams
  <2>3. /\ f \in 0..MaxFam /\ f # 0 /\ f > issued
        /\ issuedAt' \in [Fams -> Bases] /\ issuedAt'[f] = job[c].base
        /\ \A g \in Fams : g # f => issuedAt'[g] = issuedAt[g]
    BY <1>1, <1>6, <2>1, <2>2, Bounds DEF SessionInv, Typed, Jobs
  <2>4. PICK s \in Jobs : s = [job[c] EXCEPT !.at = "save?", !.fam = f]
    BY <1>1, <2>3 DEF Jobs, Places
  <2>5. /\ s.at = "save?" /\ s.fam = f /\ s.base = job[c].base /\ s.kind = job[c].kind
        /\ s.dropped = job[c].dropped /\ s.claimed = job[c].claimed
    BY <1>1, <2>4 DEF Jobs
  <2>6. job' = [job EXCEPT ![c] = s]
    BY <1>6, <2>2, <2>4
  <2>7. \A g \in 0..MaxFam : g <= issued => /\ g <= issued' /\ g # f
                                            /\ g # 0 => issuedAt'[g] = issuedAt[g]
    BY <1>6, <2>1, <2>2, <2>3, Bounds
  <2>8. \A x \in Credentials : Known(x) => Known(x)' /\ x.fam # f
    BY <1>3, <2>7, CredTyped DEF Known
  <2>9. CredInv'
    <3>1. file # NoCred => Known(file)'
      BY <1>3, <2>8 DEF SessionInv, CredInv, Typed, TypeOK, Known
    <3>2. \A p \in Callers : pc[p] \in Hand => Known(cred[p])'
      BY <1>3, <2>8 DEF SessionInv, CredInv, Known, callVars
    <3> QED BY <1>3, <3>1, <3>2 DEF SessionInv, CredInv, callVars
  <2>10. LogoutInv'
    <3>1. \A g \in loggedOut : g <= issued'
      BY <2>7, Bounds DEF SessionInv, LogoutInv, Typed
    <3> QED BY <1>3, <3>1 DEF SessionInv, LogoutInv, SignedIn, callVars, mutexVars
  <2>11. KeepInv' /\ WireInv'
    BY <1>3 DEF SessionInv, KeepInv, ProfileKept, WireInv, Stored, SignedIn, callVars, mutexVars
  <2>12. \A j \in Jobs : Redeemed(j) /\ Made(j) /\ Relies(j) =>
           Redeemed(j)' /\ Made(j)' /\ Relies(j)'
    <3> SUFFICES ASSUME NEW j \in Jobs, Redeemed(j), Made(j), Relies(j)
                 PROVE  Redeemed(j)' /\ Made(j)' /\ Relies(j)'
      OBVIOUS
    <3>1. j.fam \in 0..MaxFam
      BY DEF Jobs
    <3>2. Redeemed(j)'
      BY <1>3, <2>7, <3>1 DEF Redeemed, callVars
    <3>3. Made(j)'
      BY <1>3 DEF Made
    <3>4. Relies(j)'
      BY <1>3 DEF Relies, Settled, Stored, LiveTemp, SignedIn, mutexVars
    <3> QED BY <3>2, <3>3, <3>4
  <2>13. Shape(s) /\ Made(s)'
    BY <1>1, <1>2, <2>5 DEF Shape, Made, StartPlaces, LoginPlaces
  <2>14. Redeemed(s)'
    <3>1. f \notin loggedOut /\ f <= issued'
      BY <1>6, <2>1, <2>2, <2>7, Bounds DEF SessionInv, LogoutInv, Typed
    <3>2. file # NoCred => file.fam # f
      BY <2>8 DEF SessionInv, CredInv, Typed, TypeOK
    <3>3. \A p \in Callers : pc[p] \in Hand => cred[p].fam # f
      BY <2>8 DEF SessionInv, CredInv
    <3> QED BY <1>3, <2>3, <2>5, <3>1, <3>2, <3>3 DEF Redeemed, callVars
  <2>15. Relies(s)'
    BY <1>1, <1>2, <1>3, <2>5 DEF Relies, Settled, Stored, mutexVars
  <2>16. \A d \in Commands : job[d].at \in SavePlaces => job[d].fam # s.fam
    <3> SUFFICES ASSUME NEW d \in Commands, job[d].at \in SavePlaces
                 PROVE  job[d].fam # f
      BY <2>5
    <3>1. job[d].fam <= issued /\ job[d].fam \in 0..MaxFam
      BY DEF SessionInv, JobInv, Redeemed, Typed, Jobs
    <3> QED BY <2>7, <3>1
  <2>17. JobInv' /\ job' \in [Commands -> Jobs]
    <3>1. \A j \in Jobs : (\E d \in Commands : d # c /\ job[d] = j) =>
            Redeemed(j)' /\ Made(j)' /\ Relies(j)'
      BY <2>12 DEF SessionInv, JobInv
    <3> QED BY <1>1, <1>3, <2>5, <2>6, <2>13, <2>14, <2>15, <2>16, <3>1, JobInvKeeps
  <2>18. Typed'
    <3>1. issued' \in 0..MaxFam
      BY <1>6, <2>2, <2>3
    <3> QED BY <1>3, <2>3, <2>17, <3>1 DEF SessionInv, Typed, TypeOK, mutexVars, callVars
  <2>19. HoldInv'
    <3>1. holders' = holders \ {c} /\ stolen' = stolen /\ pc' = pc /\ s.at \notin HeldPlaces
      BY <1>3, <1>4, <2>5 DEF SessionInv, HoldInv, mutexVars, callVars, HeldPlaces
    <3> QED BY <2>6, <3>1, LeaveHolds
  <2> QED BY <2>9, <2>10, <2>11, <2>17, <2>18, <2>19 DEF SessionInv
<1> QED BY <1>5, <1>6 DEF Redeem

(* The three that write the file under its lock.                           *)
LEMMA ForgetTempKeeps ==
  ASSUME SessionInv, NEW c \in Commands, ForgetTemp(c)
  PROVE  SessionInv'
<1>1. job[c].at \in {"forget!", "unclaim!"} /\ job[c] \in Jobs /\ Running(c)
  BY DEF ForgetTemp, Running, SessionInv, Typed
<1>2. Shape(job[c]) /\ Redeemed(job[c]) /\ Made(job[c]) /\ Relies(job[c])
  BY DEF SessionInv, JobInv
<1>3. UNCHANGED <<stolen, profile, madeAt, issued, issuedAt, cliBase, revoked, serverGen, late,
                  replayed, wire, callVars, faults, abandoned, kept, discarded, loggedOut, raced>>
      /\ holders' = holders \ {c}
  BY DEF ForgetTemp, KeepServer, KeepHistory, KeepCallers, serverVars, Mutex!Leave
<1>4. c \in holders
  BY <1>1 DEF SessionInv, HoldInv, HeldPlaces
<1>5. /\ file' \in Credentials \cup {NoCred}
      /\ file' # NoCred => /\ file # NoCred /\ file'.fam = file.fam
                           /\ file'.carried.base = file.carried.base
                           /\ file'.carried.temp \in {file.carried.temp, NoTemp}
      /\ SignedIn(file)' <=> SignedIn(file)
  <2>1. CASE file' = file
    BY <2>1 DEF SignedIn, SessionInv, Typed, TypeOK
  <2>2. CASE SignedIn(file) /\ file' = [file EXCEPT !.carried.temp = NoTemp]
    <3>1. file \in Credentials
      BY <2>2 DEF SignedIn, SessionInv, Typed, TypeOK
    <3>2. /\ file' \in Credentials /\ file'.fam = file.fam
          /\ file'.carried.base = file.carried.base /\ file'.carried.temp = NoTemp
      BY <2>2, <3>1, SessionAssumption, Bounds DEF Credentials, NoTemp
    <3> QED BY <2>2, <3>1, <3>2, CredTyped DEF SignedIn
  <2>3. CASE ~SignedIn(file) /\ file' = NoCred
    BY <2>3 DEF SignedIn
  <2> QED BY <2>1, <2>2, <2>3 DEF ForgetTemp
<1>6. Stored(file)' \in {Stored(file), NoTemp}
  BY <1>5 DEF Stored
<1>7. CredInv'
  <2>1. file' # NoCred => Known(file)'
    BY <1>3, <1>5 DEF SessionInv, CredInv, Known
  <2>2. \A p \in Callers : pc[p] \in Hand => Known(cred[p])'
    BY <1>3 DEF SessionInv, CredInv, Known, callVars
  <2> QED BY <1>3, <2>1, <2>2 DEF SessionInv, CredInv, callVars
<1>8. LogoutInv'
  BY <1>3, <1>5 DEF SessionInv, LogoutInv, SignedIn, callVars
<1>9. ~raced /\ ~stolen => Settled
  BY <1>1, <1>2 DEF Shape, Relies
<1>10. KeepInv'
  <2>1. ~raced /\ ~stolen => ProfileKept'
    <3> SUFFICES ASSUME ~raced, ~stolen, NEW t \in kept, profile[t] = "live", t \notin discarded
                 PROVE  FALSE
      BY <1>3 DEF ProfileKept
    <3>1. Stored(file) = t /\ t # NoTemp
      BY Bounds DEF SessionInv, KeepInv, ProfileKept, Typed, NoTemp
    <3> QED BY <1>9, <3>1 DEF Settled
  <2>2. ~stolen => \A p \in Callers : pc[p] \notin Hand
    BY <1>4, Alone DEF SessionInv
  <2> QED BY <1>3, <2>1, <2>2 DEF KeepInv, callVars
<1>11. WireInv'
  BY <1>3 DEF SessionInv, WireInv, callVars
<1>12. \A j \in Jobs : Redeemed(j) /\ Made(j) /\ Relies(j) =>
           Redeemed(j)' /\ Made(j)' /\ Relies(j)'
  <2> SUFFICES ASSUME NEW j \in Jobs, Redeemed(j), Made(j), Relies(j)
               PROVE  Redeemed(j)' /\ Made(j)' /\ Relies(j)'
    OBVIOUS
  <2>1. Redeemed(j)' /\ Made(j)'
    BY <1>3, <1>5 DEF Redeemed, Made, callVars
  <2>2. (LiveTemp(file) = NoTemp => LiveTemp(file)' = NoTemp) /\ (Settled => Settled')
    BY <1>3, <1>6 DEF LiveTemp, Settled
  <2>3. Relies(j)'
    BY <1>3, <1>5, <1>6, <2>2 DEF Relies
  <2> QED BY <2>1, <2>3
<1>13. PICK l \in {"browser", "check"} : job' = [job EXCEPT ![c].at = l]
                                         /\ (l = "browser" => job[c].at = "forget!")
  BY DEF ForgetTemp, To, At
<1>14. PICK s \in Jobs : s = [job[c] EXCEPT !.at = l]
  BY <1>1 DEF Jobs, Places
<1>15. /\ s.at = l /\ s.kind = job[c].kind /\ s.temp = job[c].temp
       /\ s.dropped = job[c].dropped /\ s.claimed = job[c].claimed
       /\ job' = [job EXCEPT ![c] = s] /\ s.at \notin HeldPlaces /\ s.at \notin SavePlaces
  BY <1>1, <1>13, <1>14 DEF Jobs, HeldPlaces, SavePlaces
<1>16. Shape(s) /\ Redeemed(s)' /\ Made(s)'
  BY <1>1, <1>2, <1>15 DEF Shape, Redeemed, Made, StartPlaces, LoginPlaces, SavePlaces
<1>17. Relies(s)'
  <2>1. Settled => Settled'
    BY <1>3, <1>6 DEF Settled
  <2>2. s.at \in {"browser", "check"} /\ (s.at = "browser" => s.temp = NoTemp)
    BY <1>2, <1>13, <1>15 DEF Shape
  <2> QED BY <1>3, <1>9, <2>1, <2>2 DEF Relies
<1>18. JobInv' /\ job' \in [Commands -> Jobs]
  <2>1. \A j \in Jobs : (\E d \in Commands : d # c /\ job[d] = j) =>
          Redeemed(j)' /\ Made(j)' /\ Relies(j)'
    BY <1>12 DEF SessionInv, JobInv
  <2> QED BY <1>1, <1>3, <1>15, <1>16, <1>17, <2>1, JobInvKeeps
<1>19. Typed'
  BY <1>3, <1>5, <1>18 DEF SessionInv, Typed, TypeOK, callVars
<1>20. HoldInv'
  <2>1. pc' = pc /\ stolen' = stolen
    BY <1>3 DEF callVars
  <2> QED BY <1>3, <1>15, <2>1, LeaveHolds
<1> QED BY <1>7, <1>8, <1>10, <1>11, <1>18, <1>19, <1>20 DEF SessionInv

(* A command that ends, with the file changed behind it.                   *)
LEMMA OverKeeps ==
  ASSUME SessionInv, NEW c \in Commands, Running(c), End(c), raced' = raced,
         \A j \in Jobs : (\E d \in Commands : d # c /\ job[d] = j) =>
                           Redeemed(j)' /\ Made(j)' /\ Relies(j)'
  PROVE  /\ JobInv' /\ job' \in [Commands -> Jobs]
         /\ holders' = holders \ {c} /\ stolen' = stolen /\ pc' = pc => HoldInv'
<1>1. PICK s \in Jobs : s = Over(c)
  BY OverTyped
<1>2. /\ job' = [job EXCEPT ![c] = s] /\ s.at = "done"
      /\ ~s.claimed /\ ~s.dropped
  BY <1>1 DEF End, Over, NewJob
<1>3. Shape(s)
  BY <1>1, OverTyped
<1>4. Redeemed(s)' /\ Made(s)' /\ Relies(s)'
  BY <1>2 DEF Redeemed, Made, Relies, SavePlaces
<1>5. s.at \notin SavePlaces /\ s.at \notin HeldPlaces
  BY <1>2 DEF SavePlaces, HeldPlaces
<1>6. JobInv' /\ job' \in [Commands -> Jobs]
  BY <1>2, <1>3, <1>4, <1>5, JobInvKeeps
<1> QED BY <1>2, <1>5, <1>6, LeaveHolds

LEMMA SaveLoginKeeps ==
  ASSUME SessionInv, NEW c \in Commands, SaveLogin(c)
  PROVE  SessionInv'
<1> DEFINE carries == ~job[c].claimed /\ ~job[c].dropped /\ SameBase(file, job[c].base)
           t == IF carries THEN Stored(file) ELSE NoTemp
<1>1. job[c].at = "save!" /\ job[c] \in Jobs /\ Running(c)
  BY DEF SaveLogin, At, Running, SessionInv, Typed
<1>2. Shape(job[c]) /\ Redeemed(job[c]) /\ Relies(job[c])
  BY DEF SessionInv, JobInv
<1>3. UNCHANGED <<stolen, profile, madeAt, issued, issuedAt, cliBase, revoked, serverGen, late,
                  replayed, wire, callVars, faults, abandoned, kept, loggedOut, raced>>
      /\ holders' = holders \ {c}
  BY DEF SaveLogin, KeepServer, KeepCallers, serverVars, Mutex!Leave
<1>4. c \in holders /\ job[c].at \in SavePlaces
  BY <1>1 DEF SessionInv, HoldInv, HeldPlaces, SavePlaces
<1>5. /\ file' = Login(job[c].fam, job[c].base, t) /\ End(c)
      /\ discarded' = IF SameBase(file, job[c].base) THEN discarded
                      ELSE discarded \cup ({Stored(file)} \ {NoTemp})
  BY DEF SaveLogin
<1>6. Stored(file) \in 0..MaxTemp /\ NoTemp \in 0..MaxTemp
  BY Bounds, CredTyped DEF SessionInv, Typed, TypeOK, Stored, NoTemp
<1>7. t \in 0..MaxTemp /\ t \in {Stored(file), NoTemp}
  BY <1>6
<1>8. carries => file # NoCred /\ file \in Credentials /\ file.carried.base = job[c].base
                 /\ t = file.carried.temp
  BY DEF SameBase, Stored, SessionInv, Typed, TypeOK
<1>9. ~carries => t = NoTemp
  OBVIOUS
<1>10. carries <=> ~job[c].claimed /\ ~job[c].dropped /\ SameBase(file, job[c].base)
  OBVIOUS
<1>11. carries => t = Stored(file)
  OBVIOUS
<1> HIDE DEF t, carries
<1>12. job[c].fam \in 0..MaxFam /\ job[c].base \in Bases
  BY <1>1 DEF Jobs
<1>13. /\ file' \in Credentials /\ file'.fam = job[c].fam /\ file'.carried.base = job[c].base
       /\ file'.carried.temp = t /\ file' # NoCred
  BY <1>5, <1>7, <1>12, LoginTyped, CredTyped
<1>14. Stored(file)' = t
  BY <1>13, CredTyped DEF Stored
<1>15. /\ job[c].fam # 0 /\ job[c].fam <= issued /\ issuedAt[job[c].fam] = job[c].base
       /\ job[c].fam \notin loggedOut
  BY <1>2, <1>4 DEF Redeemed
<1>16. CredInv'
  <2>1. Known(file)'
    BY <1>3, <1>8, <1>9, <1>13, <1>15 DEF SessionInv, CredInv, Known
  <2>2. \A p \in Callers : pc[p] \in Hand => Known(cred[p])'
    BY <1>3 DEF SessionInv, CredInv, Known, callVars
  <2> QED BY <1>3, <2>1, <2>2 DEF SessionInv, CredInv, callVars
<1>17. LogoutInv'
  BY <1>3, <1>13, <1>15 DEF SessionInv, LogoutInv, callVars
<1>18. KeepInv'
  <2>1. ~raced /\ ~stolen => ProfileKept'
    <3> SUFFICES ASSUME ~raced, ~stolen,
                        NEW u \in kept, profile[u] = "live", u \notin discarded'
                 PROVE  t = u
      BY <1>3, <1>14 DEF ProfileKept
    <3>1. u \notin discarded
      BY <1>5
    <3>2. Stored(file) = u /\ u # NoTemp
      BY <3>1, Bounds DEF SessionInv, KeepInv, ProfileKept, Typed, NoTemp
    <3>3. SameBase(file, job[c].base)
      BY <1>5, <3>2
    <3>4. ~Settled
      BY <3>2 DEF Settled
    <3>5. carries
      BY <1>2, <1>10, <3>3, <3>4 DEF Relies
    <3> QED BY <1>11, <3>2, <3>5
  <2>2. ~stolen => \A p \in Callers : pc[p] \notin Hand
    BY <1>4, Alone DEF SessionInv
  <2> QED BY <1>3, <2>1, <2>2 DEF KeepInv, callVars
<1>19. WireInv'
  BY <1>3 DEF SessionInv, WireInv, callVars
<1>20. ASSUME NEW d \in Commands, d # c, NEW j \in Jobs, j = job[d]
       PROVE  Redeemed(j)' /\ Made(j)' /\ Relies(j)'
  <2>1. Shape(j) /\ Redeemed(j) /\ Made(j) /\ Relies(j)
    BY <1>20 DEF SessionInv, JobInv
  <2>2. j.at \in SavePlaces => j.fam # job[c].fam
    BY <1>4, <1>20 DEF SessionInv, JobInv
  <2>3. Redeemed(j)' /\ Made(j)'
    BY <1>3, <1>13, <2>1, <2>2 DEF Redeemed, Made, callVars
  <2>4. ~raced /\ j.at \notin {"new", "done"} => j.kind # "start"
    BY <1>1, <1>20 DEF SessionInv, JobInv, Running
  <2>5. (LiveTemp(file) = NoTemp => LiveTemp(file)' = NoTemp) /\ (Settled => Settled')
    BY <1>3, <1>7, <1>14 DEF LiveTemp, Settled
  <2>6. ~raced => j.at \notin {"create", "store"}
    BY <2>1, <2>4 DEF Shape, StartPlaces
  <2>7. Relies(j)'
    BY <1>3, <1>7, <1>14, <2>1, <2>5, <2>6 DEF Relies
  <2> QED BY <2>3, <2>7
<1>21. JobInv' /\ job' \in [Commands -> Jobs] /\ HoldInv'
  <2>1. pc' = pc /\ stolen' = stolen /\ raced' = raced
    BY <1>3 DEF callVars
  <2> QED BY <1>1, <1>3, <1>5, <1>20, <2>1, OverKeeps
<1>22. discarded' \in SUBSET Temps
  BY <1>5, <1>6, Bounds DEF SessionInv, Typed, NoTemp
<1>23. Typed'
  BY <1>3, <1>13, <1>21, <1>22 DEF SessionInv, Typed, TypeOK, callVars
<1> QED BY <1>16, <1>17, <1>18, <1>19, <1>21, <1>23 DEF SessionInv

LEMMA DeleteKeeps ==
  ASSUME SessionInv, NEW c \in Commands, Delete(c)
  PROVE  SessionInv'
<1>1. job[c].at = "delete!" /\ job[c] \in Jobs /\ Running(c)
  BY DEF Delete, At, Running, SessionInv, Typed
<1>2. Shape(job[c]) /\ Relies(job[c])
  BY DEF SessionInv, JobInv
<1>3. UNCHANGED <<stolen, profile, madeAt, issued, issuedAt, cliBase, revoked, serverGen, late,
                  replayed, wire, callVars, faults, abandoned, kept, raced>>
      /\ holders' = holders \ {c} /\ file' = NoCred
  BY DEF Delete, KeepServer, KeepCallers, serverVars, Mutex!Leave
<1>4. c \in holders
  BY <1>1 DEF SessionInv, HoldInv, HeldPlaces
<1>5. PICK f \in 0..MaxFam : f = IF SignedIn(file) THEN file.fam ELSE 0
  BY Bounds, CredTyped DEF SessionInv, Typed, TypeOK, SignedIn
<1>6. /\ loggedOut' = loggedOut \cup ({f} \ {0})
      /\ job' = [job EXCEPT ![c].at = "revoke", ![c].fam = f]
      /\ discarded' = IF job[c].force THEN discarded \cup ({Stored(file)} \ {NoTemp})
                                      ELSE discarded
  BY <1>5 DEF Delete
<1>7. f <= issued
  BY <1>5 DEF SessionInv, CredInv, Known, SignedIn, Typed
<1>8. Stored(file) \in 0..MaxTemp /\ ~SignedIn(file)' /\ Stored(file)' = NoTemp
  BY <1>3, Bounds, CredTyped DEF SessionInv, Typed, TypeOK, Stored, NoTemp, SignedIn
<1>9. CredInv' /\ WireInv'
  <2>1. \A p \in Callers : pc[p] \in Hand => Known(cred[p])'
    BY <1>3 DEF SessionInv, CredInv, Known, callVars
  <2> QED BY <1>3, <2>1 DEF SessionInv, CredInv, WireInv, callVars
<1>10. ~stolen => \A p \in Callers : pc[p] \notin Hand
  BY <1>4, Alone DEF SessionInv
<1>11. LogoutInv'
  BY <1>3, <1>6, <1>7, <1>8, <1>10 DEF SessionInv, LogoutInv, callVars
<1>12. KeepInv'
  <2>1. ~raced /\ ~stolen => ProfileKept'
    <3> SUFFICES ASSUME ~raced, ~stolen,
                        NEW u \in kept, profile[u] = "live", u \notin discarded'
                 PROVE  FALSE
      BY <1>3 DEF ProfileKept
    <3>1. u \notin discarded
      BY <1>6
    <3>2. Stored(file) = u /\ u # NoTemp
      BY <3>1, Bounds DEF SessionInv, KeepInv, ProfileKept, Typed, NoTemp
    <3>3. ~job[c].force
      BY <1>6, <3>2
    <3>4. LiveTemp(file) = NoTemp
      BY <1>1, <1>2, <3>3 DEF Relies
    <3> QED BY <3>2, <3>4 DEF LiveTemp
  <2> QED BY <1>3, <1>10, <2>1 DEF KeepInv, callVars
<1>13. ASSUME NEW d \in Commands, d # c, NEW j \in Jobs, j = job[d]
       PROVE  Redeemed(j)' /\ Made(j)' /\ Relies(j)'
  <2>1. Redeemed(j) /\ Made(j) /\ Relies(j)
    BY <1>13 DEF SessionInv, JobInv
  <2>2. j.at \in SavePlaces => j.fam # f
    BY <1>5, <2>1 DEF Redeemed, SignedIn
  <2>3. Redeemed(j)' /\ Made(j)'
    BY <1>3, <1>6, <2>1, <2>2 DEF Redeemed, Made, callVars
  <2>4. LiveTemp(file)' = NoTemp /\ Settled'
    BY <1>8 DEF LiveTemp, Settled
  <2>5. Relies(j)'
    BY <1>3, <1>8, <2>1, <2>4 DEF Relies
  <2> QED BY <2>3, <2>5
<1>14. PICK s \in Jobs : s = [job[c] EXCEPT !.at = "revoke", !.fam = f]
  BY <1>1 DEF Jobs, Places
<1>15. /\ s.at = "revoke" /\ s.kind = job[c].kind /\ s.dropped = job[c].dropped
       /\ s.claimed = job[c].claimed
       /\ job' = [job EXCEPT ![c] = s] /\ s.at \notin HeldPlaces /\ s.at \notin SavePlaces
  BY <1>1, <1>6, <1>14 DEF Jobs, HeldPlaces, SavePlaces
<1>16. Shape(s) /\ Redeemed(s)' /\ Made(s)' /\ Relies(s)'
  BY <1>1, <1>2, <1>15 DEF Shape, Redeemed, Made, Relies, StartPlaces, LoginPlaces, SavePlaces
<1>17. JobInv' /\ job' \in [Commands -> Jobs]
  BY <1>1, <1>3, <1>13, <1>15, <1>16, JobInvKeeps
<1>18. discarded' \in SUBSET Temps /\ loggedOut' \in SUBSET Fams
  BY <1>6, <1>8, Bounds DEF SessionInv, Typed, NoTemp
<1>19. Typed'
  BY <1>3, <1>17, <1>18 DEF SessionInv, Typed, TypeOK, callVars
<1>20. HoldInv'
  <2>1. pc' = pc /\ stolen' = stolen
    BY <1>3 DEF callVars
  <2> QED BY <1>3, <1>15, <2>1, LeaveHolds
<1> QED BY <1>9, <1>11, <1>12, <1>17, <1>19, <1>20 DEF SessionInv

(* start: the new profile exists at the server before the file has it.     *)
LEMMA CreateKeeps ==
  ASSUME SessionInv, NEW c \in Commands, Create(c)
  PROVE  SessionInv'
<1>1. job[c].at = "create" /\ job[c] \in Jobs /\ Running(c) /\ job[c].at \notin HeldPlaces
  BY DEF Create, At, Running, SessionInv, Typed, HeldPlaces
<1>2. Shape(job[c]) /\ Redeemed(job[c]) /\ Relies(job[c])
  BY DEF SessionInv, JobInv
<1>3. UNCHANGED <<mutexVars, issuedAt, issued, cliBase, revoked, file, serverGen, late, replayed,
                  wire, callVars, faults, abandoned, kept, discarded, loggedOut, raced>>
  BY DEF Create, KeepFiles, KeepHistory, KeepCallers, serverVars
<1>4. CASE End(c) /\ UNCHANGED <<profile, madeAt>>
  <2>1. UNCHANGED <<Files, mutexVars, raced>>
    BY <1>3, <1>4 DEF Files
  <2>2. revoked' \in SUBSET Fams /\ cliBase' \in SUBSET Bases
    BY <1>3 DEF SessionInv, Typed, TypeOK
  <2> QED BY <1>1, <1>4, <2>1, <2>2, EndKeeps
<1>5. ASSUME NEW t \in Temps, profile[t] = "unused",
             profile' = [profile EXCEPT ![t] = "live"],
             madeAt' = [madeAt EXCEPT ![t] = job[c].base],
             job' = [job EXCEPT ![c].at = "store", ![c].temp = t]
      PROVE  SessionInv'
  <2>1. job[c].base \in Bases /\ t \in 0..MaxTemp /\ t # NoTemp
    BY <1>1, Bounds DEF Jobs, NoTemp
  <2>2. /\ profile' \in [Temps -> {"unused", "live", "claimed", "expired"}]
        /\ madeAt' \in [Temps -> Bases] /\ profile'[t] = "live" /\ madeAt'[t] = job[c].base
        /\ \A u \in Temps : u # t => profile'[u] = profile[u] /\ madeAt'[u] = madeAt[u]
    BY <1>5, <2>1 DEF SessionInv, Typed
  <2>3. \A u \in 0..MaxTemp : u # NoTemp /\ profile[u] # "unused" =>
          u # t /\ profile'[u] = profile[u] /\ madeAt'[u] = madeAt[u]
    BY <1>5, <2>2, Bounds DEF NoTemp
  <2>4. \A x \in Credentials : Known(x) => Known(x)'
    BY <1>3, <2>3, CredTyped DEF Known
  <2>5. CredInv' /\ LogoutInv' /\ WireInv'
    <3>1. file # NoCred => Known(file)'
      BY <1>3, <2>4 DEF SessionInv, CredInv, Typed, TypeOK, Known
    <3>2. \A p \in Callers : pc[p] \in Hand => Known(cred[p])'
      BY <1>3, <2>4 DEF SessionInv, CredInv, Known, callVars
    <3>3. \A u \in kept : profile'[u] # "unused"
      BY <2>2 DEF SessionInv, CredInv, Typed
    <3> QED BY <1>3, <3>1, <3>2, <3>3
          DEF SessionInv, CredInv, LogoutInv, WireInv, SignedIn, callVars, mutexVars
  <2>6. /\ Stored(file) \in 0..MaxTemp /\ Stored(file)' = Stored(file)
        /\ SignedIn(file)' = SignedIn(file)
        /\ Stored(file) # NoTemp => profile'[Stored(file)] = profile[Stored(file)]
    BY <1>3, <2>3, Bounds, CredTyped
       DEF SessionInv, CredInv, Known, Typed, TypeOK, Stored, NoTemp, SignedIn
  <2>7. LiveTemp(file)' = LiveTemp(file) /\ (Settled => Settled')
    BY <2>6 DEF LiveTemp, Settled
  <2>8. KeepInv'
    <3>1. \A u \in kept : profile'[u] = profile[u]
      BY <1>5, <2>2 DEF SessionInv, CredInv, Typed
    <3> QED BY <1>3, <2>6, <3>1 DEF SessionInv, KeepInv, ProfileKept, callVars, mutexVars
  <2>9. \A j \in Jobs : Redeemed(j) /\ Made(j) /\ Relies(j) =>
          Redeemed(j)' /\ Made(j)' /\ Relies(j)'
    <3> SUFFICES ASSUME NEW j \in Jobs, Redeemed(j), Made(j), Relies(j)
                 PROVE  Redeemed(j)' /\ Made(j)' /\ Relies(j)'
      OBVIOUS
    <3>1. j.temp \in 0..MaxTemp
      BY DEF Jobs
    <3>2. Redeemed(j)'
      BY <1>3 DEF Redeemed, callVars
    <3>3. Made(j)'
      BY <2>3, <3>1 DEF Made
    <3>4. stolen' = stolen /\ raced' = raced
      BY <1>3 DEF mutexVars
    <3>5. Relies(j)'
      BY <2>6, <2>7, <3>4 DEF Relies
    <3> QED BY <3>2, <3>3, <3>5
  <2>10. PICK s \in Jobs : s = [job[c] EXCEPT !.at = "store", !.temp = t]
    BY <1>1, <2>1 DEF Jobs, Places
  <2>11. /\ s.at = "store" /\ s.temp = t /\ s.base = job[c].base /\ s.kind = job[c].kind
         /\ s.dropped = job[c].dropped /\ s.claimed = job[c].claimed
         /\ job' = [job EXCEPT ![c] = s] /\ s.at \notin HeldPlaces /\ s.at \notin SavePlaces
    BY <1>1, <1>5, <2>10 DEF Jobs, HeldPlaces, SavePlaces
  <2>12. Shape(s) /\ Redeemed(s)' /\ Made(s)'
    BY <1>1, <1>2, <2>1, <2>2, <2>11 DEF Shape, Redeemed, Made, StartPlaces, LoginPlaces, SavePlaces
  <2>13. Relies(s)'
    <3>1. stolen' = stolen /\ raced' = raced
      BY <1>3 DEF mutexVars
    <3> QED BY <1>1, <1>2, <2>6, <2>7, <2>11, <3>1 DEF Relies
  <2>14. JobInv' /\ job' \in [Commands -> Jobs]
    <3>1. \A j \in Jobs : (\E d \in Commands : d # c /\ job[d] = j) =>
            Redeemed(j)' /\ Made(j)' /\ Relies(j)'
      BY <2>9 DEF SessionInv, JobInv
    <3> QED BY <1>1, <1>3, <2>11, <2>12, <2>13, <3>1, JobInvKeeps
  <2>15. Typed'
    BY <1>3, <2>2, <2>14 DEF SessionInv, Typed, TypeOK, mutexVars, callVars
  <2>16. HoldInv'
    <3>1. holders' = holders \ {c} /\ stolen' = stolen /\ pc' = pc
      BY <1>1, <1>3 DEF SessionInv, HoldInv, mutexVars, callVars
    <3> QED BY <2>11, <3>1, LeaveHolds
  <2> QED BY <2>5, <2>8, <2>14, <2>15, <2>16 DEF SessionInv
<1> QED BY <1>4, <1>5 DEF Create

(* Its save takes no lock: only running alone makes it harmless.           *)
LEMMA StoreKeeps ==
  ASSUME SessionInv, NEW c \in Commands, Store(c)
  PROVE  SessionInv'
<1>1. job[c].at = "store" /\ job[c] \in Jobs /\ Running(c) /\ job[c].at \notin HeldPlaces
  BY DEF Store, At, Running, SessionInv, Typed, HeldPlaces
<1>2. Shape(job[c]) /\ Made(job[c]) /\ Relies(job[c])
  BY DEF SessionInv, JobInv
<1>3. UNCHANGED <<mutexVars, profile, madeAt, issuedAt, issued, cliBase, revoked, serverGen, late,
                  replayed, wire, callVars, faults, abandoned, discarded, loggedOut, raced>>
  BY DEF Store, KeepServer, KeepCallers, serverVars
<1>4. file' = TempOnly(job[c].base, job[c].temp) /\ kept' = kept \cup {job[c].temp} /\ End(c)
  BY DEF Store
<1>5. PICK t \in Temps : t = job[c].temp
  BY <1>1, <1>2, Bounds DEF Made, Jobs, NoTemp
<1>6. profile[t] # "unused" /\ madeAt[t] = job[c].base /\ job[c].base \in Bases
  BY <1>1, <1>2, <1>5 DEF Made, Jobs
<1>7. /\ file' \in Credentials /\ file'.fam = 0 /\ file'.carried.base = job[c].base
      /\ file'.carried.temp = t /\ file' # NoCred
  BY <1>4, <1>5, <1>6, LoginTyped, CredTyped, Bounds
<1>8. ~SignedIn(file)' /\ Stored(file)' = t
  BY <1>7 DEF SignedIn, Stored
<1>9. CredInv' /\ WireInv' /\ LogoutInv'
  <2>1. Known(file)'
    BY <1>3, <1>6, <1>7 DEF SessionInv, Typed, Known
  <2>2. \A p \in Callers : pc[p] \in Hand => Known(cred[p])'
    BY <1>3 DEF SessionInv, CredInv, Known, callVars
  <2> QED BY <1>3, <1>4, <1>5, <1>6, <1>8, <2>1, <2>2
        DEF SessionInv, CredInv, WireInv, LogoutInv, callVars, mutexVars
<1>10. ~raced /\ ~stolen => ~SignedIn(file) /\ LiveTemp(file) = NoTemp
  BY <1>1, <1>2 DEF Relies
<1>11. KeepInv'
  <2>1. ~raced /\ ~stolen => ProfileKept'
    <3> SUFFICES ASSUME ~raced, ~stolen,
                        NEW u \in kept', profile[u] = "live", u \notin discarded
                 PROVE  u = t
      BY <1>3, <1>8 DEF ProfileKept
    <3>1. ASSUME u \in kept PROVE FALSE
      <4>1. Stored(file) = u /\ u # NoTemp
        BY <3>1, Bounds DEF SessionInv, KeepInv, ProfileKept, Typed, NoTemp
      <4> QED BY <1>10, <4>1 DEF LiveTemp
    <3> QED BY <1>4, <1>5, <3>1
  <2>2. ~raced /\ ~stolen => \A p \in Callers : pc[p] \notin Hand
    BY <1>10 DEF SessionInv, KeepInv
  <2> QED BY <1>3, <2>1, <2>2 DEF KeepInv, callVars, mutexVars
<1>12. ASSUME NEW d \in Commands, d # c, NEW j \in Jobs, j = job[d]
       PROVE  Redeemed(j)' /\ Made(j)' /\ Relies(j)'
  <2>1. Shape(j) /\ Redeemed(j) /\ Made(j)
    BY <1>12 DEF SessionInv, JobInv
  <2>2. Redeemed(j)' /\ Made(j)'
    BY <1>3, <1>7, <2>1 DEF Redeemed, Made, callVars
  <2>3. job[c].kind = "start"
    BY <1>1, <1>2 DEF Shape, StartPlaces
  <2>4. ~raced => j.at \in {"new", "done"}
    BY <1>1, <1>12, <2>3 DEF SessionInv, JobInv, Running
  <2>5. ~raced => ~j.claimed /\ ~j.dropped
    BY <2>1, <2>4 DEF Shape, LoginPlaces
  <2>6. Relies(j)'
    BY <1>3, <2>4, <2>5 DEF Relies
  <2> QED BY <2>2, <2>6
<1>13. JobInv' /\ job' \in [Commands -> Jobs] /\ HoldInv'
  <2>1. pc' = pc /\ stolen' = stolen /\ raced' = raced /\ holders' = holders \ {c}
    BY <1>1, <1>3 DEF SessionInv, HoldInv, callVars, mutexVars
  <2> QED BY <1>1, <1>4, <1>12, <2>1, OverKeeps
<1>14. kept' \in SUBSET Temps
  BY <1>4, <1>5 DEF SessionInv, Typed
<1>15. Typed'
  BY <1>3, <1>7, <1>13, <1>14 DEF SessionInv, Typed, TypeOK, callVars, mutexVars
<1> QED BY <1>9, <1>11, <1>13, <1>15 DEF SessionInv

-----------------------------------------------------------------------------
(* Steps of the callers of access_token: the file keeps its login and      *)
(* profile, or takes those that a caller has in hand.                      *)

Kept ==
  /\ file' = NoCred => file = NoCred
  /\ file' # NoCred =>
       \/ file # NoCred /\ file'.fam = file.fam /\ file'.carried = file.carried
       \/ \E q \in Callers : /\ pc[q] \in Hand /\ file'.fam = cred[q].fam
                             /\ file'.carried = cred[q].carried
  /\ \A q \in Callers : pc'[q] \in Hand =>
       /\ cred'[q] \in Credentials
       /\ \/ /\ pc[q] \in Hand /\ cred'[q].fam = cred[q].fam
             /\ cred'[q].carried = cred[q].carried
          \/ SignedIn(file) /\ cred'[q].fam = file.fam /\ cred'[q].carried = file.carried

LEMMA RefreshKeeps ==
  ASSUME SessionInv, UNCHANGED sessionVars, TypeOK', WireInv', HoldInv', stolen => stolen', Kept
  PROVE  SessionInv'
<1> USE DEF sessionVars
<1>1. Typed'
  BY DEF SessionInv, Typed
<1>2. \A x : Known(x) => Known(x)'
  BY DEF Known
<1>3. CredInv'
  <2>1. file' # NoCred => Known(file)'
    BY DEF SessionInv, CredInv, Kept, Known
  <2>2. ASSUME NEW q \in Callers, pc'[q] \in Hand
        PROVE  cred'[q] \in Credentials /\ cred'[q].fam # 0 /\ Known(cred[q])'
    <3>1. CASE /\ pc[q] \in Hand /\ cred'[q].fam = cred[q].fam
               /\ cred'[q].carried = cred[q].carried
      BY <2>2, <3>1 DEF SessionInv, CredInv, Kept, Known
    <3>2. CASE SignedIn(file) /\ cred'[q].fam = file.fam /\ cred'[q].carried = file.carried
      BY <2>2, <3>2 DEF SessionInv, CredInv, Kept, Known, SignedIn
    <3> QED BY <2>2, <3>1, <3>2 DEF Kept
  <2> QED BY <2>1, <2>2 DEF SessionInv, CredInv
<1>4. LogoutInv'
  <2>1. ~stolen' => (SignedIn(file)' => file'.fam \notin loggedOut)
    BY DEF SessionInv, LogoutInv, CredInv, Kept, SignedIn
  <2>2. ~stolen' => \A q \in Callers : pc'[q] \in Hand => cred'[q].fam \notin loggedOut
    BY DEF SessionInv, LogoutInv, Kept
  <2> QED BY <2>1, <2>2 DEF SessionInv, LogoutInv
<1>5. ~raced /\ ~stolen' =>
        /\ file = NoCred <=> file' = NoCred
        /\ file # NoCred => file'.fam = file.fam /\ file'.carried = file.carried
  BY DEF SessionInv, KeepInv, Kept, SignedIn
<1>6. ~raced /\ ~stolen' => /\ Stored(file)' = Stored(file) /\ LiveTemp(file)' = LiveTemp(file)
                            /\ SignedIn(file)' <=> SignedIn(file)
                            /\ Settled' <=> Settled
  BY <1>5 DEF Stored, LiveTemp, SignedIn, Settled
<1>7. KeepInv'
  <2>1. ~raced /\ ~stolen' => ProfileKept'
    BY <1>6 DEF SessionInv, KeepInv, ProfileKept
  <2>2. ~raced /\ ~stolen' => \A q \in Callers : pc'[q] \in Hand =>
          SignedIn(file)' /\ cred'[q].fam = file'.fam /\ cred'[q].carried = file'.carried
    BY <1>5, <1>6 DEF SessionInv, KeepInv, Kept, SignedIn
  <2> QED BY <2>1, <2>2 DEF KeepInv
<1>8. JobInv'
  <2>1. ASSUME NEW c \in Commands
        PROVE  Shape(job[c])' /\ Redeemed(job[c])' /\ Made(job[c])' /\ Relies(job[c])'
    <3>1. Shape(job[c]) /\ Redeemed(job[c]) /\ Made(job[c]) /\ Relies(job[c])
      BY DEF SessionInv, JobInv
    <3>2. Shape(job[c])' /\ Made(job[c])'
      BY <3>1 DEF Shape, Made
    <3>3. Relies(job[c])'
      BY <1>6, <3>1 DEF Relies
    <3>4. Redeemed(job[c])'
      BY <3>1 DEF Redeemed, Kept, SignedIn
    <3> QED BY <3>2, <3>3, <3>4
  <2> QED BY <2>1 DEF SessionInv, JobInv, Running
<1> QED BY <1>1, <1>3, <1>4, <1>7, <1>8 DEF SessionInv

LEMMA TokenTyped ==
  ASSUME NEW c \in Credentials, c.fam # 0
  PROVE  TokenOf(c) \in Token
  BY Bounds DEF Credentials, TokenOf, Token

LEMMA CallerLeaves ==
  ASSUME SessionInv, NEW p \in Callers, holders' = holders \ {p}, stolen' = stolen, job' = job,
         pc' = [pc EXCEPT ![p] = "idle"]
  PROVE  HoldInv'
<1>1. \A q \in Callers : pc'[q] = IF q = p THEN "idle" ELSE pc[q]
  BY DEF SessionInv, Typed, TypeOK
<1>2. "idle" \notin InLock /\ \A c \in Commands : c # p
  BY SessionAssumption DEF InLock
<1>3. \A q \in Callers : pc'[q] \in InLock <=> q \in holders'
  BY <1>1, <1>2 DEF SessionInv, HoldInv
<1>4. \A c \in Commands : job'[c].at \in HeldPlaces <=> c \in holders'
  BY <1>2 DEF SessionInv, HoldInv
<1> QED BY <1>3, <1>4 DEF SessionInv, HoldInv

LEMMA CallKeeps ==
  ASSUME SessionInv, NEW p \in Callers, Call(p), UNCHANGED sessionVars
  PROVE  SessionInv'
<1> USE DEF mutexVars, serverVars, callVars, Goto
<1>1. TypeOK'
  BY DEF Call, SessionInv, Typed, TypeOK, InLock, Outcomes
<1>2. WireInv'
  BY DEF Call, SessionInv, Typed, TypeOK, WireInv
<1>3. HoldInv'
  BY SessionAssumption DEF Call, SessionInv, Typed, TypeOK, HoldInv, InLock, sessionVars
<1>4. Kept /\ (stolen => stolen')
  BY DEF Call, SessionInv, Typed, TypeOK, WireInv, Kept, CredInv, Hand
<1> QED BY <1>1, <1>2, <1>3, <1>4, RefreshKeeps

LEMMA RefusedKeeps ==
  ASSUME SessionInv, NEW p \in Callers, Refused(p), UNCHANGED sessionVars
  PROVE  SessionInv'
<1> USE DEF mutexVars, serverVars, callVars, Goto
<1>1. TypeOK'
  BY DEF Refused, SessionInv, Typed, TypeOK, InLock, Outcomes
<1>2. WireInv'
  BY DEF Refused, SessionInv, Typed, TypeOK, WireInv
<1>3. HoldInv'
  BY SessionAssumption DEF Refused, SessionInv, Typed, TypeOK, HoldInv, InLock, sessionVars
<1>4. Kept /\ (stolen => stolen')
  BY DEF Refused, SessionInv, Typed, TypeOK, WireInv, Kept, CredInv, Hand
<1> QED BY <1>1, <1>2, <1>3, <1>4, RefreshKeeps

LEMMA ReadKeeps ==
  ASSUME SessionInv, NEW p \in Callers, Read(p), UNCHANGED sessionVars
  PROVE  SessionInv'
<1> USE DEF mutexVars, serverVars, callVars, Goto
<1>0. file # NoCred => file \in Credentials
  BY DEF SessionInv, Typed, TypeOK
<1>a. SignedIn(file) => TokenOf(file) \in Token /\ file \in Credentials
  BY <1>0, TokenTyped DEF SignedIn
<1>1. TypeOK'
  BY <1>a DEF Read, Raise, Return, Silent, SessionInv, Typed, TypeOK, InLock, Outcomes
<1>2. WireInv'
  BY DEF Read, Raise, Return, Silent, SessionInv, Typed, TypeOK, WireInv
<1>3. HoldInv'
  BY SessionAssumption DEF Read, Raise, Return, Silent, SessionInv, Typed, TypeOK, HoldInv, InLock, sessionVars
<1>4. Kept /\ (stolen => stolen')
  BY DEF Read, Raise, Return, Silent, SessionInv, Typed, TypeOK, WireInv, Kept, CredInv, Hand
<1> QED BY <1>1, <1>2, <1>3, <1>4, RefreshKeeps

LEMMA AcquireKeeps ==
  ASSUME SessionInv, NEW p \in Callers, Acquire(p), UNCHANGED sessionVars
  PROVE  SessionInv'
<1> USE DEF mutexVars, serverVars, callVars, Goto
<1>1. TypeOK'
  BY RefreshAssumption DEF Acquire, Mutex!Enter, Mutex!Admits, SessionInv, Typed, TypeOK, InLock, Outcomes
<1>2. WireInv'
  BY DEF Acquire, Mutex!Enter, Mutex!Admits, SessionInv, Typed, TypeOK, WireInv
<1>3. HoldInv'
  BY SessionAssumption DEF Acquire, Mutex!Enter, Mutex!Admits, SessionInv, Typed, TypeOK, HoldInv, InLock, sessionVars
<1>4. Kept /\ (stolen => stolen')
  BY DEF Acquire, Mutex!Enter, Mutex!Admits, SessionInv, Typed, TypeOK, WireInv, Kept, CredInv, Hand
<1> QED BY <1>1, <1>2, <1>3, <1>4, RefreshKeeps

LEMMA LockTimesOutKeeps ==
  ASSUME SessionInv, NEW p \in Callers, LockTimesOut(p), UNCHANGED sessionVars
  PROVE  SessionInv'
<1> USE DEF mutexVars, serverVars, callVars, Goto
<1>1. TypeOK'
  BY DEF LockTimesOut, Raise, SessionInv, Typed, TypeOK, InLock, Outcomes
<1>2. WireInv'
  BY DEF LockTimesOut, Raise, SessionInv, Typed, TypeOK, WireInv
<1>3. HoldInv'
  BY SessionAssumption DEF LockTimesOut, Raise, SessionInv, Typed, TypeOK, HoldInv, InLock, sessionVars
<1>4. Kept /\ (stolen => stolen')
  BY DEF LockTimesOut, Raise, SessionInv, Typed, TypeOK, WireInv, Kept, CredInv, Hand
<1> QED BY <1>1, <1>2, <1>3, <1>4, RefreshKeeps

LEMMA RereadKeeps ==
  ASSUME SessionInv, NEW p \in Callers, Reread(p), UNCHANGED sessionVars
  PROVE  SessionInv'
<1> USE DEF mutexVars, serverVars, callVars, Goto
<1>0. file # NoCred => file \in Credentials
  BY DEF SessionInv, Typed, TypeOK
<1>a. SignedIn(file) => TokenOf(file) \in Token /\ file \in Credentials
  BY <1>0, TokenTyped DEF SignedIn
<1>1. TypeOK'
  BY <1>a DEF Reread, Raise, Return, Silent, SessionInv, Typed, TypeOK, InLock, Outcomes
<1>2. WireInv'
  BY DEF Reread, Raise, Return, Silent, SessionInv, Typed, TypeOK, WireInv
<1>3. HoldInv'
  BY SessionAssumption DEF Reread, Raise, Return, Silent, SessionInv, Typed, TypeOK, HoldInv, InLock, sessionVars
<1>4. Kept /\ (stolen => stolen')
  BY <1>a DEF Reread, Raise, Return, Silent, SessionInv, Typed, TypeOK, WireInv, Kept, CredInv, Hand
<1> QED BY <1>1, <1>2, <1>3, <1>4, RefreshKeeps

LEMMA PostKeeps ==
  ASSUME SessionInv, NEW p \in Callers, Post(p), UNCHANGED sessionVars
  PROVE  SessionInv'
<1> USE DEF mutexVars, serverVars, callVars, Goto
<1>1. TypeOK'
  BY DEF Post, Raise, Silent, SessionInv, Typed, TypeOK, InLock, Outcomes
<1>2. WireInv'
  BY DEF Post, Raise, Silent, SessionInv, Typed, TypeOK, WireInv
<1>3. HoldInv'
  BY SessionAssumption DEF Post, Raise, Silent, SessionInv, Typed, TypeOK, HoldInv, InLock, sessionVars
<1>4. Kept /\ (stolen => stolen')
  BY DEF Post, Raise, Silent, SessionInv, Typed, TypeOK, WireInv, Kept, CredInv, Hand
<1> QED BY <1>1, <1>2, <1>3, <1>4, RefreshKeeps

LEMMA ReceiveKeeps ==
  ASSUME SessionInv, NEW p \in Callers, Receive(p), UNCHANGED sessionVars
  PROVE  SessionInv'
<1> USE DEF mutexVars, serverVars, callVars, Goto
<1>0. cred[p] \in Credentials /\ cred[p].fam # 0 /\ cred[p].fam \in Fams
  BY Bounds DEF Receive, SessionInv, CredInv, WireInv, Hand, Credentials
<1>a. TokenOf(cred[p]) \in Token
  BY <1>0, TokenTyped
<1>b. /\ Rotated(cred[p]) \in Credentials /\ Rotated(cred[p]).fam = cred[p].fam
      /\ Rotated(cred[p]).carried = cred[p].carried
  BY <1>0 DEF Credentials, Rotated
<1>1. TypeOK'
  BY <1>0, <1>b DEF Receive, Raise, Silent, SessionInv, Typed, TypeOK, InLock, Outcomes
<1>2. WireInv'
  BY DEF Receive, Raise, Silent, SessionInv, Typed, TypeOK, WireInv
<1>3. HoldInv'
  BY SessionAssumption DEF Receive, Raise, Silent, SessionInv, Typed, TypeOK, HoldInv, InLock, sessionVars
<1>4. Kept /\ (stolen => stolen')
  BY <1>0, <1>b DEF Receive, Raise, Silent, SessionInv, Typed, TypeOK, WireInv, Kept, CredInv, Hand
<1> QED BY <1>1, <1>2, <1>3, <1>4, RefreshKeeps

LEMMA SaveKeeps ==
  ASSUME SessionInv, NEW p \in Callers, Save(p), UNCHANGED sessionVars
  PROVE  SessionInv'
<1> USE DEF mutexVars, serverVars, callVars, Goto
<1>0. cred[p] \in Credentials /\ cred[p].fam # 0 /\ cred[p].fam \in Fams
  BY Bounds DEF Save, SessionInv, CredInv, WireInv, Hand, Credentials
<1>a. TokenOf(cred[p]) \in Token
  BY <1>0, TokenTyped
<1>1. TypeOK'
  BY <1>0, <1>a DEF Save, Return, SessionInv, Typed, TypeOK, InLock, Outcomes
<1>2. WireInv'
  BY DEF Save, Return, SessionInv, Typed, TypeOK, WireInv
<1>3. HoldInv'
  BY SessionAssumption DEF Save, Return, SessionInv, Typed, TypeOK, HoldInv, InLock, sessionVars
<1>4. Kept /\ (stolen => stolen')
  <2>1. /\ pc[p] = "save" /\ file' = cred[p] /\ cred' = cred /\ stolen' = stolen
        /\ \A q \in Callers : pc'[q] = IF q = p THEN "release" ELSE pc[q]
    BY DEF Save, SessionInv, Typed, TypeOK
  <2>2. file' # NoCred
    BY <1>0, <2>1, CredTyped
  <2>3. \A q \in Callers : pc'[q] \in Hand => pc[q] \in Hand /\ cred'[q] \in Credentials
    BY <2>1 DEF Hand, SessionInv, CredInv
  <2>4. pc[p] \in Hand /\ file'.fam = cred[p].fam /\ file'.carried = cred[p].carried
    BY <2>1 DEF Hand
  <2> QED BY <2>1, <2>2, <2>3, <2>4 DEF Kept
<1> QED BY <1>1, <1>2, <1>3, <1>4, RefreshKeeps

LEMMA ReleaseKeeps ==
  ASSUME SessionInv, NEW p \in Callers, Release(p), UNCHANGED sessionVars
  PROVE  SessionInv'
<1> USE DEF mutexVars, serverVars, callVars, Goto
<1>1. TypeOK'
  BY DEF Release, Mutex!Leave, SessionInv, Typed, TypeOK, InLock, Outcomes
<1>2. WireInv'
  BY DEF Release, Mutex!Leave, SessionInv, Typed, TypeOK, WireInv
<1>3. HoldInv'
  BY CallerLeaves DEF Release, Mutex!Leave, sessionVars
<1>4. Kept /\ (stolen => stolen')
  BY DEF Release, Mutex!Leave, SessionInv, Typed, TypeOK, WireInv, Kept, CredInv, Hand
<1> QED BY <1>1, <1>2, <1>3, <1>4, RefreshKeeps

LEMMA SaveFailsKeeps ==
  ASSUME SessionInv, NEW p \in Callers, SaveFails(p), UNCHANGED sessionVars
  PROVE  SessionInv'
<1> USE DEF mutexVars, serverVars, callVars, Goto
<1>0. cred[p] \in Credentials /\ cred[p].fam # 0 /\ cred[p].fam \in Fams
  BY Bounds DEF SaveFails, SessionInv, CredInv, WireInv, Hand, Credentials
<1>a. TokenOf(cred[p]) \in Token
  BY <1>0, TokenTyped
<1>1. TypeOK'
  BY <1>0 DEF SaveFails, Raise, Fault, SessionInv, Typed, TypeOK, InLock, Outcomes
<1>2. WireInv'
  BY DEF SaveFails, Raise, Fault, SessionInv, Typed, TypeOK, WireInv
<1>3. HoldInv'
  BY SessionAssumption DEF SaveFails, Raise, Fault, SessionInv, Typed, TypeOK, HoldInv, InLock, sessionVars
<1>4. Kept /\ (stolen => stolen')
  BY DEF SaveFails, Raise, Fault, SessionInv, Typed, TypeOK, WireInv, Kept, CredInv, Hand
<1> QED BY <1>1, <1>2, <1>3, <1>4, RefreshKeeps

LEMMA RequestTimesOutKeeps ==
  ASSUME SessionInv, NEW p \in Callers, RequestTimesOut(p), UNCHANGED sessionVars
  PROVE  SessionInv'
<1> USE DEF mutexVars, serverVars, callVars, Goto
<1>0. cred[p] \in Credentials /\ cred[p].fam # 0 /\ cred[p].fam \in Fams
  BY Bounds DEF RequestTimesOut, SessionInv, CredInv, WireInv, Hand, Credentials
<1>a. TokenOf(cred[p]) \in Token
  BY <1>0, TokenTyped
<1>b. Orphaned(p) \subseteq [tok : Token, n : Nat]
  BY <1>a DEF Orphaned, SessionInv, Typed, TypeOK
<1>1. TypeOK'
  BY <1>0, <1>b DEF RequestTimesOut, Raise, Fault, SessionInv, Typed, TypeOK, InLock, Outcomes
<1>2. WireInv'
  BY DEF RequestTimesOut, Raise, Fault, SessionInv, Typed, TypeOK, WireInv
<1>3. HoldInv'
  BY SessionAssumption DEF RequestTimesOut, Raise, Fault, SessionInv, Typed, TypeOK, HoldInv, InLock, sessionVars
<1>4. Kept /\ (stolen => stolen')
  BY DEF RequestTimesOut, Raise, Fault, SessionInv, Typed, TypeOK, WireInv, Kept, CredInv, Hand
<1> QED BY <1>1, <1>2, <1>3, <1>4, RefreshKeeps

LEMMA CrashKeeps ==
  ASSUME SessionInv, NEW p \in Callers, Crash(p), UNCHANGED sessionVars
  PROVE  SessionInv'
<1> USE DEF mutexVars, serverVars, callVars, Goto
<1>0. pc[p] \in Hand => /\ cred[p] \in Credentials /\ cred[p].fam \in Fams
                        /\ TokenOf(cred[p]) \in Token
  BY Bounds, TokenTyped DEF SessionInv, CredInv, Credentials
<1>a. Orphaned(p) \subseteq [tok : Token, n : Nat]
  BY <1>0 DEF Orphaned, SessionInv, WireInv, Typed, TypeOK, Hand
<1>b. holders' \in SUBSET Procs /\ stolen' = stolen
  BY DEF Crash, SessionInv, Typed, TypeOK, Mutex!Leave
<1>1. TypeOK'
  BY <1>0, <1>a, <1>b DEF Crash, Fault, SessionInv, Typed, TypeOK, InLock, Outcomes, Hand
<1>2. WireInv'
  BY DEF Crash, Fault, Mutex!Leave, SessionInv, Typed, TypeOK, WireInv
<1>3. HoldInv'
  <2>1. holders' = holders \ {p} /\ stolen' = stolen
    BY DEF Crash, Mutex!Leave
  <2> QED BY <2>1, CallerLeaves DEF Crash, sessionVars
<1>4. Kept /\ (stolen => stolen')
  BY <1>b DEF Crash, Fault, Mutex!Leave, SessionInv, Typed, TypeOK, WireInv, Kept, CredInv, Hand
<1> QED BY <1>1, <1>2, <1>3, <1>4, RefreshKeeps

LEMMA AnswerKeeps ==
  ASSUME SessionInv, NEW p \in Callers, Answer(p), UNCHANGED sessionVars
  PROVE  SessionInv'
<1> USE DEF mutexVars, serverVars, callVars, Goto
<1>0. cred[p] \in Credentials /\ cred[p].fam # 0 /\ cred[p].fam \in Fams
  BY Bounds DEF Answer, SessionInv, CredInv, WireInv, Hand, Credentials
<1>a. TokenOf(cred[p]) \in Token
  BY <1>0, TokenTyped
<1>b. /\ serverGen' \in [Fams -> Nat]
      /\ revoked' \in SUBSET Fams /\ replayed' \in SUBSET Fams
  BY <1>a DEF Answer, SessionInv, Typed, TypeOK, Rotate, Refuse, Token
<1>1. TypeOK'
  BY <1>b DEF Answer, Replies, SessionInv, Typed, TypeOK, InLock, Outcomes
<1>2. WireInv'
  BY DEF Answer, Replies, SessionInv, Typed, TypeOK, WireInv
<1>3. HoldInv'
  BY SessionAssumption DEF Answer, Replies, SessionInv, Typed, TypeOK, HoldInv, InLock, sessionVars
<1>4. Kept /\ (stolen => stolen')
  BY DEF Answer, Replies, SessionInv, Typed, TypeOK, WireInv, Kept, CredInv, Hand
<1> QED BY <1>1, <1>2, <1>3, <1>4, RefreshKeeps

LEMMA AnswerLateKeeps ==
  ASSUME SessionInv, NEW r \in late, AnswerLate(r), UNCHANGED sessionVars
  PROVE  SessionInv'
<1> USE DEF mutexVars, serverVars, callVars, Goto
<1>a. r.tok \in Token
  BY DEF SessionInv, Typed, TypeOK
<1>b. /\ serverGen' \in [Fams -> Nat]
      /\ revoked' \in SUBSET Fams /\ replayed' \in SUBSET Fams
  BY <1>a DEF AnswerLate, SessionInv, Typed, TypeOK, Rotate, Refuse, Token
<1>1. TypeOK'
  BY <1>b DEF AnswerLate, SessionInv, Typed, TypeOK, InLock, Outcomes
<1>2. WireInv'
  BY DEF AnswerLate, SessionInv, Typed, TypeOK, WireInv
<1>3. HoldInv'
  BY SessionAssumption DEF AnswerLate, SessionInv, Typed, TypeOK, HoldInv, InLock, sessionVars
<1>4. Kept /\ (stolen => stolen')
  BY DEF AnswerLate, SessionInv, Typed, TypeOK, WireInv, Kept, CredInv, Hand
<1> QED BY <1>1, <1>2, <1>3, <1>4, RefreshKeeps

LEMMA ExpireKeeps ==
  ASSUME SessionInv, Expire, UNCHANGED sessionVars
  PROVE  SessionInv'
<1> USE DEF mutexVars, serverVars, callVars, Goto
<1>0. /\ file \in Credentials /\ file' \in Credentials /\ file # NoCred /\ file' # NoCred
      /\ file'.fam = file.fam /\ file'.carried = file.carried
  BY RefreshAssumption DEF Expire, SignedIn, SessionInv, Typed, TypeOK, Credentials
<1>1. TypeOK'
  BY <1>0 DEF Expire, SessionInv, Typed, TypeOK, InLock, Outcomes
<1>2. WireInv'
  BY DEF Expire, SessionInv, Typed, TypeOK, WireInv
<1>3. HoldInv'
  BY SessionAssumption DEF Expire, SessionInv, Typed, TypeOK, HoldInv, InLock, sessionVars
<1>4. Kept /\ (stolen => stolen')
  BY <1>0 DEF Expire, SessionInv, Typed, TypeOK, WireInv, Kept, CredInv, Hand
<1> QED BY <1>1, <1>2, <1>3, <1>4, RefreshKeeps

LEMMA StealLockKeeps ==
  ASSUME SessionInv, StealLock, UNCHANGED sessionVars
  PROVE  SessionInv'
<1> USE DEF mutexVars, serverVars, callVars, Goto
<1>1. TypeOK'
  BY DEF StealLock, Mutex!Steal, Fault, SessionInv, Typed, TypeOK, InLock, Outcomes
<1>2. WireInv'
  BY DEF StealLock, Mutex!Steal, Fault, SessionInv, Typed, TypeOK, WireInv
<1>3. HoldInv'
  BY SessionAssumption DEF StealLock, Mutex!Steal, Fault, SessionInv, Typed, TypeOK, HoldInv, InLock, sessionVars
<1>4. Kept /\ (stolen => stolen')
  BY DEF StealLock, Mutex!Steal, Fault, SessionInv, Typed, TypeOK, WireInv, Kept, CredInv, Hand
<1> QED BY <1>1, <1>2, <1>3, <1>4, RefreshKeeps

LEMMA SessionStutter ==
  ASSUME SessionInv, UNCHANGED allVars
  PROVE  SessionInv'
<1> USE DEF allVars, vars
<1>1. TypeOK'
  BY DEF SessionInv, Typed, TypeOK
<1>2. WireInv' /\ HoldInv'
  BY DEF SessionInv, WireInv, HoldInv, sessionVars
<1>3. Kept /\ (stolen => stolen')
  BY DEF SessionInv, CredInv, Kept
<1> QED BY <1>1, <1>2, <1>3, RefreshKeeps

LEMMA SessionStep ==
  ASSUME SessionInv, [SessionNext]_allVars
  PROVE  SessionInv'
<1>1. ASSUME NEW p \in Callers, UNCHANGED sessionVars,
             Call(p) \/ Refused(p) \/ CallerStep(p) \/ SaveFails(p)
               \/ RequestTimesOut(p) \/ Crash(p) \/ Answer(p)
      PROVE  SessionInv'
  BY <1>1, CallKeeps, RefusedKeeps, ReadKeeps, AcquireKeeps, LockTimesOutKeeps, RereadKeeps,
     PostKeeps, ReceiveKeeps, SaveKeeps, ReleaseKeeps, SaveFailsKeeps, RequestTimesOutKeeps,
     CrashKeeps, AnswerKeeps DEF CallerStep
<1>2. ASSUME NEW r \in late, AnswerLate(r), UNCHANGED sessionVars
      PROVE  SessionInv'
  BY <1>2, AnswerLateKeeps
<1>3. ASSUME RefreshNext, UNCHANGED sessionVars
      PROVE  SessionInv'
  BY <1>1, <1>2, <1>3, ExpireKeeps, StealLockKeeps DEF RefreshNext
<1>4. ASSUME NEW c \in Commands, CommandStep(c)
      PROVE  SessionInv'
  BY <1>4, TakeLockKeeps, NoLockKeeps, AskKeeps, RegisterKeeps, ConsentKeeps, RedeemKeeps,
     ForgetTempKeeps, SaveCliKeeps, ScopeRefusedKeeps, SaveLoginKeeps, AbortKeeps, CheckHeldKeeps,
     DeleteCliKeeps, DeleteKeeps, RevokeDeletedKeeps, ProbeKeeps, CreateKeeps, StoreKeeps
     DEF CommandStep
<1> QED BY <1>3, <1>4, BeginKeeps, DieKeeps, PassDeadlineKeeps, SessionStutter DEF SessionNext

LEMMA SessionInvariant == SessionSpec => []SessionInv
  BY SessionBegins, SessionStep, PTL DEF SessionSpec

-----------------------------------------------------------------------------
(* Whatever login, logout, start and the callers of access_token do, every *)
(* reachable state is of its type, and without a stolen lock at most one   *)
(* of them is in the file at a time.                                       *)
THEOREM SessionTypeCorrect == SessionSpec => []SessionTypeOK
<1>1. ASSUME SessionInv
      PROVE  SessionTypeOK
  <2>1. \A c \in Commands : c \in holders <=> job[c].at \in HeldPlaces
    BY <1>1 DEF SessionInv, HoldInv
  <2>2. ASSUME ~stolen
        PROVE  Cardinality(holders) <= 1
    <3>1. CASE holders = {}
      BY <3>1, FS_EmptySet
    <3>2. ASSUME NEW p \in holders
          PROVE  Cardinality(holders) <= 1
      <4>1. holders = {p}
        BY <1>1, <2>2, <3>2 DEF SessionInv, HoldInv
      <4>2. Cardinality({p}) = 1
        BY FS_Singleton
      <4> QED BY <4>1, <4>2
    <3> QED BY <3>1, <3>2
  <2> QED BY <1>1, <2>1, <2>2 DEF SessionInv, Typed, SessionTypeOK
<1> QED BY <1>1, SessionInvariant, PTL

(* Nobody loses a live temporary profile by running login, logout and any  *)
(* number of refreshes at once: its token leaves the file by a forced      *)
(* logout or a login at another deployment, unless start raced another.    *)
THEOREM ProfileNeverLost == SessionSpec => []ProfileKept
<1>1. SessionInv => ProfileKept
  BY DEF SessionInv, KeepInv, ProfileKept
<1> QED BY <1>1, SessionInvariant, PTL

(* No interleaving of refreshes, logins and saves brings back a login that *)
(* logout deleted, as long as the lock was not stolen.                     *)
THEOREM LoggedOutForGood == SessionSpec => []LogoutSticks
<1>1. SessionInv => LogoutSticks
  BY DEF SessionInv, LogoutInv, LogoutSticks, Typed
<1> QED BY <1>1, SessionInvariant, PTL

(* Racing, stolen lock or not, no command or refresh ever files a token or *)
(* a profile under another deployment than the one that issued it.         *)
THEOREM NeverRetagged == SessionSpec => []FiledAtItsDeployment
<1>1. ASSUME SessionInv
      PROVE  FiledAtItsDeployment
  <2>1. file # NoCred => Stored(file) = file.carried.temp
    BY DEF Stored
  <2>2. file = NoCred => Stored(file) = NoTemp
    BY DEF Stored
  <2> QED BY <1>1, <2>1, <2>2 DEF SessionInv, CredInv, Known, FiledAtItsDeployment, SignedIn
<1> QED BY <1>1, SessionInvariant, PTL

(* What a refresh saves over is the login and the profile it started from. *)
THEOREM RefreshSavesItsOwn == SessionSpec => RefreshKeepsLogin
<1> DEFINE Own == \A p \in Callers :
             pc[p] = "save" /\ file' # file /\ ~stolen /\ ~raced /\ pc'[p] = "release"
               => /\ SignedIn(file) /\ file.fam = file'.fam
                  /\ file.carried = file'.carried
<1>1. ASSUME SessionInv, SessionNext
      PROVE  Own
  <2> SUFFICES ASSUME NEW p \in Callers, pc[p] = "save", file' # file, ~stolen, ~raced,
                      pc'[p] = "release"
               PROVE  SignedIn(file) /\ file.fam = file'.fam /\ file.carried = file'.carried
    OBVIOUS
  <2>1. SignedIn(file) /\ cred[p].fam = file.fam /\ cred[p].carried = file.carried
    BY <1>1 DEF SessionInv, KeepInv, Hand
  <2>2. pc \in [Callers -> {"idle", "read", "wait"} \cup InLock]
    BY <1>1 DEF SessionInv, Typed, TypeOK
  <2>3. ASSUME NEW c \in Commands, CommandStep(c)
        PROVE  pc' = pc
    BY <2>3 DEF CommandStep, TakeLock, NoLock, Ask, Register, Consent, Redeem, ForgetTemp, SaveCli,
         ScopeRefused, SaveLogin, Abort, CheckHeld, DeleteCli, Delete, RevokeDeleted, Probe, Create,
         Store, KeepCallers, callVars
  <2>4. ASSUME NEW c \in Commands,
               Die(c) \/ \E k \in Kinds, b \in Bases, force \in BOOLEAN : Begin(c, k, b, force)
        PROVE  pc' = pc
    BY <2>4 DEF Die, Begin, KeepCallers, callVars
  <2>5. ASSUME NEW t \in Temps, PassDeadline(t)
        PROVE  pc' = pc
    BY <2>5 DEF PassDeadline, KeepCallers, callVars
  <2>6. RefreshNext
    BY <1>1, <2>3, <2>4, <2>5 DEF SessionNext
  <2>7. PICK q \in Callers : Save(q)
    BY <2>2, <2>6 DEF RefreshNext, CallerStep, Call, Refused, Read, Acquire, LockTimesOut, Reread, Post,
         Receive, Release, SaveFails, RequestTimesOut, Crash, Answer, AnswerLate, Expire, StealLock,
         callVars, Mutex!Steal
  <2>8. q = p
    BY <2>2, <2>7 DEF Save, Goto
  <2> QED BY <2>1, <2>7, <2>8 DEF Save
<1>2. SessionInv /\ [SessionNext]_allVars => [Own]_allVars
  BY <1>1
<1> QED BY <1>2, SessionInvariant, PTL DEF SessionSpec, RefreshKeepsLogin

=============================================================================
