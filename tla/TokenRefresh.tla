----------------------------- MODULE TokenRefresh -----------------------------
(***************************************************************************)
(* Callers of `access_token` (anona/cli/tokens.py; `accessToken` in        *)
(* typescript/src/cli/tokens.ts) sharing one credential file, and the      *)
(* authorization server that rotates the refresh token they all use.       *)
(*                                                                         *)
(* The file is read without the lock first; whoever must refresh takes the *)
(* lock (CredentialMutex), reads again, posts the refresh token, saves the *)
(* new pair and only then returns.  The server burns a refresh token when  *)
(* it issues the next one, and revokes the whole family when a burned one  *)
(* is presented again.                                                     *)
(*                                                                         *)
(* A token is its family (one per approval) and its generation within it;  *)
(* the access token and the refresh token of a pair share both.            *)
(***************************************************************************)
EXTENDS Naturals, FiniteSets

CONSTANTS
  Procs,      \* every process that ever takes the lock of this file
  Python,     \* those of them that run the Python package
  Callers,    \* those of them that call access_token
  MaxFam,     \* bound: approvals, numbered from 1
  MaxGen,     \* bound: rotations of one family
  MaxFaults,  \* bound: crashes, abandoned requests and failed saves
  Carried,    \* what a refresh copies unread: base_url and temporary profile
  NoCred,     \* the file is absent or cannot be parsed
  NoToken

VARIABLES
  holders, stolen,  \* the lock, see CredentialMutex
  file,       \* the credential file
  serverGen,  \* server: the generation of each family that is not burned yet
  revoked,    \* server: families it accepts nothing of any more
  wire,       \* what became of each caller's refresh request
  late,       \* requests under way whose sender no longer listens
  pc, cred, rejected,  \* of each caller: place, credential in hand, refused token
  got, outcome,        \* of each caller: the token returned, how the call ended
  faults,     \* crashes, abandoned requests and failed saves so far
  replayed,   \* history: families revoked because a burned token came back
  abandoned   \* history: families of which a request's answer was never saved

mutexVars  == <<holders, stolen>>
serverVars == <<serverGen, revoked, late, replayed>>
callVars   == <<pc, cred, rejected, got, outcome>>
vars == <<holders, stolen, file, serverGen, revoked, wire, late, pc, cred,
          rejected, got, outcome, faults, replayed, abandoned>>

Mutex == INSTANCE CredentialMutex

-----------------------------------------------------------------------------
Fams   == 1..MaxFam
Token  == [fam : Fams, gen : Nat]

\* fam = 0: only a temporary profile is stored, so nobody is signed in.
Credentials == [fam : 0..MaxFam, gen : Nat, fresh : BOOLEAN, carried : Carried]

ASSUME RefreshAssumption ==
  /\ Python \subseteq Procs
  /\ Callers \subseteq Procs
  /\ MaxFam \in Nat /\ MaxGen \in Nat /\ MaxFaults \in Nat
  /\ NoCred \notin Credentials /\ NoToken \notin Token

InLock   == {"reread", "post", "await", "save", "release"}
Replies  == {"rotated", "unusable", "refused", "failed"}
Outcomes == {"none", "token", "relogin", "error"}

TypeOK ==
  /\ holders   \in SUBSET Procs /\ stolen \in BOOLEAN
  /\ file      \in Credentials \cup {NoCred}
  /\ serverGen \in [Fams -> Nat]
  /\ revoked   \in SUBSET Fams /\ replayed \in SUBSET Fams
  /\ abandoned \in SUBSET Fams
  /\ wire      \in [Callers -> {"none", "sent"} \cup Replies]
  /\ late      \in SUBSET [tok : Token, n : Nat]
  /\ pc        \in [Callers -> {"idle", "read", "wait"} \cup InLock]
  /\ cred      \in [Callers -> Credentials \cup {NoCred}]
  /\ rejected  \in [Callers -> Token \cup {NoToken}]
  /\ got       \in [Callers -> Token \cup {NoToken}]
  /\ outcome   \in [Callers -> Outcomes]
  /\ faults    \in Nat

SignedIn(c) == c # NoCred /\ c.fam # 0

TokenOf(c) == [fam |-> c.fam, gen |-> c.gen]

(* `_must_refresh`: the stored token is about to expire, or it is still    *)
(* the very token the server has just refused.                             *)
MustRefresh(c, refused) == ~c.fresh \/ refused = TokenOf(c)

\* Mutant: an answer without a refresh token keeps the burned one.
RotatedInPlace(c) ==
  [fam |-> c.fam, gen |-> c.gen, fresh |-> TRUE, carried |-> c.carried]

\* What `_refresh` makes of the answer: the next pair, and the rest copied.
Rotated(c) ==
  [fam |-> c.fam, gen |-> c.gen + 1, fresh |-> TRUE, carried |-> c.carried]

\* Nobody is calling, and the server has seen no refresh yet.
Quiet ==
  /\ Mutex!MInit
  /\ serverGen = [f \in Fams |-> 0]
  /\ revoked = {} /\ replayed = {} /\ abandoned = {}
  /\ wire = [p \in Callers |-> "none"] /\ late = {}
  /\ pc = [p \in Callers |-> "idle"]
  /\ cred = [p \in Callers |-> NoCred]
  /\ rejected = [p \in Callers |-> NoToken]
  /\ got = [p \in Callers |-> NoToken]
  /\ outcome = [p \in Callers |-> "none"]
  /\ faults = 0

Init ==
  /\ Quiet
  /\ file \in [fam : Fams, gen : {0}, fresh : BOOLEAN, carried : Carried]

Goto(p, l)    == pc' = [pc EXCEPT ![p] = l]
Return(p, t)  == /\ got' = [got EXCEPT ![p] = t]
                 /\ outcome' = [outcome EXCEPT ![p] = "token"]

\* Mutant: every failure reads as a logout.
RaiseRelogin(p, why) == /\ outcome' = [outcome EXCEPT ![p] = "relogin"]
                        /\ UNCHANGED got
Raise(p, why) == /\ outcome' = [outcome EXCEPT ![p] = why]
                 /\ UNCHANGED got
Silent        == UNCHANGED <<got, outcome>>

Fault == faults < MaxFaults /\ faults' = faults + 1

-----------------------------------------------------------------------------
(* The call, and the repeated call of a caller whose request was refused   *)
(* with 401: it passes the refused token, and does so once per request.    *)
Call(p) ==
  /\ pc[p] = "idle"
  /\ Goto(p, "read")
  /\ rejected' = [rejected EXCEPT ![p] = NoToken]
  /\ got' = [got EXCEPT ![p] = NoToken]
  /\ outcome' = [outcome EXCEPT ![p] = "none"]
  /\ UNCHANGED <<mutexVars, file, serverVars, wire, cred, faults, abandoned>>

Refused(p) ==
  /\ pc[p] = "idle"
  /\ outcome[p] = "token" /\ rejected[p] = NoToken
  /\ got[p].gen < MaxGen
  /\ Goto(p, "read")
  /\ rejected' = [rejected EXCEPT ![p] = got[p]]
  /\ got' = [got EXCEPT ![p] = NoToken]
  /\ outcome' = [outcome EXCEPT ![p] = "none"]
  /\ UNCHANGED <<mutexVars, file, serverVars, wire, cred, faults, abandoned>>

\* The first read, without the lock: most calls end here.
Read(p) ==
  /\ pc[p] = "read"
  /\ \/ ~SignedIn(file) /\ Raise(p, "relogin") /\ Goto(p, "idle")
     \/ /\ SignedIn(file) /\ ~MustRefresh(file, rejected[p])
        /\ Return(p, TokenOf(file)) /\ Goto(p, "idle")
     \/ /\ SignedIn(file) /\ MustRefresh(file, rejected[p])
        /\ Silent /\ Goto(p, "wait")
  /\ UNCHANGED <<mutexVars, file, serverVars, wire, cred, rejected, faults, abandoned>>

\* Mutant: refreshes without the lock.
AcquireNothing(p) ==
  /\ pc[p] = "wait"
  /\ holders' = holders \cup {p} /\ UNCHANGED stolen
  /\ Goto(p, "reread")
  /\ UNCHANGED <<file, serverVars, wire, cred, rejected, got, outcome, faults, abandoned>>

Acquire(p) ==
  /\ pc[p] = "wait"
  /\ Mutex!Enter(p)
  /\ Goto(p, "reread")
  /\ UNCHANGED <<file, serverVars, wire, cred, rejected, got, outcome, faults, abandoned>>

\* Mutant: waits for the lock without a limit.
WaitForEver(p) == FALSE

LockTimesOut(p) ==
  /\ pc[p] = "wait"
  /\ Raise(p, "error") /\ Goto(p, "idle")
  /\ UNCHANGED <<mutexVars, file, serverVars, wire, cred, rejected, faults, abandoned>>

\* Mutant: the second read takes the token but not the decision.
RereadBlindly(p) ==
  /\ pc[p] = "reread"
  /\ cred' = [cred EXCEPT ![p] = file]
  /\ Silent /\ Goto(p, "post")
  /\ UNCHANGED <<mutexVars, file, serverVars, wire, rejected, faults, abandoned>>

\* The second read, under the lock, decides as the first one did.
Reread(p) ==
  /\ pc[p] = "reread"
  /\ \/ /\ ~SignedIn(file) /\ Raise(p, "relogin") /\ Goto(p, "release")
        /\ UNCHANGED cred
     \/ /\ SignedIn(file) /\ ~MustRefresh(file, rejected[p])
        /\ Return(p, TokenOf(file)) /\ Goto(p, "release")
        /\ UNCHANGED cred
     \/ /\ SignedIn(file) /\ MustRefresh(file, rejected[p])
        /\ cred' = [cred EXCEPT ![p] = file]
        /\ Silent /\ Goto(p, "post")
  /\ UNCHANGED <<mutexVars, file, serverVars, wire, rejected, faults, abandoned>>

\* Discovery reads the metadata first; when that fails nothing was sent.
Post(p) ==
  /\ pc[p] = "post"
  /\ \/ Raise(p, "error") /\ Goto(p, "release") /\ UNCHANGED wire
     \/ Silent /\ Goto(p, "await") /\ wire' = [wire EXCEPT ![p] = "sent"]
  /\ UNCHANGED <<mutexVars, file, serverVars, cred, rejected, faults, abandoned>>

\* Mutant: the rotated token is handed out before it is saved.
ReceiveReturning(p) ==
  /\ pc[p] = "await" /\ wire[p] = "rotated"
  /\ wire' = [wire EXCEPT ![p] = "none"]
  /\ cred' = [cred EXCEPT ![p] = Rotated(cred[p])]
  /\ Return(p, TokenOf(Rotated(cred[p]))) /\ Goto(p, "save")
  /\ UNCHANGED <<mutexVars, file, serverVars, rejected, faults, abandoned>>

(* 400 and 401 say the credential is dead; every other failure is          *)
(* transient.  An answer without a usable pair is not saved.               *)
Receive(p) ==
  /\ pc[p] = "await" /\ wire[p] \in Replies
  /\ wire' = [wire EXCEPT ![p] = "none"]
  /\ \/ /\ wire[p] = "rotated"
        /\ cred' = [cred EXCEPT ![p] = Rotated(cred[p])]
        /\ Goto(p, "save") /\ Silent /\ UNCHANGED abandoned
     \/ /\ wire[p] = "refused"
        /\ Raise(p, "relogin") /\ Goto(p, "release") /\ UNCHANGED <<cred, abandoned>>
     \/ /\ wire[p] = "failed"
        /\ Raise(p, "error") /\ Goto(p, "release") /\ UNCHANGED <<cred, abandoned>>
     \/ /\ wire[p] = "unusable"
        /\ Raise(p, "error") /\ Goto(p, "release") /\ UNCHANGED cred
        /\ abandoned' = abandoned \cup {cred[p].fam}
  /\ UNCHANGED <<mutexVars, file, serverVars, rejected, faults>>

\* Persist before returning.
Save(p) ==
  /\ pc[p] = "save"
  /\ file' = cred[p]
  /\ Return(p, TokenOf(cred[p])) /\ Goto(p, "release")
  /\ UNCHANGED <<mutexVars, serverVars, wire, cred, rejected, faults, abandoned>>

\* os.replace never happened: the previous file is intact, the call raises.
SaveFails(p) ==
  /\ pc[p] = "save"
  /\ Fault
  /\ abandoned' = abandoned \cup {cred[p].fam}
  /\ Raise(p, "error") /\ Goto(p, "release")
  /\ UNCHANGED <<mutexVars, file, serverVars, wire, cred, rejected>>

Release(p) ==
  /\ pc[p] = "release"
  /\ Mutex!Leave(p)
  /\ Goto(p, "idle")
  /\ cred' = [cred EXCEPT ![p] = NoCred]
  /\ UNCHANGED <<file, serverVars, wire, rejected, got, outcome, faults, abandoned>>

-----------------------------------------------------------------------------
\* The request of p that nobody waits for any more, if it is still under way.
Orphaned(p) ==
  IF wire[p] = "sent" THEN {[tok |-> TokenOf(cred[p]), n |-> faults]} ELSE {}

\* 15 seconds went by.  The server may have rotated, or may still do so.
RequestTimesOut(p) ==
  /\ pc[p] = "await"
  /\ Fault
  /\ late' = late \cup Orphaned(p)
  /\ wire' = [wire EXCEPT ![p] = "none"]
  /\ abandoned' = abandoned \cup {cred[p].fam}
  /\ Raise(p, "error") /\ Goto(p, "release")
  /\ UNCHANGED <<mutexVars, file, serverGen, revoked, replayed, cred, rejected>>

(* Killed anywhere.  The lock file it leaves behind is taken over later.   *)
Crash(p) ==
  /\ pc[p] # "idle"
  /\ Fault
  /\ IF p \in holders THEN Mutex!Leave(p) ELSE UNCHANGED mutexVars
  /\ late' = late \cup Orphaned(p)
  /\ abandoned' = IF pc[p] \in {"await", "save"}
                    THEN abandoned \cup {cred[p].fam} ELSE abandoned
  /\ Goto(p, "idle")
  /\ wire' = [wire EXCEPT ![p] = "none"]
  /\ cred' = [cred EXCEPT ![p] = NoCred]
  /\ got' = [got EXCEPT ![p] = NoToken]
  /\ outcome' = [outcome EXCEPT ![p] = "none"]
  /\ UNCHANGED <<file, serverGen, revoked, replayed, rejected>>

-----------------------------------------------------------------------------
(* The authorization server, as the code describes it.                     *)
Serves(t)   == t.fam \notin revoked /\ t.gen = serverGen[t.fam]
IsReplay(t) == t.fam \notin revoked /\ t.gen < serverGen[t.fam]

Rotate(t) ==
  /\ Serves(t)
  /\ serverGen' = [serverGen EXCEPT ![t.fam] = t.gen + 1]
  /\ UNCHANGED <<revoked, replayed>>

Refuse(t) ==
  /\ ~Serves(t)
  /\ revoked'  = IF IsReplay(t) THEN revoked \cup {t.fam} ELSE revoked
  /\ replayed' = IF IsReplay(t) THEN replayed \cup {t.fam} ELSE replayed
  /\ UNCHANGED serverGen

Answer(p) ==
  /\ wire[p] = "sent"
  /\ \/ /\ Rotate(TokenOf(cred[p]))
        /\ \E r \in {"rotated", "unusable"} : wire' = [wire EXCEPT ![p] = r]
     \/ Refuse(TokenOf(cred[p])) /\ wire' = [wire EXCEPT ![p] = "refused"]
     \/ wire' = [wire EXCEPT ![p] = "failed"] /\ UNCHANGED <<serverGen, revoked, replayed>>
  /\ UNCHANGED <<mutexVars, file, late, callVars, faults, abandoned>>

AnswerLate(r) ==
  /\ r \in late
  /\ late' = late \ {r}
  /\ Rotate(r.tok) \/ Refuse(r.tok)
  /\ UNCHANGED <<mutexVars, file, wire, callVars, faults, abandoned>>

\* In the dashboard, or by 30 idle days.
Revoke(f) ==
  /\ f \notin revoked
  /\ revoked' = revoked \cup {f}
  /\ UNCHANGED <<mutexVars, file, serverGen, late, replayed, wire, callVars,
                 faults, abandoned>>

\* The stored access token comes within SKEW_SECONDS of its expiry.
Expire ==
  /\ SignedIn(file) /\ file.fresh /\ file.gen < MaxGen
  /\ file' = [file EXCEPT !.fresh = FALSE]
  /\ UNCHANGED <<mutexVars, serverVars, wire, callVars, faults, abandoned>>

\* The lock file of a live holder is unlinked: CredentialLock says when.
StealLock ==
  /\ Fault
  /\ ~stolen
  /\ Mutex!Steal
  /\ UNCHANGED <<file, serverVars, wire, callVars, abandoned>>

CallerStep(p) ==
  \/ Read(p) \/ Acquire(p) \/ LockTimesOut(p) \/ Reread(p) \/ Post(p)
  \/ Receive(p) \/ Save(p) \/ Release(p)

RefreshNext ==
  \/ \E p \in Callers :
       \/ Call(p) \/ Refused(p) \/ CallerStep(p)
       \/ SaveFails(p) \/ RequestTimesOut(p) \/ Crash(p) \/ Answer(p)
  \/ \E r \in late : AnswerLate(r)
  \/ Expire
  \/ StealLock

Next == RefreshNext \/ \E f \in Fams : Revoke(f)

Spec == Init /\ [][Next]_vars

(* A running caller keeps executing, and the server answers or the         *)
(* connection breaks.  Nobody has to call, expire, crash or revoke.        *)
Fairness == \A p \in Callers : WF_vars(CallerStep(p)) /\ WF_vars(Answer(p))

FairSpec == Spec /\ Fairness

==============================================================================
