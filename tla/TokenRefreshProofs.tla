-------------------------- MODULE TokenRefreshProofs --------------------------
(***************************************************************************)
(* RefreshInv is inductive, for any set of callers and any bounds: one     *)
(* lemma per action, one step per conjunct.  Two of them carry the weight: *)
(* Save (nobody else holds an unsaved generation, so the file only moves   *)
(* forward) and Answer (what arrives is the current generation, so it is   *)
(* never taken for a replay).  The properties of TokenRefreshProps follow. *)
(***************************************************************************)
EXTENDS TokenRefreshInv, TLAPS

LEMMA SignedInTyped ==
  ASSUME NEW c \in Credentials, c.fam \in Fams
  PROVE  SignedIn(c) /\ TokenOf(c) \in Token
  BY RefreshAssumption DEF Credentials, SignedIn, Fams, Token, TokenOf

LEMMA TokenTyped ==
  ASSUME NEW c \in Credentials, c.fam \in Fams
  PROVE  /\ TokenOf(c) \in Token /\ TokenOf(c).fam = c.fam
         /\ TokenOf(c).gen = c.gen /\ c.gen \in Nat
  BY DEF Credentials, TokenOf, Token

LEMMA RotatedTyped ==
  ASSUME NEW c \in Credentials
  PROVE  /\ Rotated(c) \in Credentials
         /\ Rotated(c).fam = c.fam
         /\ Rotated(c).gen = c.gen + 1
  BY DEF Credentials, Rotated

LEMMA RefreshInit == Init => RefreshInv
<1> SUFFICES ASSUME Init PROVE RefreshInv
  OBVIOUS
<1> USE DEF Init, Quiet
<1>1. /\ file \in Credentials /\ file.fam \in Fams /\ file.gen = 0
      /\ serverGen[file.fam] = 0
  BY RefreshAssumption DEF Credentials, Fams
<1>2. TypeOK
  BY <1>1 DEF TypeOK, Mutex!MInit, Outcomes, Fams
<1>3. FamInv /\ WireInv /\ RefusedInv /\ StaleInv /\ NoReplay
  BY <1>1 DEF FamInv, WireInv, RefusedInv, StaleInv, NoReplay, InHand
<1>4. GenInv /\ CurrentInv
  BY <1>1 DEF GenInv, CurrentInv, Pending
<1>5. HoldInv
  BY DEF HoldInv, Mutex!MInit, InLock
<1> QED
  BY <1>2, <1>3, <1>4, <1>5 DEF RefreshInv

LEMMA CallStep ==
  ASSUME RefreshInv, NEW p \in Callers, Call(p)
  PROVE  RefreshInv'
<1> USE DEF RefreshInv, mutexVars, serverVars, callVars, Goto
<1>1. TypeOK'
  BY DEF Call, TypeOK, InLock, Outcomes
<1>2. FamInv'
  BY DEF Call, TypeOK, FamInv, InHand
<1>3. WireInv'
  BY DEF Call, TypeOK, WireInv
<1>4. GenInv'
  BY DEF Call, TypeOK, FamInv, WireInv, GenInv, Pending, NewGen
<1>5. HoldInv'
  BY DEF Call, TypeOK, HoldInv, InLock
<1>6. StaleInv'
  BY DEF Call, TypeOK, StaleInv, TokenOf
<1>7. CurrentInv'
  BY DEF Call, TypeOK, WireInv, CurrentInv, Pending
<1>8. RefusedInv'
  BY DEF Call, TypeOK, RefusedInv
<1>9. NoReplay'
  BY DEF Call, NoReplay
<1> QED
  BY <1>1, <1>2, <1>3, <1>4, <1>5, <1>6, <1>7, <1>8, <1>9

LEMMA RefusedStep ==
  ASSUME RefreshInv, NEW p \in Callers, Refused(p)
  PROVE  RefreshInv'
<1> USE DEF RefreshInv, mutexVars, serverVars, callVars, Goto
<1>1. TypeOK'
  BY DEF Refused, TypeOK, InLock, Outcomes
<1>2. FamInv'
  BY DEF Refused, TypeOK, FamInv, InHand
<1>3. WireInv'
  BY DEF Refused, TypeOK, WireInv
<1>4. GenInv'
  BY DEF Refused, TypeOK, FamInv, WireInv, GenInv, Pending, NewGen
<1>5. HoldInv'
  BY DEF Refused, TypeOK, HoldInv, InLock
<1>6. StaleInv'
  BY DEF Refused, TypeOK, StaleInv, TokenOf
<1>7. CurrentInv'
  BY DEF Refused, TypeOK, WireInv, CurrentInv, Pending
<1>8. RefusedInv'
  BY DEF Refused, TypeOK, RefusedInv
<1>9. NoReplay'
  BY DEF Refused, NoReplay
<1> QED
  BY <1>1, <1>2, <1>3, <1>4, <1>5, <1>6, <1>7, <1>8, <1>9

LEMMA ReadStep ==
  ASSUME RefreshInv, NEW p \in Callers, Read(p)
  PROVE  RefreshInv'
<1> USE DEF RefreshInv, mutexVars, serverVars, callVars, Goto
<1>0. /\ SignedIn(file) /\ file \in Credentials /\ file.gen \in Nat
      /\ TokenOf(file) \in Token /\ TokenOf(file).fam = file.fam
      /\ TokenOf(file).gen = file.gen
  BY SignedInTyped, TokenTyped DEF FamInv
<1>1. TypeOK'
  BY <1>0 DEF Read, Raise, Return, Silent, TypeOK, InLock, Outcomes
<1>2. FamInv'
  BY <1>0 DEF Read, Raise, Return, Silent, TypeOK, FamInv, InHand
<1>3. WireInv'
  BY DEF Read, Raise, Return, Silent, TypeOK, WireInv
<1>4. GenInv'
  BY DEF Read, Raise, Return, Silent, TypeOK, FamInv, WireInv, GenInv, Pending,
         NewGen
<1>5. HoldInv'
  BY DEF Read, Raise, Return, Silent, TypeOK, HoldInv, InLock
<1>6. StaleInv'
  BY DEF Read, Raise, Return, Silent, TypeOK, StaleInv, TokenOf
<1>7. CurrentInv'
  BY DEF Read, Raise, Return, Silent, TypeOK, WireInv, CurrentInv, Pending
<1>8. RefusedInv'
  BY <1>0 DEF Read, Raise, Return, Silent, TypeOK, RefusedInv
<1>9. NoReplay'
  BY DEF Read, Raise, Return, Silent, NoReplay
<1> QED
  BY <1>1, <1>2, <1>3, <1>4, <1>5, <1>6, <1>7, <1>8, <1>9

LEMMA AcquireStep ==
  ASSUME RefreshInv, NEW p \in Callers, Acquire(p)
  PROVE  RefreshInv'
<1> USE DEF RefreshInv, mutexVars, serverVars, callVars, Goto
<1>1. TypeOK'
  BY RefreshAssumption DEF Acquire, Mutex!Enter, Mutex!Admits, TypeOK, InLock,
         Outcomes
<1>2. FamInv'
  BY DEF Acquire, Mutex!Enter, Mutex!Admits, TypeOK, FamInv, InHand
<1>3. WireInv'
  BY DEF Acquire, Mutex!Enter, Mutex!Admits, TypeOK, WireInv
<1>4. GenInv'
  BY DEF Acquire, Mutex!Enter, Mutex!Admits, TypeOK, FamInv, WireInv, GenInv,
         Pending, NewGen
<1>5. HoldInv'
  BY DEF Acquire, Mutex!Enter, Mutex!Admits, TypeOK, HoldInv, InLock
<1>6. StaleInv'
  BY DEF Acquire, Mutex!Enter, Mutex!Admits, TypeOK, StaleInv, TokenOf
<1>7. CurrentInv'
  BY DEF Acquire, Mutex!Enter, Mutex!Admits, TypeOK, WireInv, CurrentInv,
         Pending
<1>8. RefusedInv'
  BY DEF Acquire, Mutex!Enter, Mutex!Admits, TypeOK, RefusedInv
<1>9. NoReplay'
  BY DEF Acquire, Mutex!Enter, Mutex!Admits, NoReplay
<1> QED
  BY <1>1, <1>2, <1>3, <1>4, <1>5, <1>6, <1>7, <1>8, <1>9

LEMMA LockTimesOutStep ==
  ASSUME RefreshInv, NEW p \in Callers, LockTimesOut(p)
  PROVE  RefreshInv'
<1> USE DEF RefreshInv, mutexVars, serverVars, callVars, Goto
<1>1. TypeOK'
  BY DEF LockTimesOut, Raise, TypeOK, InLock, Outcomes
<1>2. FamInv'
  BY DEF LockTimesOut, Raise, TypeOK, FamInv, InHand
<1>3. WireInv'
  BY DEF LockTimesOut, Raise, TypeOK, WireInv
<1>4. GenInv'
  BY DEF LockTimesOut, Raise, TypeOK, FamInv, WireInv, GenInv, Pending, NewGen
<1>5. HoldInv'
  BY DEF LockTimesOut, Raise, TypeOK, HoldInv, InLock
<1>6. StaleInv'
  BY DEF LockTimesOut, Raise, TypeOK, StaleInv, TokenOf
<1>7. CurrentInv'
  BY DEF LockTimesOut, Raise, TypeOK, WireInv, CurrentInv, Pending
<1>8. RefusedInv'
  BY DEF LockTimesOut, Raise, TypeOK, RefusedInv
<1>9. NoReplay'
  BY DEF LockTimesOut, Raise, NoReplay
<1> QED
  BY <1>1, <1>2, <1>3, <1>4, <1>5, <1>6, <1>7, <1>8, <1>9

LEMMA RereadStep ==
  ASSUME RefreshInv, NEW p \in Callers, Reread(p)
  PROVE  RefreshInv'
<1> USE DEF RefreshInv, mutexVars, serverVars, callVars, Goto
<1>0. /\ SignedIn(file) /\ file \in Credentials /\ file.gen \in Nat
      /\ TokenOf(file) \in Token /\ TokenOf(file).fam = file.fam
      /\ TokenOf(file).gen = file.gen
  BY SignedInTyped, TokenTyped DEF FamInv
<1>1. TypeOK'
  BY <1>0 DEF Reread, Raise, Return, Silent, TypeOK, InLock, Outcomes
<1>2. FamInv'
  BY <1>0 DEF Reread, Raise, Return, Silent, TypeOK, FamInv, InHand
<1>3. WireInv'
  BY DEF Reread, Raise, Return, Silent, TypeOK, WireInv
<1>4. GenInv'
  BY DEF Reread, Raise, Return, Silent, TypeOK, FamInv, WireInv, GenInv,
         Pending, NewGen, Credentials
<1>5. HoldInv'
  BY DEF Reread, Raise, Return, Silent, TypeOK, HoldInv, InLock
<1>6. StaleInv'
  BY DEF Reread, Raise, Return, Silent, TypeOK, StaleInv, TokenOf, HoldInv,
         InLock, MustRefresh
<1>7. CurrentInv'
  BY DEF Reread, Raise, Return, Silent, TypeOK, WireInv, CurrentInv, Pending
<1>8. RefusedInv'
  BY <1>0 DEF Reread, Raise, Return, Silent, TypeOK, RefusedInv
<1>9. NoReplay'
  BY DEF Reread, Raise, Return, Silent, NoReplay
<1> QED
  BY <1>1, <1>2, <1>3, <1>4, <1>5, <1>6, <1>7, <1>8, <1>9

LEMMA PostStep ==
  ASSUME RefreshInv, NEW p \in Callers, Post(p)
  PROVE  RefreshInv'
<1> USE DEF RefreshInv, mutexVars, serverVars, callVars, Goto
<1>1. TypeOK'
  BY DEF Post, Raise, Silent, TypeOK, InLock, Outcomes
<1>2. FamInv'
  BY DEF Post, Raise, Silent, TypeOK, FamInv, InHand
<1>3. WireInv'
  BY DEF Post, Raise, Silent, TypeOK, WireInv
<1>4. GenInv'
  BY DEF Post, Raise, Silent, TypeOK, FamInv, WireInv, GenInv, Pending, NewGen
<1>5. HoldInv'
  BY DEF Post, Raise, Silent, TypeOK, HoldInv, InLock
<1>6. StaleInv'
  BY DEF Post, Raise, Silent, TypeOK, StaleInv, TokenOf
<1>7. CurrentInv'
  BY DEF Post, Raise, Silent, TypeOK, WireInv, CurrentInv, Pending
<1>8. RefusedInv'
  BY DEF Post, Raise, Silent, TypeOK, RefusedInv
<1>9. NoReplay'
  BY DEF Post, Raise, Silent, NoReplay
<1> QED
  BY <1>1, <1>2, <1>3, <1>4, <1>5, <1>6, <1>7, <1>8, <1>9

LEMMA ReceiveStep ==
  ASSUME RefreshInv, NEW p \in Callers, Receive(p)
  PROVE  RefreshInv'
<1> USE DEF RefreshInv, mutexVars, serverVars, callVars, Goto
<1>0. /\ pc[p] = "await" /\ cred[p] \in Credentials /\ cred[p].fam = file.fam
      /\ file.fam \in Fams /\ file.gen \in Nat /\ cred[p].gen \in Nat
  BY DEF Receive, FamInv, InHand, Credentials
<1>a. /\ Rotated(cred[p]) \in Credentials /\ Rotated(cred[p]).fam = cred[p].fam
      /\ Rotated(cred[p]).gen = cred[p].gen + 1
  BY <1>0, RotatedTyped
<1>1. TypeOK'
  BY <1>0, <1>a DEF Receive, Raise, Silent, TypeOK, InLock, Outcomes
<1>2. FamInv'
  BY <1>0, <1>a DEF Receive, Raise, Silent, TypeOK, FamInv, InHand
<1>3. WireInv'
  BY DEF Receive, Raise, Silent, TypeOK, WireInv
<1>4. GenInv'
  <2>1. CASE wire[p] = "rotated"
    BY <1>0, <1>a, <2>1 DEF Receive, Raise, Silent, TypeOK, GenInv, WireInv, FamInv,
                            Pending, NewGen
  <2>2. CASE wire[p] # "rotated"
    BY <1>0, <2>2 DEF Receive, Raise, Silent, TypeOK, GenInv, WireInv, FamInv,
                      Pending, NewGen
  <2> QED
    BY <2>1, <2>2
<1>5. HoldInv'
  BY DEF Receive, Raise, Silent, TypeOK, HoldInv, InLock
<1>6. StaleInv'
  BY DEF Receive, Raise, Silent, TypeOK, StaleInv, TokenOf
<1>7. CurrentInv'
  BY <1>0, <1>a DEF Receive, Raise, Silent, TypeOK, WireInv, CurrentInv, Pending
<1>8. RefusedInv'
  BY DEF Receive, Raise, Silent, TypeOK, RefusedInv
<1>9. NoReplay'
  BY DEF Receive, Raise, Silent, NoReplay
<1> QED
  BY <1>1, <1>2, <1>3, <1>4, <1>5, <1>6, <1>7, <1>8, <1>9

LEMMA SaveStep ==
  ASSUME RefreshInv, NEW p \in Callers, Save(p)
  PROVE  RefreshInv'
<1> USE DEF RefreshInv, mutexVars, serverVars, callVars, Goto
<1>0. /\ pc[p] = "save" /\ cred[p] \in Credentials /\ cred[p].fam = file.fam
      /\ file.fam \in Fams /\ file.gen \in Nat /\ cred[p].gen \in Nat
  BY DEF Save, FamInv, InHand, Credentials
<1>a. /\ TokenOf(cred[p]) \in Token /\ TokenOf(cred[p]).fam = file.fam
      /\ TokenOf(cred[p]).gen = cred[p].gen
  BY <1>0, TokenTyped
<1>b. cred[p].gen = serverGen[file.fam] /\ file.gen < cred[p].gen
  BY <1>0 DEF GenInv, Pending, NewGen
<1>c. \A q \in Callers : q # p => ~Pending(q)
  BY <1>0 DEF GenInv, Pending
<1>1. TypeOK'
  BY <1>0, <1>a, <1>b, <1>c DEF Save, Return, TypeOK, InLock, Outcomes
<1>2. FamInv'
  <2>1. \A q \in Callers : got'[q] # NoToken =>
          got'[q].fam = file'.fam /\ got'[q].gen <= file'.gen
    <3> SUFFICES ASSUME NEW q \in Callers, got'[q] # NoToken
                 PROVE  got'[q].fam = file'.fam /\ got'[q].gen <= file'.gen
      OBVIOUS
    <3>1. CASE q = p
      BY <1>0, <1>a, <3>1 DEF Save, Return, TypeOK
    <3>2. CASE q # p
      <4>1. got'[q] = got[q] /\ got[q] \in Token
        BY <3>2 DEF Save, Return, TypeOK
      <4> QED
        BY <1>0, <1>b, <4>1 DEF Save, FamInv, Token
    <3> QED
      BY <3>1, <3>2
  <2> QED
    BY <1>0, <2>1 DEF Save, Return, TypeOK, FamInv, InHand
<1>3. WireInv'
  BY DEF Save, Return, TypeOK, WireInv
<1>4. GenInv'
  <2>1. file' = cred[p] /\ serverGen' = serverGen /\ late' = late /\ cred' = cred
        /\ \A q \in Callers : wire'[q] = wire[q] /\ (q # p => pc'[q] = pc[q])
        /\ pc'[p] = "release"
    BY DEF Save, TypeOK
  <2>2. \A q \in Callers : ~Pending(q)'
    BY <1>0, <1>c, <2>1 DEF Pending, WireInv
  <2>3. \A q \in Callers : pc'[q] \in {"post", "await"} => cred'[q].gen <= file'.gen
    <3> SUFFICES ASSUME NEW q \in Callers, pc'[q] \in {"post", "await"}
                 PROVE  cred[q].gen <= cred[p].gen
      BY <2>1
    <3>1. pc[q] \in {"post", "await"} /\ cred[q].gen \in Nat /\ cred[q].gen <= file.gen
      BY <2>1 DEF FamInv, GenInv, InHand, Credentials
    <3> QED
      BY <1>0, <1>b, <3>1
  <2>4. \A r \in late' : r.tok.gen <= file'.gen
    <3> SUFFICES ASSUME NEW r \in late
                 PROVE  r.tok.gen <= cred[p].gen
      BY <2>1
    <3>1. r.tok.gen \in Nat /\ r.tok.gen <= file.gen
      BY DEF TypeOK, Token, GenInv
    <3> QED
      BY <1>0, <1>b, <3>1
  <2>5. file'.gen <= serverGen'[file'.fam]
    BY <1>0, <1>b, <2>1
  <2> QED
    BY <2>2, <2>3, <2>4, <2>5 DEF GenInv
<1>5. HoldInv'
  BY DEF Save, Return, TypeOK, HoldInv, InLock
<1>6. StaleInv'
  BY DEF Save, Return, TypeOK, StaleInv, TokenOf, HoldInv, InLock
<1>7. CurrentInv'
  BY <1>0, <1>a, <1>b, <1>c DEF Save, Return, TypeOK, WireInv, CurrentInv,
         Pending
<1>8. RefusedInv'
  BY <1>0, <1>a, <1>b, <1>c DEF Save, Return, TypeOK, RefusedInv
<1>9. NoReplay'
  BY DEF Save, Return, NoReplay
<1> QED
  BY <1>1, <1>2, <1>3, <1>4, <1>5, <1>6, <1>7, <1>8, <1>9

LEMMA SaveFailsStep ==
  ASSUME RefreshInv, NEW p \in Callers, SaveFails(p)
  PROVE  RefreshInv'
<1> USE DEF RefreshInv, mutexVars, serverVars, callVars, Goto
<1>0. pc[p] = "save" /\ cred[p].fam = file.fam /\ file.fam \in Fams
  BY DEF SaveFails, FamInv, InHand
<1>1. TypeOK'
  BY <1>0 DEF SaveFails, Raise, Fault, TypeOK, InLock, Outcomes
<1>2. FamInv'
  BY DEF SaveFails, Raise, Fault, TypeOK, FamInv, InHand
<1>3. WireInv'
  BY DEF SaveFails, Raise, Fault, TypeOK, WireInv
<1>4. GenInv'
  BY DEF SaveFails, Raise, Fault, TypeOK, FamInv, WireInv, GenInv, Pending,
         NewGen
<1>5. HoldInv'
  BY DEF SaveFails, Raise, Fault, TypeOK, HoldInv, InLock
<1>6. StaleInv'
  BY DEF SaveFails, Raise, Fault, TypeOK, StaleInv, TokenOf
<1>7. CurrentInv'
  BY <1>0 DEF SaveFails, Raise, Fault, TypeOK, WireInv, CurrentInv, Pending
<1>8. RefusedInv'
  BY DEF SaveFails, Raise, Fault, TypeOK, RefusedInv
<1>9. NoReplay'
  BY DEF SaveFails, Raise, Fault, NoReplay
<1> QED
  BY <1>1, <1>2, <1>3, <1>4, <1>5, <1>6, <1>7, <1>8, <1>9

LEMMA ReleaseStep ==
  ASSUME RefreshInv, NEW p \in Callers, Release(p)
  PROVE  RefreshInv'
<1> USE DEF RefreshInv, mutexVars, serverVars, callVars, Goto
<1>1. TypeOK'
  BY DEF Release, Mutex!Leave, TypeOK, InLock, Outcomes
<1>2. FamInv'
  BY DEF Release, Mutex!Leave, TypeOK, FamInv, InHand
<1>3. WireInv'
  BY DEF Release, Mutex!Leave, TypeOK, WireInv
<1>4. GenInv'
  BY DEF Release, Mutex!Leave, TypeOK, FamInv, WireInv, GenInv, Pending, NewGen
<1>5. HoldInv'
  BY DEF Release, Mutex!Leave, TypeOK, HoldInv, InLock
<1>6. StaleInv'
  BY DEF Release, Mutex!Leave, TypeOK, StaleInv, TokenOf
<1>7. CurrentInv'
  BY DEF Release, Mutex!Leave, TypeOK, WireInv, CurrentInv, Pending
<1>8. RefusedInv'
  BY DEF Release, Mutex!Leave, TypeOK, RefusedInv
<1>9. NoReplay'
  BY DEF Release, Mutex!Leave, NoReplay
<1> QED
  BY <1>1, <1>2, <1>3, <1>4, <1>5, <1>6, <1>7, <1>8, <1>9

LEMMA RequestTimesOutStep ==
  ASSUME RefreshInv, NEW p \in Callers, RequestTimesOut(p)
  PROVE  RefreshInv'
<1> USE DEF RefreshInv, mutexVars, serverVars, callVars, Goto
<1>0. /\ pc[p] = "await" /\ cred[p] \in Credentials
      /\ cred[p].fam = file.fam /\ file.fam \in Fams
  BY DEF RequestTimesOut, FamInv, InHand
<1>a. /\ Orphaned(p) \subseteq [tok : Token, n : Nat]
      /\ \A r \in Orphaned(p) : r.tok.fam = file.fam /\ r.tok.gen = cred[p].gen
  BY <1>0, TokenTyped DEF Orphaned, TypeOK
<1>1. TypeOK'
  BY <1>0, <1>a DEF RequestTimesOut, Raise, Fault, TypeOK, InLock, Outcomes
<1>2. FamInv'
  BY <1>0, <1>a DEF RequestTimesOut, Raise, Fault, TypeOK, FamInv, InHand
<1>3. WireInv'
  BY DEF RequestTimesOut, Raise, Fault, TypeOK, WireInv
<1>4. GenInv'
  BY <1>0, <1>a DEF RequestTimesOut, Raise, Fault, TypeOK, FamInv, WireInv,
         GenInv, Pending, NewGen
<1>5. HoldInv'
  BY DEF RequestTimesOut, Raise, Fault, TypeOK, HoldInv, InLock
<1>6. StaleInv'
  BY DEF RequestTimesOut, Raise, Fault, TypeOK, StaleInv, TokenOf
<1>7. CurrentInv'
  BY <1>0, <1>a DEF RequestTimesOut, Raise, Fault, TypeOK, WireInv, CurrentInv,
         Pending
<1>8. RefusedInv'
  BY DEF RequestTimesOut, Raise, Fault, TypeOK, RefusedInv
<1>9. NoReplay'
  BY DEF RequestTimesOut, Raise, Fault, NoReplay
<1> QED
  BY <1>1, <1>2, <1>3, <1>4, <1>5, <1>6, <1>7, <1>8, <1>9

LEMMA CrashStep ==
  ASSUME RefreshInv, NEW p \in Callers, Crash(p)
  PROVE  RefreshInv'
<1> USE DEF RefreshInv, mutexVars, serverVars, callVars, Goto
<1>0. /\ pc[p] \in {"await", "save"} => cred[p] \in Credentials /\ cred[p].fam = file.fam
      /\ file.fam \in Fams
  BY DEF FamInv, InHand
<1>a. /\ Orphaned(p) \subseteq [tok : Token, n : Nat]
      /\ \A r \in Orphaned(p) :
           pc[p] = "await" /\ r.tok.fam = file.fam /\ r.tok.gen = cred[p].gen
  BY <1>0, TokenTyped DEF Orphaned, TypeOK, WireInv
<1>b. holders' \in SUBSET Procs /\ stolen' = stolen
  BY DEF Crash, TypeOK, Mutex!Leave
<1>1. TypeOK'
  BY <1>0, <1>a, <1>b DEF Crash, Fault, TypeOK, Outcomes
<1>2. FamInv'
  <2>1. late' = late \cup Orphaned(p) /\ file' = file /\ abandoned \subseteq abandoned'
    BY DEF Crash
  <2>2. pc[p] = "await" => file.fam \in abandoned'
    BY <1>0 DEF Crash
  <2>3. \A r \in late' : r.tok.fam = file'.fam /\ r.tok.fam \in abandoned'
    BY <1>a, <2>1, <2>2 DEF FamInv
  <2>4. \A q \in Callers : pc'[q] \in InHand =>
          cred'[q] \in Credentials /\ cred'[q].fam = file'.fam
    BY DEF Crash, TypeOK, FamInv, InHand
  <2>5. \A q \in Callers : got'[q] # NoToken =>
          got'[q].fam = file'.fam /\ got'[q].gen <= file'.gen
    BY DEF Crash, TypeOK, FamInv
  <2> QED
    BY <2>1, <2>3, <2>4, <2>5 DEF FamInv
<1>3. WireInv'
  BY DEF Crash, Mutex!Leave, Fault, TypeOK, WireInv
<1>4. GenInv'
  BY <1>0, <1>a, <1>b DEF Crash, Mutex!Leave, Fault, TypeOK, FamInv, WireInv,
         GenInv, Pending, NewGen
<1>5. HoldInv'
  BY DEF Crash, Mutex!Leave, Fault, TypeOK, HoldInv, InLock
<1>6. StaleInv'
  BY DEF Crash, Mutex!Leave, Fault, TypeOK, StaleInv, TokenOf
<1>7. CurrentInv'
  BY <1>0, <1>a, <1>b DEF Crash, Mutex!Leave, Fault, TypeOK, WireInv,
         CurrentInv, Pending
<1>8. RefusedInv'
  BY DEF Crash, Mutex!Leave, Fault, TypeOK, RefusedInv
<1>9. NoReplay'
  BY DEF Crash, Mutex!Leave, Fault, NoReplay
<1> QED
  BY <1>1, <1>2, <1>3, <1>4, <1>5, <1>6, <1>7, <1>8, <1>9

LEMMA AnswerStep ==
  ASSUME RefreshInv, NEW p \in Callers, Answer(p)
  PROVE  RefreshInv'
<1> USE DEF RefreshInv, mutexVars, serverVars, callVars, Goto
<1>0. /\ pc[p] = "await" /\ wire[p] = "sent" /\ cred[p] \in Credentials
      /\ cred[p].fam = file.fam /\ file.fam \in Fams
  BY DEF Answer, FamInv, InHand, WireInv
<1>a. /\ TokenOf(cred[p]) \in Token /\ TokenOf(cred[p]).fam = file.fam
      /\ TokenOf(cred[p]).gen = cred[p].gen /\ cred[p].gen \in Nat
  BY <1>0, TokenTyped
<1>b. /\ serverGen' \in [Fams -> Nat]
      /\ revoked' \in SUBSET Fams /\ replayed' \in SUBSET Fams
  BY <1>0, <1>a DEF Answer, TypeOK, Rotate, Refuse
<1>1. TypeOK'
  BY <1>b DEF Answer, TypeOK, Replies
<1>2. FamInv'
  BY DEF Answer, TypeOK, FamInv, InHand
<1>3. WireInv'
  BY DEF Answer, TypeOK, WireInv
<1>4. GenInv'
  <2>0. /\ file.gen \in Nat /\ serverGen[file.fam] \in Nat
        /\ cred[p].gen <= file.gen /\ file.gen <= serverGen[file.fam]
    BY <1>0 DEF TypeOK, FamInv, GenInv, Credentials
  <2>1. CASE UNCHANGED serverGen /\ wire'[p] \notin {"rotated", "unusable"}
    BY <1>0, <2>1 DEF Answer, TypeOK, GenInv, Pending, NewGen
  <2>2. CASE Rotate(TokenOf(cred[p]))
    <3>1. /\ cred[p].gen = serverGen[file.fam] /\ file.gen = serverGen[file.fam]
          /\ serverGen'[file.fam] = cred[p].gen + 1
      BY <1>0, <1>a, <2>0, <2>2 DEF Rotate, Serves, TypeOK
    <3>2. \A q \in Callers : Pending(q)' => q = p
      BY <2>0, <3>1 DEF Answer, TypeOK, GenInv, Pending
    <3> QED
      BY <1>0, <2>0, <3>1, <3>2 DEF Answer, GenInv, NewGen, Pending
  <2> QED
    BY <1>0, <2>1, <2>2 DEF Answer, Refuse, TypeOK
<1>5. HoldInv'
  BY DEF Answer, TypeOK, HoldInv, InLock
<1>6. StaleInv'
  BY DEF Answer, TypeOK, StaleInv, TokenOf
<1>7. CurrentInv'
  BY <1>0, <1>a, <1>b DEF Answer, TypeOK, WireInv, CurrentInv, Pending, Rotate,
         Refuse, Serves, IsReplay
<1>8. RefusedInv'
  <2>1. revoked \subseteq revoked'
    BY DEF Answer, Rotate, Refuse
  <2>2. ASSUME wire'[p] = "refused"
        PROVE  file.fam \in revoked'
    <3>1. Refuse(TokenOf(cred[p]))
      BY <1>0, <2>2 DEF Answer, TypeOK
    <3>2. /\ cred[p].gen <= serverGen[file.fam] /\ serverGen[file.fam] \in Nat
      BY <1>0, <1>a DEF TypeOK, FamInv, GenInv, Credentials
    <3> QED
      BY <1>a, <3>1, <3>2 DEF Refuse, Serves, IsReplay
  <2> QED
    BY <2>1, <2>2 DEF Answer, TypeOK, RefusedInv
<1>9. NoReplay'
  <2>1. CASE replayed' = replayed
    BY <2>1 DEF Answer, NoReplay
  <2>2. CASE replayed' # replayed
    <3>1. IsReplay(TokenOf(cred[p])) /\ replayed' = replayed \cup {file.fam}
      BY <1>a, <2>2 DEF Answer, Rotate, Refuse
    <3>2. ASSUME ~stolen, file.fam \notin abandoned
          PROVE  FALSE
      <4>1. \A q \in Callers : ~Pending(q)
        BY <1>0, <3>2 DEF Pending, WireInv, HoldInv, InLock
      <4>2. serverGen[file.fam] = file.gen
        BY <3>2, <4>1 DEF CurrentInv
      <4>3. file.gen = cred[p].gen
        BY <1>0, <3>2 DEF StaleInv, TokenOf
      <4> QED
        BY <3>1, <1>a, <4>2, <4>3 DEF IsReplay
    <3> QED
      BY <3>1, <3>2 DEF Answer, NoReplay
  <2> QED
    BY <2>1, <2>2
<1> QED
  BY <1>1, <1>2, <1>3, <1>4, <1>5, <1>6, <1>7, <1>8, <1>9

LEMMA AnswerLateStep ==
  ASSUME RefreshInv, NEW r \in late, AnswerLate(r)
  PROVE  RefreshInv'
<1> USE DEF RefreshInv, mutexVars, serverVars, callVars, Goto
<1>0. /\ r.tok \in Token /\ r.tok.gen \in Nat /\ r.tok.fam = file.fam
      /\ file.fam \in Fams /\ file.fam \in abandoned
  BY DEF TypeOK, FamInv, Token
<1>b. /\ serverGen' \in [Fams -> Nat]
      /\ revoked' \in SUBSET Fams /\ replayed' \in SUBSET Fams
  BY <1>0 DEF AnswerLate, TypeOK, Rotate, Refuse
<1>1. TypeOK'
  BY <1>b DEF AnswerLate, TypeOK
<1>2. FamInv'
  BY DEF AnswerLate, TypeOK, FamInv, InHand
<1>3. WireInv'
  BY DEF AnswerLate, TypeOK, WireInv
<1>4. GenInv'
  <2>0. /\ file.gen \in Nat /\ serverGen[file.fam] \in Nat
        /\ r.tok.gen <= file.gen /\ file.gen <= serverGen[file.fam]
    BY <1>0 DEF TypeOK, FamInv, GenInv, Credentials
  <2>1. CASE UNCHANGED serverGen
    BY <2>1 DEF AnswerLate, GenInv, Pending, NewGen
  <2>2. CASE Rotate(r.tok)
    <3>1. file.gen = serverGen[file.fam] /\ serverGen'[file.fam] = file.gen + 1
      BY <1>0, <2>0, <2>2 DEF Rotate, Serves, TypeOK
    <3>2. \A q \in Callers : ~Pending(q)'
      BY <2>0, <3>1 DEF AnswerLate, GenInv, Pending
    <3> QED
      BY <2>0, <3>1, <3>2 DEF AnswerLate, GenInv
  <2> QED
    BY <2>1, <2>2 DEF AnswerLate, Refuse
<1>5. HoldInv'
  BY DEF AnswerLate, TypeOK, HoldInv, InLock
<1>6. StaleInv'
  BY DEF AnswerLate, TypeOK, StaleInv, TokenOf
<1>7. CurrentInv'
  BY <1>0, <1>b DEF AnswerLate, TypeOK, WireInv, CurrentInv, Pending, Rotate,
         Refuse, Serves, IsReplay
<1>8. RefusedInv'
  BY <1>0, <1>b DEF AnswerLate, TypeOK, RefusedInv, Rotate, Refuse, Serves,
         IsReplay
<1>9. NoReplay'
  BY <1>0 DEF AnswerLate, NoReplay, Rotate, Refuse
<1> QED
  BY <1>1, <1>2, <1>3, <1>4, <1>5, <1>6, <1>7, <1>8, <1>9

LEMMA ExpireStep ==
  ASSUME RefreshInv, Expire
  PROVE  RefreshInv'
<1> USE DEF RefreshInv, mutexVars, serverVars, callVars, Goto
<1>0. /\ file' \in Credentials /\ file'.fam = file.fam /\ file'.gen = file.gen
      /\ ~file'.fresh
  BY DEF Expire, FamInv, Credentials
<1>1. TypeOK'
  BY <1>0 DEF Expire, TypeOK
<1>2. FamInv'
  BY <1>0 DEF Expire, TypeOK, FamInv, InHand
<1>3. WireInv'
  BY DEF Expire, TypeOK, WireInv
<1>4. GenInv'
  BY DEF Expire, TypeOK, FamInv, WireInv, GenInv, Pending, NewGen
<1>5. HoldInv'
  BY DEF Expire, TypeOK, HoldInv, InLock
<1>6. StaleInv'
  BY DEF Expire, TypeOK, StaleInv, TokenOf
<1>7. CurrentInv'
  BY DEF Expire, TypeOK, WireInv, CurrentInv, Pending
<1>8. RefusedInv'
  BY DEF Expire, TypeOK, RefusedInv
<1>9. NoReplay'
  BY DEF Expire, NoReplay
<1> QED
  BY <1>1, <1>2, <1>3, <1>4, <1>5, <1>6, <1>7, <1>8, <1>9

LEMMA StealLockStep ==
  ASSUME RefreshInv, StealLock
  PROVE  RefreshInv'
<1> USE DEF RefreshInv, mutexVars, serverVars, callVars, Goto
<1>1. TypeOK'
  BY DEF StealLock, Mutex!Steal, Fault, TypeOK, InLock, Outcomes
<1>2. FamInv'
  BY DEF StealLock, Mutex!Steal, Fault, TypeOK, FamInv, InHand
<1>3. WireInv'
  BY DEF StealLock, Mutex!Steal, Fault, TypeOK, WireInv
<1>4. GenInv'
  BY DEF StealLock, Mutex!Steal, Fault, TypeOK, FamInv, WireInv, GenInv,
         Pending, NewGen
<1>5. HoldInv'
  BY DEF StealLock, Mutex!Steal, Fault, TypeOK, HoldInv, InLock
<1>6. StaleInv'
  BY DEF StealLock, Mutex!Steal, Fault, TypeOK, StaleInv, TokenOf
<1>7. CurrentInv'
  BY DEF StealLock, Mutex!Steal, Fault, TypeOK, WireInv, CurrentInv, Pending
<1>8. RefusedInv'
  BY DEF StealLock, Mutex!Steal, Fault, TypeOK, RefusedInv
<1>9. NoReplay'
  BY DEF StealLock, Mutex!Steal, Fault, NoReplay
<1> QED
  BY <1>1, <1>2, <1>3, <1>4, <1>5, <1>6, <1>7, <1>8, <1>9

LEMMA RevokeStep ==
  ASSUME RefreshInv, NEW f \in Fams, Revoke(f)
  PROVE  RefreshInv'
<1> USE DEF RefreshInv, mutexVars, serverVars, callVars, Goto
<1>1. TypeOK'
  BY DEF Revoke, TypeOK, InLock, Outcomes
<1>2. FamInv'
  BY DEF Revoke, TypeOK, FamInv, InHand
<1>3. WireInv'
  BY DEF Revoke, TypeOK, WireInv
<1>4. GenInv'
  BY DEF Revoke, TypeOK, FamInv, WireInv, GenInv, Pending, NewGen
<1>5. HoldInv'
  BY DEF Revoke, TypeOK, HoldInv, InLock
<1>6. StaleInv'
  BY DEF Revoke, TypeOK, StaleInv, TokenOf
<1>7. CurrentInv'
  BY DEF Revoke, TypeOK, WireInv, CurrentInv, Pending
<1>8. RefusedInv'
  BY DEF Revoke, TypeOK, RefusedInv
<1>9. NoReplay'
  BY DEF Revoke, NoReplay
<1> QED
  BY <1>1, <1>2, <1>3, <1>4, <1>5, <1>6, <1>7, <1>8, <1>9

LEMMA RefreshStutter ==
  ASSUME RefreshInv, UNCHANGED vars
  PROVE  RefreshInv'
  BY DEF vars, RefreshInv, TypeOK, FamInv, WireInv, GenInv, HoldInv, StaleInv,
         CurrentInv, RefusedInv, NoReplay, Pending, NewGen, SignedIn, TokenOf

LEMMA RefreshStep ==
  ASSUME RefreshInv, [Next]_vars
  PROVE  RefreshInv'
<1>1. ASSUME NEW p \in Callers,
             Call(p) \/ Refused(p) \/ CallerStep(p) \/ SaveFails(p)
               \/ RequestTimesOut(p) \/ Crash(p) \/ Answer(p)
      PROVE  RefreshInv'
  BY <1>1, CallStep, RefusedStep, ReadStep, AcquireStep, LockTimesOutStep, RereadStep,
     PostStep, ReceiveStep, SaveStep, ReleaseStep, SaveFailsStep, RequestTimesOutStep,
     CrashStep, AnswerStep DEF CallerStep
<1>2. ASSUME NEW r \in late, AnswerLate(r)
      PROVE  RefreshInv'
  BY <1>2, AnswerLateStep
<1>3. ASSUME NEW f \in Fams, Revoke(f)
      PROVE  RefreshInv'
  BY <1>3, RevokeStep
<1> QED
  BY <1>1, <1>2, <1>3, ExpireStep, StealLockStep, RefreshStutter DEF Next, RefreshNext

(* What carries every theorem below, for any callers and any number of     *)
(* faults: who knows a generation that the file does not hold, what the    *)
(* requests under way present, and when a family may have been revoked.    *)
THEOREM RefreshInvariant == Spec => []RefreshInv
  BY RefreshInit, RefreshStep, PTL DEF Spec

-----------------------------------------------------------------------------
(* Every reachable state is of its type: what the file, the wire and each  *)
(* call of access_token hold is always one of the values TypeOK lists.     *)
THEOREM RefreshTypeCorrect == Spec => []TypeOK
<1>1. RefreshInv => TypeOK
  BY DEF RefreshInv
<1> QED
  BY <1>1, RefreshInvariant, PTL

(* A burned refresh token reaches the server again only through a window   *)
(* the code cannot close, however many processes call access_token and in  *)
(* whatever order their reads, locks, requests and saves interleave.       *)
THEOREM NeverReplayed == Spec => []NoReplay
<1>1. RefreshInv => NoReplay
  BY DEF RefreshInv
<1> QED
  BY <1>1, RefreshInvariant, PTL

(* A refresh under way presents what the file still holds, and that is     *)
(* expired or refused: the second read under the lock is enough.           *)
THEOREM OnlyStaleRotated == Spec => []RotatesOnlyStale
<1>1. RefreshInv => RotatesOnlyStale
  BY SignedInTyped DEF RefreshInv, FamInv, StaleInv, RotatesOnlyStale
<1> QED
  BY <1>1, RefreshInvariant, PTL

(* Whatever token access_token returned, the file holds that generation or *)
(* a later one, from the moment it returned: "Persist before returning".   *)
THEOREM Persisted == Spec => []PersistBeforeUse
<1>1. RefreshInv => PersistBeforeUse
  BY DEF RefreshInv, FamInv, PersistBeforeUse
<1> QED
  BY <1>1, RefreshInvariant, PTL

(* access_token says "log in again" only when the family was revoked, and  *)
(* a replay revokes it only through one of the windows NoReplay names.     *)
THEOREM ReloginEarned == Spec => []ReloginIsEarned
<1>1. RefreshInv => ReloginIsEarned
  BY DEF RefreshInv, RefusedInv, NoReplay, ReloginIsEarned
<1> QED
  BY <1>1, RefreshInvariant, PTL

(* No step of any process takes the stored generation back: only `save`    *)
(* writes one, and it writes one the file has not reached.                 *)
THEOREM OnlyForward == Spec => NeverBackwards
<1>1. ASSUME RefreshInv, [Next]_vars
      PROVE  file.gen <= file'.gen
  <2>1. file.gen \in Nat
    BY <1>1 DEF RefreshInv, FamInv, Credentials
  <2>2. ASSUME NEW p \in Callers, Save(p)
        PROVE  file.gen <= file'.gen
    <3>1. /\ file' = cred[p] /\ cred[p].gen \in Nat
          /\ cred[p].gen = serverGen[file.fam] /\ file.gen < serverGen[file.fam]
      BY <1>1, <2>2 DEF RefreshInv, FamInv, GenInv, Save, InHand, Pending, NewGen,
                        Credentials
    <3> QED
      BY <2>1, <3>1
  <2>3. CASE Expire
    BY <1>1, <2>1, <2>3 DEF RefreshInv, FamInv, Expire, Credentials
  <2>4. CASE UNCHANGED file
    BY <2>1, <2>4
  <2>5. Expire \/ UNCHANGED file \/ \E p \in Callers : Save(p)
    BY <1>1 DEF Next, RefreshNext, CallerStep, vars, mutexVars, serverVars, callVars,
                Call, Refused, Read, Acquire, LockTimesOut, Reread, Post, Receive,
                Release, SaveFails, RequestTimesOut, Crash, Answer, AnswerLate, Revoke,
                StealLock
  <2> QED
    BY <2>2, <2>3, <2>4, <2>5
<1>2. RefreshInv /\ [Next]_vars
        => [SignedIn(file) /\ SignedIn(file)' /\ file'.fam = file.fam
              => file.gen <= file'.gen]_vars
  BY <1>1
<1> QED
  BY <1>2, RefreshInvariant, PTL DEF Spec, NeverBackwards

-----------------------------------------------------------------------------
(* The login of RenewableLogin.  The server is one generation ahead of the *)
(* file at most: it rotates only what the file holds.                      *)
LagInv == serverGen[file.fam] <= file.gen + 1

LEMMA LoginTyped ==
  ASSUME RefreshInv
  PROVE  /\ file.fam \in Fams /\ file.gen \in Nat
         /\ serverGen \in [Fams -> Nat] /\ serverGen[file.fam] \in Nat
         /\ file.gen <= serverGen[file.fam]
         /\ \A p \in Callers : pc[p] \in InHand =>
              /\ cred[p].fam = file.fam /\ cred[p].gen \in Nat
              /\ TokenOf(cred[p]) \in Token /\ TokenOf(cred[p]) # NoToken
              /\ TokenOf(cred[p]).fam = file.fam /\ TokenOf(cred[p]).gen = cred[p].gen
         /\ TokenOf(file) \in Token /\ TokenOf(file) # NoToken /\ TokenOf(file).gen = file.gen
         /\ Given \in [Callers -> Nat \cup {NoToken}]
<1>1. file \in Credentials /\ file.fam \in Fams /\ NoToken \notin Token
  BY RefreshAssumption DEF RefreshInv, FamInv
<1>2. TokenOf(file) \in Token /\ TokenOf(file).gen = file.gen /\ file.gen \in Nat
  BY <1>1, TokenTyped
<1>3. ASSUME NEW p \in Callers, pc[p] \in InHand
      PROVE  /\ cred[p].fam = file.fam /\ cred[p].gen \in Nat /\ TokenOf(cred[p]) \in Token
             /\ TokenOf(cred[p]).fam = file.fam /\ TokenOf(cred[p]).gen = cred[p].gen
  <2>1. cred[p] \in Credentials /\ cred[p].fam = file.fam
    BY <1>3 DEF RefreshInv, FamInv
  <2> QED BY <1>1, <2>1, TokenTyped
<1>4. serverGen \in [Fams -> Nat] /\ file.gen <= serverGen[file.fam]
  BY DEF RefreshInv, TypeOK, GenInv
<1>5. Given \in [Callers -> Nat \cup {NoToken}]
  BY DEF Given, RefreshInv, TypeOK, Token
<1> QED BY <1>1, <1>2, <1>3, <1>4, <1>5

(* What the server rotates is what the file holds.                         *)
LEMMA RotatesStored ==
  ASSUME RefreshInv, NEW t \in Token, t.fam = file.fam, t.gen <= file.gen, Rotate(t)
  PROVE  /\ serverGen[file.fam] = file.gen
         /\ serverGen'[file.fam] = file.gen + 1
         /\ \A q \in Callers : ~Pending(q)
<1>1. t.gen \in Nat /\ t.gen = serverGen[file.fam]
  BY DEF Rotate, Serves, Token
<1>2. serverGen[file.fam] = file.gen
  BY <1>1, LoginTyped
<1>3. serverGen'[file.fam] = file.gen + 1
  BY <1>1, <1>2, LoginTyped DEF Rotate
<1>4. \A q \in Callers : ~Pending(q)
  BY <1>2, LoginTyped DEF RefreshInv, GenInv
<1> QED BY <1>2, <1>3, <1>4

LEMMA StageKept ==
  ASSUME file'.fam = file.fam, file'.gen = file.gen, serverGen' = serverGen,
         \A q \in Callers : Pending(q)' <=> Pending(q)
  PROVE  Stage' = Stage
  BY DEF Stage

LEMMA GivenTo ==
  ASSUME RefreshInv, NEW p \in Callers
  PROVE  /\ got' = [got EXCEPT ![p] = NoToken] => Given' = [Given EXCEPT ![p] = NoToken]
         /\ \A t \in Token : got' = [got EXCEPT ![p] = t] => Given' = [Given EXCEPT ![p] = t.gen]
<1>1. got \in [Callers -> Token \cup {NoToken}]
  BY DEF RefreshInv, TypeOK
<1>2. got' = [got EXCEPT ![p] = NoToken] => Given' = [Given EXCEPT ![p] = NoToken]
  BY <1>1 DEF Given
<1>3. ASSUME NEW t \in Token, got' = [got EXCEPT ![p] = t]
      PROVE  Given' = [Given EXCEPT ![p] = t.gen]
  <2>1. t # NoToken
    BY RefreshAssumption
  <2> QED BY <1>1, <1>3, <2>1 DEF Given
<1> QED BY <1>2, <1>3

\* What a step of the callers, the server or the world is to the login.
Promise == Renewable!LNext \/ UNCHANGED Renewable!lvars

LEMMA GivesOrDrops ==
  ASSUME RefreshInv, Stage' = Stage, file'.gen = file.gen, GivenUp' = GivenUp,
         \/ got' = got
         \/ \E p \in Callers : \/ got' = [got EXCEPT ![p] = NoToken]
                               \/ got' = [got EXCEPT ![p] = TokenOf(file)]
  PROVE  Promise
<1>1. \/ Given' = Given
      \/ \E p \in Callers : \/ Given' = [Given EXCEPT ![p] = NoToken]
                            \/ Given' = [Given EXCEPT ![p] = file.gen]
  <2>1. CASE got' = got
    BY <2>1 DEF Given
  <2>2. ASSUME NEW p \in Callers, got' = [got EXCEPT ![p] = NoToken] \/ got' = [got EXCEPT ![p] = TokenOf(file)]
        PROVE  Given' = [Given EXCEPT ![p] = NoToken] \/ Given' = [Given EXCEPT ![p] = file.gen]
    BY <2>2, GivenTo, LoginTyped
  <2> QED BY <2>1, <2>2
<1> QED BY <1>1 DEF Promise, Renewable!LNext, Renewable!Give, Renewable!Drop, Renewable!lvars

LEMMA MishapOnly ==
  ASSUME RefreshInv, RefreshInv', file' = file, file.fam \in abandoned',
         Stage' \in {Stage, "stranded"},
         got' = got \/ \E p \in Callers : got' = [got EXCEPT ![p] = NoToken]
  PROVE  Promise
<1>1. Given \in [Callers -> Nat \cup {NoToken}]
  BY LoginTyped
<1>2. Given' \in [Callers -> Nat \cup {NoToken}]
  BY DEF Given, RefreshInv, TypeOK, Token
<1>3. \A c \in Callers : Given'[c] \in {Given[c], NoToken}
  <2>1. CASE got' = got
    BY <2>1 DEF Given
  <2>2. ASSUME NEW p \in Callers, got' = [got EXCEPT ![p] = NoToken]
        PROVE  \A c \in Callers : Given'[c] \in {Given[c], NoToken}
    BY <1>1, <2>2, GivenTo
  <2> QED BY <2>1, <2>2
<1>4. GivenUp'
  BY DEF GivenUp
<1> QED BY <1>2, <1>3, <1>4 DEF Promise, Renewable!LNext, Renewable!Mishap

(* Whoever stops before the save leaves the pair in nobody's hand.         *)
LEMMA Strands ==
  ASSUME RefreshInv, file' = file, serverGen' = serverGen, NEW p \in Callers,
         ~Pending(p)', \A q \in Callers \ {p} : Pending(q)' <=> Pending(q)
  PROVE  Stage' \in {Stage, "stranded"}
<1>1. CASE Pending(p)
  <2>1. \A q \in Callers : ~Pending(q)'
    BY <1>1 DEF RefreshInv, GenInv
  <2>2. serverGen[file.fam] # file.gen
    BY <1>1, LoginTyped DEF RefreshInv, GenInv
  <2> QED BY <2>1, <2>2 DEF Stage
<1>2. CASE ~Pending(p)
  BY <1>2, StageKept
<1> QED BY <1>1, <1>2

LEMMA PlainStepPromised ==
  ASSUME RefreshInv, NEW p \in Callers,
         Call(p) \/ Refused(p) \/ Read(p) \/ Acquire(p) \/ LockTimesOut(p) \/ Reread(p)
           \/ Post(p) \/ Release(p)
  PROVE  Promise
<1> USE DEF mutexVars, serverVars, callVars, Goto
<1>1. /\ file' = file /\ serverGen' = serverGen /\ abandoned' = abandoned
      /\ \/ got' = got
         \/ got' = [got EXCEPT ![p] = NoToken]
         \/ got' = [got EXCEPT ![p] = TokenOf(file)]
  BY DEF Call, Refused, Read, Acquire, LockTimesOut, Reread, Post, Release, Return, Raise, Silent
<1>2. \A q \in Callers : Pending(q)' <=> Pending(q)
  BY DEF Call, Refused, Read, Acquire, LockTimesOut, Reread, Post, Release, Pending, RefreshInv,
         TypeOK, WireInv
<1>3. Stage' = Stage
  BY <1>1, <1>2, StageKept
<1> QED BY <1>1, <1>3, GivesOrDrops DEF GivenUp

LEMMA ReceivePromised ==
  ASSUME RefreshInv, RefreshInv', NEW p \in Callers, Receive(p)
  PROVE  Promise
<1> USE DEF mutexVars, serverVars, Goto
<1>1. /\ file' = file /\ serverGen' = serverGen /\ got' = got /\ pc[p] = "await"
      /\ \A q \in Callers \ {p} : Pending(q)' <=> Pending(q)
  BY DEF Receive, Raise, Silent, Pending, RefreshInv, TypeOK
<1>2. CASE wire[p] = "unusable"
  <2>1. ~Pending(p)' /\ file.fam \in abandoned'
    BY <1>1, <1>2, LoginTyped DEF Receive, Pending, RefreshInv, TypeOK, InHand
  <2> QED BY <1>1, <2>1, Strands, MishapOnly
<1>3. CASE wire[p] # "unusable"
  <2>1. (Pending(p)' <=> Pending(p)) /\ abandoned' = abandoned
    BY <1>1, <1>3 DEF Receive, Pending, RefreshInv, TypeOK
  <2>2. Stage' = Stage
    BY <1>1, <2>1, StageKept
  <2> QED BY <1>1, <2>1, <2>2, GivesOrDrops DEF GivenUp
<1> QED BY <1>2, <1>3

LEMMA SavePromised ==
  ASSUME RefreshInv, RefreshInv', LagInv, NEW p \in Callers, Save(p)
  PROVE  Promise
<1>1. /\ pc[p] = "save" /\ file' = cred[p] /\ got' = [got EXCEPT ![p] = TokenOf(cred[p])]
      /\ abandoned' = abandoned /\ serverGen' = serverGen
  BY DEF Save, Return, serverVars
<1>2. /\ Pending(p) /\ cred[p].gen = serverGen[file.fam] /\ cred[p].fam = file.fam
      /\ file.gen < serverGen[file.fam] /\ TokenOf(cred[p]) \in Token
      /\ TokenOf(cred[p]).gen = cred[p].gen
  BY <1>1, LoginTyped DEF Pending, NewGen, RefreshInv, GenInv, InHand
<1>3. file'.gen = file.gen + 1 /\ GivenUp' = GivenUp
  BY <1>1, <1>2, LoginTyped DEF LagInv, GivenUp
<1>4. Stage = "issued" /\ Stage' = "settled"
  BY <1>1, <1>2, LoginTyped DEF Stage
<1>5. Given' = [Given EXCEPT ![p] = file'.gen]
  <2>1. Given' = [Given EXCEPT ![p] = TokenOf(cred[p]).gen]
    BY <1>1, <1>2, GivenTo
  <2> QED BY <1>1, <1>2, <2>1
<1> QED BY <1>3, <1>4, <1>5 DEF Promise, Renewable!LNext, Renewable!Commit

LEMMA FaultPromised ==
  ASSUME RefreshInv, RefreshInv', NEW p \in Callers, SaveFails(p) \/ RequestTimesOut(p)
  PROVE  Promise
<1> USE DEF mutexVars, serverVars, Goto
<1>1. /\ file' = file /\ serverGen' = serverGen /\ got' = got /\ pc[p] \in {"await", "save"}
      /\ abandoned' = abandoned \cup {cred[p].fam}
      /\ \A q \in Callers \ {p} : Pending(q)' <=> Pending(q)
  BY DEF SaveFails, RequestTimesOut, Raise, Pending, RefreshInv, TypeOK
<1>2. ~Pending(p)'
  BY <1>1 DEF SaveFails, RequestTimesOut, Pending, RefreshInv, TypeOK, WireInv
<1>3. file.fam \in abandoned'
  BY <1>1, LoginTyped DEF InHand
<1> QED BY <1>1, <1>2, <1>3, Strands, MishapOnly

LEMMA CrashPromised ==
  ASSUME RefreshInv, RefreshInv', NEW p \in Callers, Crash(p)
  PROVE  Promise
<1> USE DEF Goto
<1>1. /\ file' = file /\ serverGen' = serverGen /\ got' = [got EXCEPT ![p] = NoToken]
      /\ \A q \in Callers \ {p} : Pending(q)' <=> Pending(q)
  BY DEF Crash, Pending, RefreshInv, TypeOK
<1>2. ~Pending(p)'
  BY DEF Crash, Pending, RefreshInv, TypeOK
<1>3. CASE pc[p] \in {"await", "save"}
  <2>1. file.fam \in abandoned'
    BY <1>3, LoginTyped DEF Crash, InHand
  <2> QED BY <1>1, <1>2, <2>1, Strands, MishapOnly
<1>4. CASE pc[p] \notin {"await", "save"}
  <2>1. abandoned' = abandoned /\ ~Pending(p)
    BY <1>4 DEF Crash, Pending, RefreshInv, WireInv
  <2>2. Stage' = Stage
    BY <1>1, <1>2, <2>1, StageKept
  <2> QED BY <1>1, <2>1, <2>2, GivesOrDrops DEF GivenUp
<1> QED BY <1>3, <1>4

LEMMA AnswerPromised ==
  ASSUME RefreshInv, RefreshInv', NEW p \in Callers, Answer(p)
  PROVE  Promise
<1> USE DEF mutexVars, callVars
<1>1. /\ file' = file /\ got' = got /\ abandoned' = abandoned /\ pc' = pc /\ pc[p] = "await"
      /\ wire[p] = "sent" /\ \A q \in Callers \ {p} : wire'[q] = wire[q]
  BY DEF Answer, RefreshInv, TypeOK, WireInv
<1>2. PICK t \in Token : t = TokenOf(cred[p]) /\ t.fam = file.fam /\ t.gen <= file.gen
  BY <1>1, LoginTyped DEF RefreshInv, GenInv, InHand
<1>3. CASE Rotate(t) /\ wire'[p] \in {"rotated", "unusable"}
  <2>1. /\ serverGen[file.fam] = file.gen /\ serverGen'[file.fam] = file.gen + 1
    BY <1>2, <1>3, RotatesStored
  <2>2. Pending(p)'
    BY <1>3 DEF Pending
  <2>3. Stage = "settled" /\ Stage' = "issued"
    BY <1>1, <2>1, <2>2, LoginTyped DEF Stage
  <2>4. Given' = Given /\ GivenUp' = GivenUp /\ file'.gen = file.gen
    BY <1>1 DEF Given, GivenUp
  <2> QED BY <2>3, <2>4 DEF Promise, Renewable!LNext, Renewable!Issue
<1>4. CASE UNCHANGED serverGen /\ wire'[p] \in {"refused", "failed"}
  <2>1. \A q \in Callers : Pending(q)' <=> Pending(q)
    BY <1>1, <1>4 DEF Pending
  <2>2. Stage' = Stage
    BY <1>1, <1>4, <2>1, StageKept
  <2> QED BY <1>1, <2>2, GivesOrDrops DEF GivenUp
<1>5. \/ Rotate(t) /\ wire'[p] \in {"rotated", "unusable"}
      \/ UNCHANGED serverGen /\ wire'[p] \in {"refused", "failed"}
  BY <1>1, <1>2 DEF Answer, Refuse, RefreshInv, TypeOK
<1> QED BY <1>3, <1>4, <1>5

LEMMA AnswerLatePromised ==
  ASSUME RefreshInv, RefreshInv', NEW r \in late, AnswerLate(r)
  PROVE  Promise
<1> USE DEF mutexVars, callVars
<1>1. /\ file' = file /\ got' = got /\ abandoned' = abandoned
      /\ \A q \in Callers : Pending(q)' <=> Pending(q)
  BY DEF AnswerLate, Pending
<1>2. r.tok \in Token /\ r.tok.fam = file.fam /\ r.tok.gen <= file.gen /\ file.fam \in abandoned
  BY DEF RefreshInv, TypeOK, FamInv, GenInv
<1>3. CASE Rotate(r.tok)
  <2>1. /\ serverGen'[file.fam] = file.gen + 1 /\ \A q \in Callers : ~Pending(q)
    BY <1>2, <1>3, RotatesStored
  <2>2. Stage' = "stranded"
    BY <1>1, <2>1, LoginTyped DEF Stage
  <2> QED BY <1>1, <1>2, <2>2, MishapOnly
<1>4. CASE Refuse(r.tok)
  <2>1. Stage' = Stage
    BY <1>1, <1>4, StageKept DEF Refuse
  <2> QED BY <1>1, <2>1, GivesOrDrops DEF GivenUp
<1> QED BY <1>3, <1>4 DEF AnswerLate

LEMMA OthersPromised ==
  ASSUME RefreshInv, Expire \/ StealLock \/ (\E f \in Fams : Revoke(f)) \/ UNCHANGED vars
  PROVE  Promise
<1> USE DEF mutexVars, serverVars, callVars, vars
<1>1. /\ file'.fam = file.fam /\ file'.gen = file.gen /\ serverGen' = serverGen /\ got' = got
      /\ abandoned' = abandoned /\ \A q \in Callers : Pending(q)' <=> Pending(q)
  BY DEF Expire, StealLock, Revoke, Pending, RefreshInv, FamInv, Credentials
<1>2. Stage' = Stage
  BY <1>1, StageKept
<1>3. Given' = Given /\ GivenUp' = GivenUp
  BY <1>1 DEF Given, GivenUp
<1> QED BY <1>1, <1>2, <1>3 DEF Promise, Renewable!lvars

LEMMA LagStep ==
  ASSUME RefreshInv, RefreshInv', LagInv, [Next]_vars
  PROVE  LagInv'
<1> USE DEF mutexVars, serverVars, callVars, vars
<1>1. CASE serverGen' = serverGen /\ file'.fam = file.fam /\ file'.gen = file.gen
  BY <1>1 DEF LagInv
<1>2. ASSUME NEW p \in Callers, Save(p)
      PROVE  LagInv'
  <2>1. file' = cred[p] /\ pc[p] = "save" /\ serverGen' = serverGen
    BY <1>2 DEF Save
  <2>2. cred[p].gen = serverGen[file.fam] /\ cred[p].fam = file.fam
    BY <2>1, LoginTyped DEF Pending, NewGen, RefreshInv, GenInv, InHand
  <2> QED BY <2>1, <2>2, LoginTyped DEF LagInv
<1>3. ASSUME NEW t \in Token, t.fam = file.fam, t.gen <= file.gen, Rotate(t), file' = file
      PROVE  LagInv'
  BY <1>3, RotatesStored, LoginTyped DEF LagInv
<1>4. ASSUME NEW p \in Callers, Answer(p)
      PROVE  LagInv'
  <2>1. PICK t \in Token : t = TokenOf(cred[p]) /\ t.fam = file.fam /\ t.gen <= file.gen
    BY <1>4, LoginTyped DEF Answer, RefreshInv, GenInv, WireInv, InHand
  <2>2. file' = file /\ (Rotate(t) \/ serverGen' = serverGen)
    BY <1>4, <2>1 DEF Answer, Refuse
  <2> QED BY <1>1, <1>3, <2>1, <2>2
<1>5. ASSUME NEW r \in late, AnswerLate(r)
      PROVE  LagInv'
  <2>1. r.tok \in Token /\ r.tok.fam = file.fam /\ r.tok.gen <= file.gen
    BY DEF RefreshInv, TypeOK, FamInv, GenInv
  <2>2. file' = file /\ (Rotate(r.tok) \/ serverGen' = serverGen)
    BY <1>5 DEF AnswerLate, Refuse
  <2> QED BY <1>1, <1>3, <2>1, <2>2
<1>6. CASE Expire
  BY <1>1, <1>6 DEF Expire, RefreshInv, FamInv, Credentials
<1>7. \/ serverGen' = serverGen /\ file' = file
      \/ Expire \/ (\E r \in late : AnswerLate(r))
      \/ \E p \in Callers : Save(p) \/ Answer(p)
  BY DEF Next, RefreshNext, CallerStep, Call, Refused, Read, Acquire, LockTimesOut, Reread, Post,
         Receive, Release, SaveFails, RequestTimesOut, Crash, Revoke, StealLock
<1> QED BY <1>1, <1>2, <1>4, <1>5, <1>6, <1>7

LEMMA PromiseStep ==
  ASSUME RefreshInv, RefreshInv', LagInv, [Next]_vars
  PROVE  Promise
<1>1. ASSUME NEW p \in Callers,
             \/ Call(p) \/ Refused(p) \/ CallerStep(p)
             \/ SaveFails(p) \/ RequestTimesOut(p) \/ Crash(p) \/ Answer(p)
      PROVE  Promise
  BY <1>1, PlainStepPromised, ReceivePromised, SavePromised, FaultPromised, CrashPromised,
     AnswerPromised DEF CallerStep
<1>2. ASSUME NEW r \in late, AnswerLate(r)
      PROVE  Promise
  BY <1>2, AnswerLatePromised
<1> QED BY <1>1, <1>2, OthersPromised DEF Next, RefreshNext

(* The whole of access_token, with its two reads, its lock, its server and *)
(* everything that can go wrong, implements RenewableLogin.                *)
THEOREM PromiseKept == Spec => Promised
<1>1. Init => Renewable!LInit /\ LagInv
  <2> SUFFICES ASSUME Init
               PROVE  Renewable!LInit /\ LagInv
    OBVIOUS
  <2>1. file.gen = 0 /\ serverGen[file.fam] = 0 /\ abandoned = {}
    BY DEF Init, Quiet
  <2>2. Given = [c \in Callers |-> NoToken]
    BY DEF Init, Quiet, Given
  <2> QED BY <2>1, <2>2 DEF Renewable!LInit, LagInv, Stage, GivenUp
<1>2. RefreshInv /\ RefreshInv' /\ LagInv /\ [Next]_vars => LagInv' /\ [Renewable!LNext]_(Renewable!lvars)
  BY LagStep, PromiseStep DEF Promise
<1> QED BY <1>1, <1>2, RefreshInvariant, PTL DEF Spec, Promised, Renewable!LSpec

==============================================================================
