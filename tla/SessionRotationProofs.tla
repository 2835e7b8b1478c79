------------------------- MODULE SessionRotationProofs -------------------------
(***************************************************************************)
(* RotationInv is inductive on top of SessionInv, for any callers,         *)
(* commands and bounds.  Most steps leave the server's generations alone   *)
(* and put no new token into circulation (SameFile); the others are Save,  *)
(* the server's two answers, and the login that stores a family nobody     *)
(* has ever used (CommandKeeps).                                           *)
(***************************************************************************)
EXTENDS SessionRotation, SessionProofs

(* What SessionInv says of the tokens.                                     *)
LEMMA TokensTyped ==
  ASSUME SessionInv
  PROVE  /\ \A c \in Credentials : TokenOf(c).fam = c.fam /\ TokenOf(c).gen = c.gen /\ c.gen \in Nat
         /\ SignedIn(file) => /\ file \in Credentials /\ file.fam \in Fams /\ file.gen \in Nat
                              /\ TokenOf(file) \in Token
         /\ \A p \in Callers : pc[p] \in Hand =>
              cred[p] \in Credentials /\ cred[p].fam \in Fams /\ cred[p].gen \in Nat
              /\ TokenOf(cred[p]) \in Token
         /\ \A p \in Callers : Pending(p) => pc[p] \in Hand
         /\ \A p \in Callers : wire[p] # "none" => pc[p] = "await"
         /\ \A p \in Callers : got[p] # NoToken => got[p] \in Token
         /\ \A r \in late : r.tok \in Token
         /\ \A t \in Token : t.fam \in Fams /\ t.gen \in Nat
         /\ serverGen \in [Fams -> Nat] /\ \A f \in Fams : serverGen[f] \in Nat
<1>1. SignedIn(file) => file \in Credentials /\ file.fam # 0
  BY DEF SessionInv, Typed, TypeOK, SignedIn
<1>2. \A c \in Credentials : /\ TokenOf(c).fam = c.fam /\ TokenOf(c).gen = c.gen /\ c.gen \in Nat
                             /\ c.fam # 0 => c.fam \in Fams
  BY Bounds DEF Credentials, TokenOf
<1>3. \A p \in Callers : pc[p] \in Hand => cred[p] \in Credentials /\ cred[p].fam # 0
  BY DEF SessionInv, CredInv
<1>4. \A p \in Callers : wire[p] # "none" => pc[p] = "await"
  BY DEF SessionInv, WireInv
<1>5. /\ \A p \in Callers : got[p] # NoToken => got[p] \in Token
      /\ \A r \in late : r.tok \in Token
      /\ serverGen \in [Fams -> Nat]
  BY DEF SessionInv, Typed, TypeOK
<1>6. \A t \in Token : t.fam \in Fams /\ t.gen \in Nat
  BY DEF Token
<1> QED BY <1>1, <1>2, <1>3, <1>4, <1>5, <1>6, TokenTyped DEF Pending, Hand

(* Everything in circulation is a token.                                   *)
LEMMA CirculatingTyped ==
  ASSUME SessionInv
  PROVE  /\ Circulating \subseteq Token
         /\ SignedIn(file) => TokenOf(file) \in Circulating
         /\ \A p \in Callers : pc[p] \in {"post", "await"} => TokenOf(cred[p]) \in Circulating
         /\ \A p \in Callers : got[p] # NoToken => got[p] \in Circulating
         /\ \A r \in late : r.tok \in Circulating
  BY TokensTyped DEF Circulating, Hand

(* Without a stolen lock the caller in hand is alone.                      *)
LEMMA OnlyCaller ==
  ASSUME SessionInv, ~stolen, NEW p \in Callers, pc[p] \in InLock, NEW q \in Callers, q # p
  PROVE  pc[q] \notin InLock /\ ~Pending(q)
  BY DEF SessionInv, HoldInv, WireInv, Pending, InLock

(* What a caller has in hand is of a family that is stored or was.         *)
LEMMA UsedFamily ==
  ASSUME SessionInv, NEW q \in Callers, pc[q] \in Hand, NEW f \in Fams,
         f > issued \/ \E c \in Commands : job[c].at \in SavePlaces /\ job[c].fam = f
  PROVE  cred[q].fam # f
<1>1. cred[q] \in Credentials /\ Known(cred[q])
  BY DEF SessionInv, CredInv
<1>2. cred[q].fam <= issued /\ cred[q].fam \in Nat /\ issued \in Nat /\ f \in Nat
  BY <1>1 DEF Known, Credentials, SessionInv, Typed, Fams
<1>3. \A c \in Commands : job[c].at \in SavePlaces => cred[q].fam # job[c].fam
  BY DEF SessionInv, JobInv, Redeemed
<1> QED BY <1>2, <1>3

(* Steps that leave the server's generations and the stored token alone.   *)
LEMMA SameFile ==
  ASSUME SessionInv, SessionInv', RotationInv,
         UNCHANGED serverGen, abandoned \subseteq abandoned', stolen => stolen',
         UnusedInv', LateInv', NoReplay', Circulating' \subseteq Circulating,
         SignedIn(file)' => SignedIn(file) /\ TokenOf(file)' = TokenOf(file),
         \A q \in Callers : Pending(q)' =>
           Pending(q) /\ cred'[q].fam = cred[q].fam /\ NewGen(q)' = NewGen(q),
         \A q \in Callers : Pending(q) =>
           (Pending(q)' /\ cred'[q].fam = cred[q].fam) \/ cred[q].fam \in abandoned',
         \A q \in Callers : got'[q] # NoToken =>
           got'[q] = got[q] \/ (SignedIn(file) /\ got'[q] = TokenOf(file)),
         \A q \in Callers : ~stolen' /\ (pc'[q] = "post" \/ wire'[q] = "sent") =>
           \/ (pc[q] = "post" \/ wire[q] = "sent") /\ TokenOf(cred'[q]) = TokenOf(cred[q])
           \/ /\ SignedIn(file) /\ TokenOf(cred'[q]) = TokenOf(file)
              /\ \A r \in Callers : ~Pending(r)
  PROVE  RotationInv'
<1>1. PendingInv'
  BY DEF RotationInv, PendingInv
<1>2. BehindInv'
  <2> SUFFICES ASSUME NEW t \in Circulating'
               PROVE  Behind(t)'
    BY DEF BehindInv
  <2>1. Behind(t)
    BY DEF RotationInv, BehindInv
  <2> QED BY <2>1 DEF Behind
<1>3. PresentInv'
  <2> SUFFICES ASSUME NEW q \in Callers, ~stolen', pc'[q] = "post" \/ wire'[q] = "sent"
               PROVE  cred'[q].gen = serverGen[cred'[q].fam] \/ cred'[q].fam \in abandoned
    BY DEF PresentInv
  <2>1. ~stolen
    OBVIOUS
  <2>2. CASE (pc[q] = "post" \/ wire[q] = "sent") /\ TokenOf(cred'[q]) = TokenOf(cred[q])
    <3>1. cred'[q].fam = cred[q].fam /\ cred'[q].gen = cred[q].gen
      BY <2>2 DEF TokenOf
    <3> QED BY <2>1, <2>2, <3>1 DEF RotationInv, PresentInv
  <2>3. CASE /\ SignedIn(file) /\ TokenOf(cred'[q]) = TokenOf(file)
             /\ \A r \in Callers : ~Pending(r)
    <3>1. cred'[q].fam = file.fam /\ cred'[q].gen = file.gen
      BY <2>3 DEF TokenOf
    <3> QED BY <2>1, <2>3, <3>1 DEF RotationInv, StoredIsCurrent
  <2> QED BY <2>2, <2>3
<1>4. StoredIsCurrent'
  <2> SUFFICES ASSUME SignedIn(file)', ~stolen'
               PROVE  \/ file'.gen = serverGen[file'.fam]
                      \/ file'.fam \in abandoned'
                      \/ \E p \in Callers : Pending(p)' /\ cred'[p].fam = file'.fam
    BY DEF StoredIsCurrent
  <2>1. file'.fam = file.fam /\ file'.gen = file.gen /\ SignedIn(file) /\ ~stolen
    BY DEF TokenOf
  <2> QED BY <2>1 DEF RotationInv, StoredIsCurrent
<1>5. PersistBeforeUse'
  <2> SUFFICES ASSUME NEW p \in Callers, got'[p] # NoToken, SignedIn(file)', file'.fam = got'[p].fam
               PROVE  got'[p].gen <= file'.gen
    BY DEF PersistBeforeUse
  <2>1. file'.fam = file.fam /\ file'.gen = file.gen /\ SignedIn(file)
    BY DEF TokenOf
  <2>2. file.gen \in Nat /\ TokenOf(file).gen = file.gen
    BY <2>1, TokensTyped
  <2>3. CASE got'[p] = got[p]
    <3>1. got[p].gen <= file.gen
      BY <2>1, <2>3 DEF RotationInv, PersistBeforeUse
    <3> QED BY <2>1, <2>3, <3>1
  <2>4. CASE got'[p] = TokenOf(file)
    BY <2>1, <2>2, <2>4
  <2> QED BY <2>3, <2>4
<1> QED BY <1>1, <1>2, <1>3, <1>4, <1>5 DEF RotationInv

-----------------------------------------------------------------------------
(* Steps of the callers.  What they leave under way was awaited.           *)
LEMMA CallerKeeps ==
  ASSUME SessionInv, SessionInv', RotationInv, UNCHANGED sessionVars,
         UNCHANGED <<serverGen, replayed>>, abandoned \subseteq abandoned', stolen => stolen',
         SignedIn(file)' => SignedIn(file) /\ TokenOf(file)' = TokenOf(file),
         \A q \in Callers : Pending(q)' =>
           Pending(q) /\ cred'[q].fam = cred[q].fam /\ NewGen(q)' = NewGen(q),
         \A q \in Callers : Pending(q) =>
           (Pending(q)' /\ cred'[q].fam = cred[q].fam) \/ cred[q].fam \in abandoned',
         \A q \in Callers : got'[q] # NoToken =>
           got'[q] = got[q] \/ (SignedIn(file) /\ got'[q] = TokenOf(file)),
         \A q \in Callers : pc'[q] \in {"post", "await"} =>
           \/ pc[q] \in {"post", "await"} /\ TokenOf(cred'[q]) = TokenOf(cred[q])
              /\ (pc'[q] = "post" \/ wire'[q] = "sent" => pc[q] = "post" \/ wire[q] = "sent")
           \/ /\ SignedIn(file) /\ TokenOf(cred'[q]) = TokenOf(file)
              /\ ~stolen' => \A r \in Callers : ~Pending(r),
         \A r \in late' : r \in late \/ \E q \in Callers :
           pc[q] = "await" /\ r.tok = TokenOf(cred[q]) /\ cred[q].fam \in abandoned'
  PROVE  RotationInv'
<1>1. LateInv'
  <2> SUFFICES ASSUME NEW r \in late'
               PROVE  r.tok.fam \in abandoned'
    BY DEF LateInv
  <2>1. CASE r \in late
    BY <2>1 DEF RotationInv, LateInv
  <2>2. ASSUME NEW q \in Callers, r.tok = TokenOf(cred[q]), cred[q].fam \in abandoned'
        PROVE  r.tok.fam \in abandoned'
    BY <2>2 DEF TokenOf
  <2> QED BY <2>1, <2>2
<1>2. UnusedInv'
  <2>1. issued' = issued /\ job' = job
    BY DEF sessionVars
  <2>2. ASSUME NEW q \in Callers, pc[q] = "await", NEW f \in Fams,
               f > issued \/ \E c \in Commands : job[c].at \in SavePlaces /\ job[c].fam = f
        PROVE  TokenOf(cred[q]).fam # f
    BY <2>2, UsedFamily DEF TokenOf, Hand
  <2>3. ASSUME NEW f \in Fams, Unused(f),
               f > issued \/ \E c \in Commands : job[c].at \in SavePlaces /\ job[c].fam = f
        PROVE  Unused(f)'
    BY <2>2, <2>3 DEF Unused
  <2>4. \A c \in Commands : job[c].at \in SavePlaces => job[c].fam \in Fams
    BY Bounds DEF SessionInv, Typed, Jobs, JobInv, Redeemed
  <2> QED BY <2>1, <2>3, <2>4 DEF RotationInv, UnusedInv, SavePlaces
<1>3. Circulating' \subseteq Circulating
  <2> SUFFICES ASSUME NEW t \in Circulating'
               PROVE  t \in Circulating
    OBVIOUS
  <2>1. CASE SignedIn(file)' /\ t = TokenOf(file)'
    BY <2>1, CirculatingTyped
  <2>2. ASSUME NEW q \in Callers, pc'[q] \in {"post", "await"}, t = TokenOf(cred'[q])
        PROVE  t \in Circulating
    BY <2>2, CirculatingTyped
  <2>3. ASSUME NEW q \in Callers, got'[q] # NoToken, t = got'[q]
        PROVE  t \in Circulating
    BY <2>3, CirculatingTyped
  <2>4. ASSUME NEW r \in late', t = r.tok
        PROVE  t \in Circulating
    BY <2>4, CirculatingTyped
  <2> QED BY <2>1, <2>2, <2>3, <2>4 DEF Circulating
<1>4. \A q \in Callers : wire'[q] = "sent" => pc'[q] = "await"
  BY DEF SessionInv, WireInv
<1>5. NoReplay'
  BY DEF RotationInv, NoReplay
<1> QED BY <1>1, <1>2, <1>3, <1>4, <1>5, SameFile

LEMMA CallRotation ==
  ASSUME SessionInv, SessionInv', RotationInv, NEW p \in Callers, Call(p), UNCHANGED sessionVars
  PROVE  RotationInv'
<1> USE DEF mutexVars, serverVars, callVars, Goto
<1>1. Typed /\ WireInv
  BY DEF SessionInv
<1> QED BY <1>1, CallerKeeps DEF Call, Typed, TypeOK, WireInv, Pending, NewGen, SignedIn

LEMMA RefusedRotation ==
  ASSUME SessionInv, SessionInv', RotationInv, NEW p \in Callers, Refused(p), UNCHANGED sessionVars
  PROVE  RotationInv'
<1> USE DEF mutexVars, serverVars, callVars, Goto
<1>1. Typed /\ WireInv
  BY DEF SessionInv
<1> QED BY <1>1, CallerKeeps DEF Refused, Typed, TypeOK, WireInv, Pending, NewGen, SignedIn

LEMMA ReadRotation ==
  ASSUME SessionInv, SessionInv', RotationInv, NEW p \in Callers, Read(p), UNCHANGED sessionVars
  PROVE  RotationInv'
<1> USE DEF mutexVars, serverVars, callVars, Goto
<1>1. Typed /\ WireInv
  BY DEF SessionInv
<1> QED BY <1>1, CallerKeeps DEF Read, Raise, Return, Silent, Typed, TypeOK, WireInv, Pending, NewGen, SignedIn

LEMMA AcquireRotation ==
  ASSUME SessionInv, SessionInv', RotationInv, NEW p \in Callers, Acquire(p), UNCHANGED sessionVars
  PROVE  RotationInv'
<1> USE DEF mutexVars, serverVars, callVars, Goto
<1>1. Typed /\ WireInv
  BY DEF SessionInv
<1> QED BY <1>1, CallerKeeps DEF Acquire, Mutex!Enter, Typed, TypeOK, WireInv, Pending, NewGen, SignedIn

LEMMA LockTimesOutRotation ==
  ASSUME SessionInv, SessionInv', RotationInv, NEW p \in Callers, LockTimesOut(p), UNCHANGED sessionVars
  PROVE  RotationInv'
<1> USE DEF mutexVars, serverVars, callVars, Goto
<1>1. Typed /\ WireInv
  BY DEF SessionInv
<1> QED BY <1>1, CallerKeeps DEF LockTimesOut, Raise, Typed, TypeOK, WireInv, Pending, NewGen, SignedIn

LEMMA PostRotation ==
  ASSUME SessionInv, SessionInv', RotationInv, NEW p \in Callers, Post(p), UNCHANGED sessionVars
  PROVE  RotationInv'
<1> USE DEF mutexVars, serverVars, callVars, Goto
<1>1. Typed /\ WireInv
  BY DEF SessionInv
<1> QED BY <1>1, CallerKeeps DEF Post, Raise, Silent, Typed, TypeOK, WireInv, Pending, NewGen, SignedIn

LEMMA ReleaseRotation ==
  ASSUME SessionInv, SessionInv', RotationInv, NEW p \in Callers, Release(p), UNCHANGED sessionVars
  PROVE  RotationInv'
<1> USE DEF mutexVars, serverVars, callVars, Goto
<1>1. Typed /\ WireInv
  BY DEF SessionInv
<1> QED BY <1>1, CallerKeeps DEF Release, Mutex!Leave, Typed, TypeOK, WireInv, Pending, NewGen, SignedIn

LEMMA SaveFailsRotation ==
  ASSUME SessionInv, SessionInv', RotationInv, NEW p \in Callers, SaveFails(p), UNCHANGED sessionVars
  PROVE  RotationInv'
<1> USE DEF mutexVars, serverVars, callVars, Goto
<1>1. Typed /\ WireInv
  BY DEF SessionInv
<1> QED BY <1>1, CallerKeeps DEF SaveFails, Raise, Fault, Typed, TypeOK, WireInv, Pending, NewGen, SignedIn

LEMMA RequestTimesOutRotation ==
  ASSUME SessionInv, SessionInv', RotationInv, NEW p \in Callers, RequestTimesOut(p), UNCHANGED sessionVars
  PROVE  RotationInv'
<1> USE DEF mutexVars, serverVars, callVars, Goto
<1>1. Typed /\ WireInv
  BY DEF SessionInv
<1> QED BY <1>1, CallerKeeps DEF RequestTimesOut, Raise, Fault, Orphaned, Typed, TypeOK, WireInv, Pending, NewGen, SignedIn

LEMMA CrashRotation ==
  ASSUME SessionInv, SessionInv', RotationInv, NEW p \in Callers, Crash(p), UNCHANGED sessionVars
  PROVE  RotationInv'
<1> USE DEF mutexVars, serverVars, callVars, Goto
<1>1. Typed /\ WireInv
  BY DEF SessionInv
<1> QED BY <1>1, CallerKeeps DEF Crash, Mutex!Leave, Fault, Orphaned, Typed, TypeOK, WireInv, Pending, NewGen, SignedIn

(* The second read takes what is current: nobody else is in the lock.      *)
LEMMA RereadRotation ==
  ASSUME SessionInv, SessionInv', RotationInv, NEW p \in Callers, Reread(p), UNCHANGED sessionVars
  PROVE  RotationInv'
<1> USE DEF mutexVars, serverVars, Goto
<1>1. Typed /\ WireInv
  BY DEF SessionInv
<1>2. ~stolen => \A r \in Callers : ~Pending(r)
  <2>1. pc[p] \in InLock /\ ~Pending(p)
    BY <1>1 DEF Reread, InLock, Pending, WireInv
  <2> QED BY <2>1, OnlyCaller
<1>3. stolen' = stolen
  BY DEF Reread
<1> QED BY <1>1, <1>2, <1>3, CallerKeeps DEF Reread, Raise, Return, Silent, Typed, TypeOK, WireInv,
           Pending, NewGen, SignedIn

(* An answer makes the pair it brings one that is about to be saved.       *)
LEMMA ReceiveRotation ==
  ASSUME SessionInv, SessionInv', RotationInv, NEW p \in Callers, Receive(p), UNCHANGED sessionVars
  PROVE  RotationInv'
<1> USE DEF mutexVars, serverVars, Goto
<1>1. Typed /\ WireInv
  BY DEF SessionInv
<1>2. Rotated(cred[p]).fam = cred[p].fam /\ Rotated(cred[p]).gen = cred[p].gen + 1
  BY DEF Rotated
<1> QED BY <1>1, <1>2, CallerKeeps DEF Receive, Raise, Silent, Typed, TypeOK, WireInv, Pending,
           NewGen, SignedIn

LEMMA ExpireRotation ==
  ASSUME SessionInv, SessionInv', RotationInv, Expire, UNCHANGED sessionVars
  PROVE  RotationInv'
<1> USE DEF mutexVars, serverVars, callVars
<1>1. /\ TokenOf(file)' = TokenOf(file)
      /\ \A q \in Callers : (Pending(q)' <=> Pending(q)) /\ NewGen(q)' = NewGen(q)
  <2>1. file \in Credentials
    BY DEF Expire, SignedIn, SessionInv, Typed, TypeOK
  <2> QED BY <2>1 DEF Expire, Credentials, TokenOf, Pending, NewGen
<1> QED BY <1>1, CallerKeeps DEF Expire

LEMMA StealLockRotation ==
  ASSUME SessionInv, SessionInv', RotationInv, StealLock, UNCHANGED sessionVars
  PROVE  RotationInv'
<1> USE DEF serverVars, callVars
<1>1. \A q \in Callers : (Pending(q)' <=> Pending(q)) /\ NewGen(q)' = NewGen(q)
  BY DEF StealLock, Pending, NewGen
<1> QED BY <1>1, CallerKeeps DEF StealLock, Mutex!Steal, Fault, SignedIn

(* Nobody else knows the generation that is saved, so the file catches up  *)
(* with the server, and with whatever any caller was given.                *)
LEMMA SaveRotation ==
  ASSUME SessionInv, SessionInv', RotationInv, NEW p \in Callers, Save(p), UNCHANGED sessionVars
  PROVE  RotationInv'
<1>1. /\ pc[p] = "save" /\ file' = cred[p] /\ cred' = cred /\ wire' = wire /\ stolen' = stolen
      /\ serverGen' = serverGen /\ late' = late /\ replayed' = replayed /\ abandoned' = abandoned
      /\ \A q \in Callers : /\ pc'[q] = IF q = p THEN "release" ELSE pc[q]
                            /\ got'[q] = IF q = p THEN TokenOf(cred[p]) ELSE got[q]
  BY DEF Save, Goto, Return, mutexVars, serverVars, SessionInv, Typed, TypeOK
<1>2. /\ wire[p] = "none" /\ Pending(p) /\ cred[p] \in Credentials /\ cred[p].fam \in Fams
      /\ TokenOf(cred[p]).fam = cred[p].fam /\ TokenOf(cred[p]).gen = cred[p].gen
  BY <1>1, TokensTyped DEF Pending, Hand
<1>3. cred[p].gen = serverGen[cred[p].fam] /\ cred[p].gen \in Nat
  BY <1>1, <1>2, TokensTyped DEF RotationInv, PendingInv, NewGen, Hand
<1>4. \A q \in Callers : /\ Pending(q)' => Pending(q) /\ q # p /\ NewGen(q)' = NewGen(q)
                         /\ Pending(q) /\ q # p => Pending(q)'
  BY <1>1, <1>2 DEF Pending, NewGen
<1>5. PendingInv'
  BY <1>1, <1>4 DEF RotationInv, PendingInv
<1>6. BehindInv'
  <2> SUFFICES ASSUME NEW t \in Circulating'
               PROVE  Behind(t)'
    BY DEF BehindInv
  <2>1. t \in Circulating \/ t = TokenOf(cred[p])
    BY <1>1 DEF Circulating
  <2>2. CASE t \in Circulating
    <3>1. Behind(t)
      BY <2>2 DEF RotationInv, BehindInv
    <3> QED BY <1>1, <1>4, <3>1 DEF Behind
  <2>3. CASE t = TokenOf(cred[p])
    <3>1. t.fam = cred[p].fam /\ t.gen = cred[p].gen
      BY <1>2, <2>3
    <3> QED BY <1>1, <1>2, <1>3, <1>4, <3>1, TokensTyped DEF Behind, RotationInv, PendingInv
  <2> QED BY <2>1, <2>2, <2>3
<1>7. UnusedInv' /\ LateInv' /\ NoReplay'
  BY <1>1 DEF RotationInv, UnusedInv, Unused, LateInv, NoReplay, sessionVars
<1>8. PresentInv'
  BY <1>1, <1>2 DEF RotationInv, PresentInv
<1>9. StoredIsCurrent'
  BY <1>1, <1>3 DEF StoredIsCurrent
<1>10. PersistBeforeUse'
  <2> SUFFICES ASSUME NEW q \in Callers, got'[q] # NoToken, cred[p].fam = got'[q].fam
               PROVE  got'[q].gen <= cred[p].gen
    BY <1>1 DEF PersistBeforeUse
  <2>1. CASE q = p
    BY <1>1, <1>2, <1>3, <2>1
  <2>2. CASE q # p
    <3>1. got'[q] = got[q] /\ Behind(got[q])
      BY <1>1, <2>2, CirculatingTyped DEF RotationInv, BehindInv
    <3> QED BY <1>3, <3>1 DEF Behind
  <2> QED BY <2>1, <2>2
<1> QED BY <1>5, <1>6, <1>7, <1>8, <1>9, <1>10 DEF RotationInv

-----------------------------------------------------------------------------
(* The server answers.  What it may count as a replay is the token of a    *)
(* family whose answer was given up, or of a stolen lock.                  *)
LEMMA RefuseEarned ==
  ASSUME SessionInv, RotationInv, NEW t \in Token, Refuse(t), UNCHANGED <<abandoned, stolen>>,
         ~stolen => t.gen = serverGen[t.fam] \/ t.fam \in abandoned
  PROVE  NoReplay'
<1>1. serverGen[t.fam] \in Nat
  BY TokensTyped
<1>2. \A f \in replayed' : f \in replayed \/ (f = t.fam /\ t.gen < serverGen[t.fam])
  BY DEF Refuse, IsReplay
<1> QED BY <1>1, <1>2, TokensTyped DEF RotationInv, NoReplay

(* A token is rotated only if no pair of its family is about to be saved;  *)
(* from then on every token in circulation of its family is a burned one.  *)
LEMMA RotateBurns ==
  ASSUME SessionInv, RotationInv, NEW t \in Circulating, Rotate(t),
         Circulating' \subseteq Circulating, cred' = cred, pc' = pc,
         NEW P \in SUBSET Callers, \A q \in P : cred[q].fam = t.fam /\ cred[q].gen = t.gen /\ pc[q] # "save",
         \A q, r \in P : q = r,
         \A q \in Callers : Pending(q)' <=> Pending(q) \/ q \in P
  PROVE  /\ PendingInv' /\ BehindInv'
         /\ \A q \in Callers : Pending(q) => cred[q].fam # t.fam
         /\ t.gen = serverGen[t.fam]
         /\ \A f \in Fams : serverGen'[f] = IF f = t.fam THEN t.gen + 1 ELSE serverGen[f]
<1>1. t \in Token /\ t.fam \in Fams /\ t.gen \in Nat /\ \A f \in Fams : serverGen[f] \in Nat
  BY CirculatingTyped, TokensTyped
<1>2. /\ t.gen = serverGen[t.fam]
      /\ \A f \in Fams : serverGen'[f] = IF f = t.fam THEN t.gen + 1 ELSE serverGen[f]
  BY <1>1, TokensTyped DEF Rotate, Serves
<1>3. \A q \in Callers : Pending(q) => cred[q].fam # t.fam
  <2>1. Behind(t)
    BY DEF RotationInv, BehindInv
  <2> QED BY <1>1, <1>2, <2>1 DEF Behind
<1>4. PendingInv'
  <2>1. \A q \in Callers : NewGen(q)' = NewGen(q)
    BY DEF NewGen
  <2>2. \A q \in Callers : Pending(q) => cred[q].fam \in Fams
    BY TokensTyped
  <2>3. \A q \in P : NewGen(q) = t.gen + 1
    BY DEF NewGen
  <2>4. ASSUME NEW q \in Callers, Pending(q)'
        PROVE  NewGen(q)' = serverGen'[cred'[q].fam]
    BY <1>1, <1>2, <1>3, <2>1, <2>2, <2>3, <2>4 DEF RotationInv, PendingInv
  <2>5. ASSUME NEW q \in Callers, NEW r \in Callers, Pending(q)', Pending(r)', cred[q].fam = cred[r].fam
        PROVE  q = r
    BY <1>3, <2>5 DEF RotationInv, PendingInv
  <2> QED BY <2>4, <2>5 DEF PendingInv
<1>5. BehindInv'
  <2> SUFFICES ASSUME NEW u \in Circulating'
               PROVE  Behind(u)'
    BY DEF BehindInv
  <2>1. Behind(u) /\ u.fam \in Fams /\ u.gen \in Nat
    BY CirculatingTyped, TokensTyped DEF RotationInv, BehindInv
  <2>2. CASE u.fam = t.fam
    <3>1. u.gen <= serverGen[t.fam]
      BY <2>1, <2>2 DEF Behind
    <3>2. u.gen < serverGen'[u.fam]
      BY <1>1, <1>2, <2>1, <2>2, <3>1
    <3>3. serverGen'[u.fam] \in Nat
      BY <1>1, <1>2, <2>2
    <3> QED BY <2>1, <3>2, <3>3 DEF Behind
  <2>3. CASE u.fam # t.fam
    <3>1. \A q \in Callers : Pending(q)' /\ cred'[q].fam = u.fam => Pending(q) /\ cred[q].fam = u.fam
      BY <2>3
    <3>2. serverGen'[u.fam] = serverGen[u.fam]
      BY <1>2, <2>1, <2>3
    <3> QED BY <2>1, <3>1, <3>2 DEF Behind
  <2> QED BY <2>2, <2>3
<1> QED BY <1>2, <1>3, <1>4, <1>5

(* Either way the families nobody has used stay unused.                    *)
LEMMA UnusedStays ==
  ASSUME SessionInv, RotationInv, UNCHANGED sessionVars, NEW t \in Token, late' \subseteq late,
         \A f \in Fams : f # t.fam => serverGen'[f] = serverGen[f],
         ~Unused(t.fam) \/ \E q \in Callers : pc[q] \in Hand /\ cred[q].fam = t.fam
  PROVE  UnusedInv'
<1>1. issued' = issued /\ job' = job
  BY DEF sessionVars
<1>2. ASSUME NEW f \in Fams, f > issued \/ \E c \in Commands : job[c].at \in SavePlaces /\ job[c].fam = f
      PROVE  Unused(f)'
  <2>1. Unused(f)
    BY <1>2 DEF RotationInv, UnusedInv, SavePlaces
  <2>2. f # t.fam
    BY <1>2, <2>1, UsedFamily
  <2> QED BY <2>1, <2>2 DEF Unused
<1>3. \A c \in Commands : job[c].at \in SavePlaces => job[c].fam \in Fams
  BY Bounds DEF SessionInv, Typed, Jobs, JobInv, Redeemed
<1> QED BY <1>1, <1>2, <1>3 DEF UnusedInv, SavePlaces

LEMMA AnswerRotation ==
  ASSUME SessionInv, SessionInv', RotationInv, NEW p \in Callers, Answer(p), UNCHANGED sessionVars
  PROVE  RotationInv'
<1> USE DEF mutexVars, callVars
<1>1. PICK t : t = TokenOf(cred[p])
  OBVIOUS
<1>2. /\ wire[p] = "sent" /\ pc[p] = "await"
      /\ file' = file /\ late' = late /\ pc' = pc /\ cred' = cred /\ got' = got
      /\ abandoned' = abandoned /\ stolen' = stolen
      /\ wire'[p] \in Replies /\ wire' = [wire EXCEPT ![p] = wire'[p]] /\ wire \in [Callers -> {"none", "sent"} \cup Replies]
  BY TokensTyped DEF Answer, Replies, SessionInv, Typed, TypeOK
<1>3. /\ t \in Token /\ t \in Circulating /\ pc[p] \in Hand
      /\ t.fam = cred[p].fam /\ t.gen = cred[p].gen
  BY <1>1, <1>2, TokensTyped, CirculatingTyped DEF Hand
<1>4. \A q \in Callers : wire'[q] = IF q = p THEN wire'[p] ELSE wire[q]
  BY <1>2
<1>5. Circulating' = Circulating
  BY <1>2 DEF Circulating, SignedIn
<1>6. LateInv'
  BY <1>2 DEF RotationInv, LateInv
<1>7. CASE Rotate(t) /\ wire'[p] \in {"rotated", "unusable"}
  <2>1. \A q \in Callers : Pending(q)' <=> Pending(q) \/ q \in {p}
    BY <1>2, <1>4, <1>7 DEF Pending
  <2>2. /\ PendingInv' /\ BehindInv'
        /\ \A f \in Fams : serverGen'[f] = IF f = t.fam THEN t.gen + 1 ELSE serverGen[f]
    <3>1. PICK P \in SUBSET Callers : P = {p}
      OBVIOUS
    <3>2. /\ \A q \in Callers : Pending(q)' <=> Pending(q) \/ q \in P
          /\ \A q \in P : cred[q].fam = t.fam /\ cred[q].gen = t.gen /\ pc[q] # "save"
          /\ \A q, u \in P : q = u
      BY <1>2, <1>3, <2>1, <3>1
    <3> QED BY <1>2, <1>3, <1>5, <1>7, <3>2, RotateBurns
  <2>3. UnusedInv'
    BY <1>2, <1>3, <2>2, UnusedStays
  <2>4. NoReplay'
    BY <1>2, <1>7 DEF RotationInv, NoReplay, Rotate
  <2>5. PresentInv'
    <3>1. ASSUME ~stolen', NEW q \in Callers, pc'[q] = "post" \/ wire'[q] = "sent"
          PROVE  FALSE
      <4>1. q # p
        BY <1>2, <1>7, <3>1
      <4>2. pc[q] = "post" \/ wire[q] = "sent"
        BY <1>2, <1>4, <3>1, <4>1
      <4> QED BY <1>2, <3>1, <4>1, <4>2, OnlyCaller, TokensTyped DEF InLock
    <3> QED BY <3>1 DEF PresentInv
  <2>6. StoredIsCurrent'
    <3> SUFFICES ASSUME SignedIn(file), ~stolen
                 PROVE  \/ file.gen = serverGen'[file.fam] \/ file.fam \in abandoned
                        \/ \E q \in Callers : Pending(q)' /\ cred[q].fam = file.fam
      BY <1>2 DEF StoredIsCurrent, SignedIn
    <3>1. CASE file.fam = t.fam
      BY <1>3, <2>1, <3>1
    <3>2. CASE file.fam # t.fam
      <4>1. serverGen'[file.fam] = serverGen[file.fam]
        BY <2>2, <3>2, TokensTyped
      <4> QED BY <2>1, <4>1 DEF RotationInv, StoredIsCurrent
    <3> QED BY <3>1, <3>2
  <2>7. PersistBeforeUse'
    BY <1>2 DEF RotationInv, PersistBeforeUse, SignedIn
  <2> QED BY <1>6, <2>2, <2>3, <2>4, <2>5, <2>6, <2>7 DEF RotationInv
<1>8. CASE /\ wire'[p] \in {"refused", "failed"} /\ UNCHANGED serverGen
           /\ Refuse(t) \/ UNCHANGED replayed
  <2>1. UnusedInv'
    BY <1>2, <1>3, <1>8, UnusedStays
  <2>2. ~stolen => t.gen = serverGen[t.fam] \/ t.fam \in abandoned
    BY <1>2, <1>3 DEF RotationInv, PresentInv
  <2>3. NoReplay'
    <3>1. CASE Refuse(t)
      BY <1>2, <1>3, <2>2, <3>1, RefuseEarned
    <3>2. CASE UNCHANGED replayed
      BY <1>2, <3>2 DEF RotationInv, NoReplay
    <3> QED BY <1>8, <3>1, <3>2
  <2>4. \A q \in Callers : (Pending(q)' <=> Pending(q)) /\ NewGen(q)' = NewGen(q)
    BY <1>2, <1>4, <1>8 DEF Pending, NewGen
  <2>5. \A q \in Callers : wire'[q] = "sent" => wire[q] = "sent"
    BY <1>2, <1>4, <1>8
  <2>6. SignedIn(file)' => SignedIn(file) /\ TokenOf(file)' = TokenOf(file)
    BY <1>2 DEF SignedIn
  <2> QED BY <1>2, <1>5, <1>6, <1>8, <2>1, <2>3, <2>4, <2>5, <2>6, SameFile
<1>9. wire'[p] \in {"rotated", "unusable", "refused", "failed"}
  BY <1>2 DEF Replies
<1>10. \/ Rotate(t) /\ wire'[p] \in {"rotated", "unusable"}
       \/ /\ wire'[p] \in {"refused", "failed"} /\ UNCHANGED serverGen
          /\ Refuse(t) \/ UNCHANGED replayed
  BY <1>1, <1>2 DEF Answer, Refuse
<1> QED BY <1>7, <1>8, <1>10

LEMMA AnswerLateRotation ==
  ASSUME SessionInv, SessionInv', RotationInv, NEW r \in late, AnswerLate(r), UNCHANGED sessionVars
  PROVE  RotationInv'
<1> USE DEF mutexVars, callVars
<1>1. PICK t : t = r.tok
  OBVIOUS
<1>2. /\ file' = file /\ late' = late \ {r} /\ pc' = pc /\ cred' = cred /\ got' = got
      /\ abandoned' = abandoned /\ stolen' = stolen /\ wire' = wire
  BY DEF AnswerLate
<1>3. /\ t \in Token /\ t \in Circulating /\ ~Unused(t.fam) /\ t.fam \in abandoned
  BY <1>1, TokensTyped, CirculatingTyped DEF Unused, RotationInv, LateInv
<1>4. Circulating' \subseteq Circulating
  BY <1>2 DEF Circulating, SignedIn
<1>5. LateInv'
  BY <1>2 DEF RotationInv, LateInv
<1>6. \A q \in Callers : (Pending(q)' <=> Pending(q)) /\ NewGen(q)' = NewGen(q)
  BY <1>2 DEF Pending, NewGen
<1>7. CASE Rotate(t)
  <2>1. /\ PendingInv' /\ BehindInv'
        /\ \A f \in Fams : serverGen'[f] = IF f = t.fam THEN t.gen + 1 ELSE serverGen[f]
    <3>1. PICK P \in SUBSET Callers : P = {}
      OBVIOUS
    <3>2. /\ \A q \in Callers : Pending(q)' <=> Pending(q) \/ q \in P
          /\ \A q \in P : cred[q].fam = t.fam /\ cred[q].gen = t.gen /\ pc[q] # "save"
          /\ \A q, u \in P : q = u
      BY <1>6, <3>1
    <3> QED BY <1>2, <1>3, <1>4, <1>7, <3>2, RotateBurns
  <2>2. UnusedInv'
    BY <1>2, <1>3, <2>1, UnusedStays
  <2>3. NoReplay'
    BY <1>2, <1>7 DEF RotationInv, NoReplay, Rotate
  <2>4. PresentInv'
    <3> SUFFICES ASSUME ~stolen, NEW q \in Callers, pc[q] = "post" \/ wire[q] = "sent",
                        cred[q].fam # t.fam
                 PROVE  cred[q].gen = serverGen'[cred[q].fam] \/ cred[q].fam \in abandoned
      BY <1>2, <1>3 DEF PresentInv
    <3>1. serverGen'[cred[q].fam] = serverGen[cred[q].fam]
      BY <2>1, TokensTyped DEF Hand
    <3> QED BY <3>1 DEF RotationInv, PresentInv
  <2>5. StoredIsCurrent'
    <3> SUFFICES ASSUME SignedIn(file), ~stolen, file.fam # t.fam
                 PROVE  \/ file.gen = serverGen'[file.fam] \/ file.fam \in abandoned
                        \/ \E q \in Callers : Pending(q)' /\ cred[q].fam = file.fam
      BY <1>2, <1>3 DEF StoredIsCurrent, SignedIn
    <3>1. serverGen'[file.fam] = serverGen[file.fam]
      BY <2>1, TokensTyped
    <3> QED BY <1>6, <3>1 DEF RotationInv, StoredIsCurrent
  <2>6. PersistBeforeUse'
    BY <1>2 DEF RotationInv, PersistBeforeUse, SignedIn
  <2> QED BY <1>5, <2>1, <2>2, <2>3, <2>4, <2>5, <2>6 DEF RotationInv
<1>8. CASE Refuse(t)
  <2>1. UNCHANGED serverGen
    BY <1>8 DEF Refuse
  <2>2. UnusedInv'
    BY <1>2, <1>3, <2>1, UnusedStays
  <2>3. NoReplay'
    BY <1>2, <1>3, <1>8, RefuseEarned
  <2>4. SignedIn(file)' => SignedIn(file) /\ TokenOf(file)' = TokenOf(file)
    BY <1>2 DEF SignedIn
  <2> QED BY <1>2, <1>4, <1>5, <1>6, <2>1, <2>2, <2>3, <2>4, SameFile
<1> QED BY <1>1, <1>7, <1>8 DEF AnswerLate

LEMMA RotationStutter ==
  ASSUME SessionInv, SessionInv', RotationInv, UNCHANGED allVars
  PROVE  RotationInv'
<1> USE DEF allVars, vars
<1>1. \A q \in Callers : (Pending(q)' <=> Pending(q)) /\ NewGen(q)' = NewGen(q)
  BY DEF Pending, NewGen
<1> QED BY <1>1, CallerKeeps DEF SignedIn

LEMMA RotationBegins ==
  ASSUME SessionInit
  PROVE  RotationInv
<1> USE DEF SessionInit, Quiet
<1>1. SessionInv
  BY SessionBegins
<1>2. \A q \in Callers : ~Pending(q)
  BY DEF Pending
<1>3. SignedIn(file) => file.gen = 0
  BY DEF Login, TempOnly, SignedIn
<1>4. BehindInv
  <2> SUFFICES ASSUME NEW t \in Circulating
               PROVE  Behind(t)
    BY DEF BehindInv
  <2>1. SignedIn(file) /\ t = TokenOf(file)
    BY DEF Circulating
  <2>2. t.gen = 0 /\ t.fam \in Fams
    BY <1>1, <1>3, <2>1, TokensTyped DEF TokenOf
  <2> QED BY <1>2, <2>2 DEF Behind
<1>5. UnusedInv
  <2>1. \A c \in Commands : job[c].at = "new"
    BY DEF NewJob
  <2> QED BY <2>1 DEF UnusedInv, Unused
<1>6. StoredIsCurrent
  BY <1>1, <1>3, TokensTyped DEF StoredIsCurrent
<1> QED BY <1>2, <1>4, <1>5, <1>6
        DEF RotationInv, PendingInv, LateInv, PresentInv, PersistBeforeUse, NoReplay

-----------------------------------------------------------------------------
(* Steps of the commands.  They hold no pair and send no refresh; what one *)
(* of them stores anew is a family that no request has named.              *)
LEMMA CommandKeeps ==
  ASSUME SessionInv, SessionInv', RotationInv,
         UNCHANGED <<serverGen, late, replayed, wire, callVars, abandoned, stolen>>,
         issued <= issued',
         \A d \in Commands : job'[d].at \in SavePlaces =>
           (job[d].at \in SavePlaces /\ job'[d].fam = job[d].fam) \/ job'[d].fam > issued,
         SignedIn(file)' =>
           \/ SignedIn(file) /\ TokenOf(file)' = TokenOf(file)
           \/ file'.gen = 0 /\ \E d \in Commands : job[d].at \in SavePlaces /\ job[d].fam = file'.fam
  PROVE  RotationInv'
<1> USE DEF callVars
<1>1. \A q \in Callers : (Pending(q)' <=> Pending(q)) /\ NewGen(q)' = NewGen(q)
  BY DEF Pending, NewGen
<1>2. PendingInv' /\ LateInv' /\ PresentInv' /\ NoReplay'
  BY <1>1 DEF RotationInv, PendingInv, LateInv, PresentInv, NoReplay
<1>3. UnusedInv'
  <2>1. \A f : Unused(f)' <=> Unused(f)
    BY DEF Unused
  <2>2. issued \in Nat /\ issued' \in Nat /\ Fams \subseteq Nat
    BY DEF SessionInv, Typed, Fams
  <2>3. \A f \in Fams : f > issued' => Unused(f)'
    BY <2>1, <2>2 DEF RotationInv, UnusedInv
  <2>4. \A d \in Commands : job'[d].at \in SavePlaces => job'[d].fam \in Fams
    BY Bounds DEF SessionInv, Typed, Jobs, JobInv, Redeemed
  <2>5. ASSUME NEW d \in Commands, job'[d].at \in SavePlaces, NEW f \in Fams, f = job'[d].fam
        PROVE  Unused(f)'
    <3>1. Unused(f)
      BY <2>5 DEF RotationInv, UnusedInv, SavePlaces
    <3> QED BY <2>1, <3>1
  <2> QED BY <2>3, <2>4, <2>5 DEF UnusedInv, SavePlaces, Unused
<1>4. CASE SignedIn(file)' => SignedIn(file) /\ TokenOf(file)' = TokenOf(file)
  <2>1. BehindInv'
    <3> SUFFICES ASSUME NEW t \in Circulating'
                 PROVE  Behind(t)'
      BY DEF BehindInv
    <3>1. t \in Circulating
      BY <1>4 DEF Circulating
    <3>2. Behind(t)
      BY <3>1 DEF RotationInv, BehindInv
    <3> QED BY <1>1, <3>2 DEF Behind
  <2>2. SignedIn(file)' => SignedIn(file) /\ file'.fam = file.fam /\ file'.gen = file.gen
    BY <1>4 DEF TokenOf
  <2>3. StoredIsCurrent'
    BY <1>1, <2>2 DEF RotationInv, StoredIsCurrent
  <2>4. PersistBeforeUse'
    BY <2>2 DEF RotationInv, PersistBeforeUse
  <2> QED BY <1>2, <1>3, <2>1, <2>3, <2>4 DEF RotationInv
<1>5. ASSUME SignedIn(file)', file'.gen = 0,
             NEW d \in Commands, job[d].at \in SavePlaces, job[d].fam = file'.fam
      PROVE  RotationInv'
  <2>1. PICK f \in Fams : f = file'.fam
    BY <1>5, Bounds DEF SessionInv, Typed, Jobs, JobInv, Redeemed
  <2>2. serverGen[f] = 0 /\ \A q \in Callers : Pending(q) => cred[q].fam # f
    BY <1>5, <2>1, TokensTyped, UsedFamily DEF RotationInv, UnusedInv, Unused, SavePlaces
  <2>3. BehindInv'
    <3> SUFFICES ASSUME NEW t \in Circulating'
                 PROVE  Behind(t)'
      BY DEF BehindInv
    <3>1. t \in Circulating \/ t = TokenOf(file')
      BY DEF Circulating
    <3>2. CASE t \in Circulating
      <4>1. Behind(t)
        BY <3>2 DEF RotationInv, BehindInv
      <4> QED BY <1>1, <4>1 DEF Behind
    <3>3. CASE t = TokenOf(file')
      <4>1. t.fam = f /\ t.gen = 0
        BY <1>5, <2>1, <3>3 DEF TokenOf
      <4> QED BY <1>1, <2>2, <4>1 DEF Behind
    <3> QED BY <3>1, <3>2, <3>3
  <2>4. StoredIsCurrent'
    BY <1>5, <2>1, <2>2 DEF StoredIsCurrent
  <2>5. PersistBeforeUse'
    <3> SUFFICES ASSUME NEW q \in Callers, got[q] # NoToken, got[q].fam = f
                 PROVE  got[q].gen <= 0
      BY <1>5, <2>1 DEF PersistBeforeUse
    <3>1. Behind(got[q])
      BY CirculatingTyped DEF RotationInv, BehindInv
    <3> QED BY <2>2, <3>1 DEF Behind
  <2> QED BY <1>2, <1>3, <2>3, <2>4, <2>5 DEF RotationInv
<1> QED BY <1>4, <1>5

(* Whatever a command does to the file, it keeps the token, signs out or   *)
(* saves the login it has just redeemed.                                   *)
LEMMA CommandRotation ==
  ASSUME SessionInv, SessionInv', RotationInv, NEW c \in Commands, CommandStep(c)
  PROVE  RotationInv'
<1> USE DEF KeepCallers, KeepFiles, KeepServer, KeepHistory, serverVars, mutexVars, At, SavePlaces
<1>1. /\ UNCHANGED <<serverGen, late, replayed, wire, callVars, abandoned, stolen>>
      /\ CommandStep(c)
  BY DEF CommandStep, TakeLock, NoLock, Ask, Register, Consent, Redeem, ForgetTemp, SaveCli,
         ScopeRefused, SaveLogin, Abort, CheckHeld, DeleteCli, Delete, RevokeDeleted, Probe, Create,
         Store, Mutex!Enter, Mutex!Leave, callVars
<1>2. job \in [Commands -> Jobs] /\ issued \in Nat
  BY DEF SessionInv, Typed
<1>3. issued <= issued'
  BY <1>2 DEF CommandStep, TakeLock, NoLock, Ask, Register, Consent, Redeem, ForgetTemp, SaveCli,
         ScopeRefused, SaveLogin, Abort, CheckHeld, DeleteCli, Delete, RevokeDeleted, Probe, Create,
         Store
<1>4. \A d \in Commands \ {c} : job'[d] = job[d]
  BY <1>2 DEF CommandStep, TakeLock, NoLock, Ask, Register, Consent, Redeem, ForgetTemp, SaveCli,
         ScopeRefused, SaveLogin, Abort, CheckHeld, DeleteCli, Delete, RevokeDeleted, Probe, Create,
         Store, To, End
<1>5. job'[c].at \in SavePlaces =>
        (job[c].at \in SavePlaces /\ job'[c].fam = job[c].fam) \/ job'[c].fam > issued
  <2> DEFINE Kept5 == job'[c].at \in SavePlaces =>
        (job[c].at \in SavePlaces /\ job'[c].fam = job[c].fam) \/ job'[c].fam > issued
  <2>0. job[c] \in Jobs /\ \A l : To(c, l) => job'[c].at = l /\ job'[c].fam = job[c].fam
    BY <1>2 DEF To, Jobs
  <2>1. End(c) => job'[c].at = "done"
    BY <1>2 DEF End, Over, NewJob, Jobs
  <2>2. TakeLock(c) => Kept5
    BY <2>0 DEF TakeLock, WaitPlaces, Locked
  <2>3. NoLock(c) => Kept5
    BY <2>0, <2>1 DEF NoLock, WaitPlaces
  <2>4. Ask(c) \/ Register(c) \/ Consent(c) => Kept5
    BY <1>2, <2>0 DEF Ask, Register, Consent, Jobs
  <2>5. Redeem(c) => Kept5
    BY <1>2, <2>0 DEF Redeem, Jobs
  <2>6. ForgetTemp(c) \/ SaveCli(c) \/ SaveLogin(c) \/ Abort(c) \/ CheckHeld(c) \/ DeleteCli(c) => Kept5
    BY <2>0, <2>1 DEF ForgetTemp, SaveCli, SaveLogin, Abort, CheckHeld, DeleteCli
  <2>7. ScopeRefused(c) => Kept5
    BY <1>2, <2>1 DEF ScopeRefused, NewJob, Jobs
  <2>8. Delete(c) => Kept5
    BY <1>2, <2>0 DEF Delete, Jobs
  <2>9. RevokeDeleted(c) \/ Probe(c) \/ Store(c) => Kept5
    BY <2>0, <2>1 DEF RevokeDeleted, Probe, Store
  <2>10. Create(c) => Kept5
    BY <1>2, <2>0, <2>1 DEF Create, Jobs
  <2> QED BY <1>1, <2>2, <2>3, <2>4, <2>5, <2>6, <2>7, <2>8, <2>9, <2>10 DEF CommandStep
<1>6. SignedIn(file)' =>
        \/ SignedIn(file) /\ TokenOf(file)' = TokenOf(file)
        \/ file'.gen = 0 /\ \E d \in Commands : job[d].at \in SavePlaces /\ job[d].fam = file'.fam
  <2>1. file' = file \/ ForgetTemp(c) \/ SaveLogin(c) \/ Delete(c) \/ Store(c)
    BY DEF CommandStep, TakeLock, NoLock, Ask, Register, Consent, Redeem, SaveCli,
         ScopeRefused, Abort, CheckHeld, DeleteCli, RevokeDeleted, Probe, Create
  <2>2. CASE file' = file
    BY <2>2 DEF SignedIn
  <2>3. CASE ForgetTemp(c)
    BY <2>3, TokensTyped DEF ForgetTemp, SignedIn, Credentials, TokenOf
  <2>4. CASE SaveLogin(c)
    BY <2>4 DEF SaveLogin, Login
  <2>5. CASE Delete(c) \/ Store(c)
    BY <2>5 DEF Delete, Store, SignedIn, TempOnly
  <2> QED BY <2>1, <2>2, <2>3, <2>4, <2>5
<1> QED BY <1>1, <1>3, <1>4, <1>5, <1>6, CommandKeeps

LEMMA BeginRotation ==
  ASSUME SessionInv, SessionInv', RotationInv, NEW c \in Commands,
         NEW k \in Kinds, NEW b \in Bases, NEW force \in BOOLEAN, Begin(c, k, b, force)
  PROVE  RotationInv'
<1> USE DEF KeepCallers, KeepFiles, KeepServer, KeepHistory, serverVars, mutexVars, SavePlaces
<1>1. job \in [Commands -> Jobs] /\ issued \in Nat
  BY DEF SessionInv, Typed
<1>2. \A d \in Commands : job'[d] = job[d] \/ job'[d].at \notin SavePlaces
  BY <1>1, SessionAssumption DEF Begin, NewJob
<1>3. /\ UNCHANGED <<serverGen, late, replayed, wire, callVars, abandoned, stolen>>
      /\ file' = file /\ issued' = issued
  BY DEF Begin
<1> QED BY <1>1, <1>2, <1>3, CommandKeeps DEF SignedIn

LEMMA DieRotation ==
  ASSUME SessionInv, SessionInv', RotationInv, NEW c \in Commands, Die(c)
  PROVE  RotationInv'
<1> USE DEF KeepCallers, KeepFiles, KeepServer, KeepHistory, serverVars, mutexVars, SavePlaces
<1>1. job \in [Commands -> Jobs] /\ issued \in Nat
  BY DEF SessionInv, Typed
<1>2. \A d \in Commands : job'[d] = job[d] \/ job'[d].at \notin SavePlaces
  BY <1>1 DEF Die, End, Over, NewJob
<1> QED BY <1>1, <1>2, CommandKeeps DEF Die, Mutex!Leave, SignedIn

LEMMA PassDeadlineRotation ==
  ASSUME SessionInv, SessionInv', RotationInv, NEW t \in Temps, PassDeadline(t)
  PROVE  RotationInv'
<1> USE DEF KeepCallers, KeepFiles, KeepHistory, serverVars, mutexVars, SavePlaces
<1>1. issued \in Nat
  BY DEF SessionInv, Typed
<1> QED BY <1>1, CommandKeeps DEF PassDeadline, SignedIn

-----------------------------------------------------------------------------
LEMMA RotationStep ==
  ASSUME SessionInv, RotationInv, [SessionNext]_allVars
  PROVE  SessionInv' /\ RotationInv'
<1>1. SessionInv'
  BY SessionStep
<1>2. ASSUME NEW p \in Callers, UNCHANGED sessionVars,
             Call(p) \/ Refused(p) \/ CallerStep(p) \/ SaveFails(p)
               \/ RequestTimesOut(p) \/ Crash(p) \/ Answer(p)
      PROVE  RotationInv'
  BY <1>1, <1>2, CallRotation, RefusedRotation, ReadRotation, AcquireRotation,
     LockTimesOutRotation, RereadRotation, PostRotation, ReceiveRotation, SaveRotation,
     ReleaseRotation, SaveFailsRotation, RequestTimesOutRotation, CrashRotation, AnswerRotation
     DEF CallerStep
<1>3. ASSUME RefreshNext, UNCHANGED sessionVars
      PROVE  RotationInv'
  BY <1>1, <1>2, <1>3, AnswerLateRotation, ExpireRotation, StealLockRotation DEF RefreshNext
<1> QED BY <1>1, <1>3, CommandRotation, BeginRotation, DieRotation, PassDeadlineRotation,
           RotationStutter DEF SessionNext

LEMMA RotationInvariant == SessionSpec => [](SessionInv /\ RotationInv)
<1>1. SessionInit => SessionInv /\ RotationInv
  BY SessionBegins, RotationBegins
<1>2. SessionInv /\ RotationInv /\ [SessionNext]_allVars => (SessionInv /\ RotationInv)'
  BY RotationStep
<1> QED BY <1>1, <1>2, PTL DEF SessionSpec

(* What rotation rests on beside logins, logouts and starts, always.       *)
THEOREM RotationHolds == SessionSpec => []RotationInv
<1> QED BY RotationInvariant, PTL

(* Beside any number of logins, logouts and starts that rewrite the file,  *)
(* the server sees a burned refresh token only of a family whose answer    *)
(* was given up or lost, or after a lock was stolen.                       *)
THEOREM SessionNeverReplays == SessionSpec => []NoReplay
<1>1. RotationInv => NoReplay
  BY DEF RotationInv
<1> QED BY <1>1, RotationInvariant, PTL

(* No login, logout or start strands a login it did not delete: what is    *)
(* stored can be renewed, or its successor is on its way to the file.      *)
THEOREM StoredCanBeRenewed == SessionSpec => []StoredIsCurrent
<1>1. RotationInv => StoredIsCurrent
  BY DEF RotationInv
<1> QED BY <1>1, RotationInvariant, PTL

(* Whoever rewrites the file meanwhile, a token a caller went away with is *)
(* never newer than the login of its family that is stored.                *)
THEOREM ReturnedWasStored == SessionSpec => []PersistBeforeUse
<1>1. RotationInv => PersistBeforeUse
  BY DEF RotationInv
<1> QED BY <1>1, RotationInvariant, PTL

==============================================================================
