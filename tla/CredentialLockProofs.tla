------------------------- MODULE CredentialLockProofs -------------------------
(***************************************************************************)
(* The layered lock for any number of Python and Node processes, any       *)
(* limits and any number of deaths: it excludes until a theft, it          *)
(* implements CredentialMutex, and waiting alone is never a theft.         *)
(***************************************************************************)
EXTENDS CredentialLockProps, TLAPS

(* While no lock file was stolen, a process that counts on the lock owns   *)
(* the file that is there; and a Python process inside holds the flock.    *)
OwnsWhatItReliesOn ==
  ~stolen => \A p \in Procs : pc[p] \in Relying => owner = p

FlockedInside ==
  \A p \in Procs : pc[p] = "critical" /\ p \in Python => flock = p

LockInv == TypeOK /\ OwnsWhatItReliesOn /\ FlockedInside

(* Until somebody leaves a lock file behind, none reaches the staleness    *)
(* limit, so nobody is about to unlink one and nothing has been stolen.    *)
Alive == \A p \in Procs : ~Left(p)

PunctualInv ==
  ~Stalls /\ Alive => /\ ~stolen
                      /\ age <= Stale
                      /\ \A p \in Procs : pc[p] # "unlink"

-----------------------------------------------------------------------------
LEMMA TypeInit == Init => TypeOK
<1> SUFFICES ASSUME Init PROVE TypeOK
  OBVIOUS
<1>1. 0 \in 0..(Stale + 1) /\ 0 \in 0..(Timeout + 1)
  BY LockAssumption
<1> QED BY <1>1 DEF Init, TypeOK

LEMMA TypeStep ==
  ASSUME TypeOK, [Next]_vars
  PROVE  TypeOK'
<1> USE LockAssumption DEF TypeOK, Waiting, Relying, Over, At, Goto
<1>0. 0 \in 0..(Stale + 1)
  BY LockAssumption
<1>1. CASE \E p \in Procs : Start(p) \/ Die(p)
  BY <1>1 DEF Start, Die
<1>2. ASSUME NEW p \in Procs, Step(p)
      PROVE  TypeOK'
  <2>1. CASE Create(p) \/ CreateFails(p)
    BY <1>0, <2>1 DEF Create, CreateFails
  <2>2. CASE \/ Exists(p) \/ StatGone(p) \/ StatStale(p) \/ StatBusy(p) \/ Wake(p)
             \/ TakeOverFails(p) \/ ReleaseFails(p)
    BY <2>2 DEF Exists, StatGone, StatStale, StatBusy, Wake, TakeOverFails, ReleaseFails
  <2>3. CASE TakeOver(p) \/ Release(p)
    <3>1. owner' = Nobody /\ age' = 0 /\ flock' = flock /\ waited' = waited
      BY <2>3 DEF TakeOver, Release, RemoveFile
    <3>2. stolen' \in BOOLEAN
      <4>1. PICK b : stolen' = (stolen \/ b)
        BY <2>3 DEF TakeOver, Release, RemoveFile
      <4> QED BY <4>1, Zenon
    <3>3. pc' \in [Procs -> {"new"} \cup Waiting \cup Relying \cup Over]
      BY <2>3 DEF TakeOver, Release
    <3>4. flock # Nobody => pc'[flock] = "critical"
      BY <2>3 DEF TakeOver, Release
    <3> QED BY <1>0, <3>1, <3>2, <3>3, <3>4
  <2>4. CASE Flock(p) \/ Finish(p)
    BY <2>4 DEF Flock, Finish
  <2> QED BY <1>2, <2>1, <2>2, <2>3, <2>4 DEF Step
<1>3. CASE Tick
  BY <1>3 DEF Tick, NoFile, IsStale
<1>4. CASE UNCHANGED vars
  BY <1>4 DEF vars
<1> QED BY <1>1, <1>2, <1>3, <1>4 DEF Next

(* The lock is what it seems to be: TypeOK holds in every reachable state. *)
THEOREM TypeCorrect == Spec => []TypeOK
<1>1. TypeOK /\ [Next]_vars => TypeOK'
  BY TypeStep
<1> QED BY TypeInit, <1>1, PTL DEF Spec

-----------------------------------------------------------------------------
LEMMA LockInit == Init => LockInv
  BY TypeInit DEF Init, LockInv, OwnsWhatItReliesOn, FlockedInside, Relying

LEMMA LockStep ==
  ASSUME LockInv, [Next]_vars
  PROVE  LockInv'
<1>1. TypeOK'
  BY TypeStep DEF LockInv
<1> USE LockAssumption DEF LockInv, TypeOK, OwnsWhatItReliesOn, FlockedInside,
                           Relying, At, Goto
<1>2. ASSUME NEW p \in Procs, Start(p)
      PROVE  OwnsWhatItReliesOn' /\ FlockedInside'
  BY <1>2 DEF Start
<1>3. ASSUME NEW p \in Procs, Die(p)
      PROVE  OwnsWhatItReliesOn' /\ FlockedInside'
  BY <1>3 DEF Die
<1>4. ASSUME NEW p \in Procs, Create(p) \/ CreateFails(p)
      PROVE  OwnsWhatItReliesOn' /\ FlockedInside'
  BY <1>4 DEF Create, CreateFails, NoFile
<1>5. ASSUME NEW p \in Procs,
             \/ Exists(p) \/ StatGone(p) \/ StatStale(p) \/ StatBusy(p) \/ Wake(p)
             \/ TakeOverFails(p) \/ ReleaseFails(p)
      PROVE  OwnsWhatItReliesOn' /\ FlockedInside'
  BY <1>5 DEF Exists, StatGone, StatStale, StatBusy, Wake, TakeOverFails, ReleaseFails
<1>6. ASSUME NEW p \in Procs, TakeOver(p) \/ Release(p)
      PROVE  OwnsWhatItReliesOn' /\ FlockedInside'
  BY <1>6 DEF TakeOver, Release, RemoveFile
<1>7. ASSUME NEW p \in Procs, Flock(p)
      PROVE  OwnsWhatItReliesOn' /\ FlockedInside'
  BY <1>7 DEF Flock
<1>8. ASSUME NEW p \in Procs, Finish(p)
      PROVE  OwnsWhatItReliesOn' /\ FlockedInside'
  BY <1>8 DEF Finish
<1>9. CASE Tick \/ UNCHANGED vars
  BY <1>1, <1>9 DEF Tick, vars
<1> QED
  BY <1>1, <1>2, <1>3, <1>4, <1>5, <1>6, <1>7, <1>8, <1>9 DEF Next, Step

LEMMA LockInvariant == Spec => []LockInv
<1>1. LockInv /\ [Next]_vars => LockInv'
  BY LockStep
<1> QED BY LockInit, <1>1, PTL DEF Spec

(* Exclusion, whatever the number of processes and of deaths: two inside   *)
(* `credential_lock` means a stolen lock file, and not two Python ones.    *)
THEOREM Exclusion == Spec => []ExclusiveUntilStolen
<1>1. LockInv => ExclusiveUntilStolen
  BY DEF LockInv, TypeOK, OwnsWhatItReliesOn, FlockedInside, Relying,
         ExclusiveUntilStolen, Mutex!Exclusive, InSection
<1> QED BY LockInvariant, <1>1, PTL

-----------------------------------------------------------------------------
LEMMA MutexStep ==
  ASSUME LockInv, [Next]_vars
  PROVE  [Mutex!MNext]_(Mutex!mvars)
<1> USE LockAssumption DEF LockInv, TypeOK, OwnsWhatItReliesOn, FlockedInside,
                           Relying, Waiting, Over, At, Goto, InSection
<1>1. ASSUME NEW p \in Procs, Create(p)
      PROVE  Mutex!Enter(p) \/ UNCHANGED Mutex!mvars
  <2>1. CASE p \in Python
    BY <1>1, <2>1 DEF Create, Mutex!mvars
  <2>2. CASE p \notin Python
    <3>1. InSection' = InSection \cup {p} /\ p \notin InSection
      BY <1>1, <2>2 DEF Create
    <3>2. ~stolen => InSection = {}
      BY <1>1 DEF Create, NoFile
    <3> QED BY <1>1, <2>2, <3>1, <3>2 DEF Create, Mutex!Enter, Mutex!Admits
  <2> QED BY <2>1, <2>2
<1>2. ASSUME NEW p \in Procs, Flock(p)
      PROVE  Mutex!Enter(p)
  <2>1. InSection' = InSection \cup {p} /\ p \notin InSection
    BY <1>2 DEF Flock
  <2>2. ~stolen => InSection = {}
    BY <1>2 DEF Flock
  <2>3. InSection \cap Python = {}
    BY <1>2 DEF Flock
  <2> QED BY <1>2, <2>1, <2>2, <2>3 DEF Flock, Mutex!Enter, Mutex!Admits
<1>3. ASSUME NEW p \in Procs, Finish(p)
      PROVE  Mutex!Leave(p)
  BY <1>3 DEF Finish, Mutex!Leave
<1>4. ASSUME NEW p \in Procs, Die(p)
      PROVE  Mutex!Leave(p) \/ UNCHANGED Mutex!mvars
  <2>1. InSection' = InSection \ {p} /\ stolen' = stolen
    BY <1>4 DEF Die
  <2> QED BY <2>1 DEF Mutex!Leave, Mutex!mvars
<1>5. ASSUME NEW p \in Procs, TakeOver(p) \/ Release(p)
      PROVE  Mutex!Steal \/ UNCHANGED Mutex!mvars
  <2>1. InSection' = InSection /\ (stolen' = stolen \/ stolen' = TRUE)
    BY <1>5 DEF TakeOver, Release, RemoveFile
  <2> QED BY <2>1 DEF Mutex!Steal, Mutex!mvars
<1>6. ASSUME NEW p \in Procs,
             \/ Start(p) \/ Exists(p) \/ StatGone(p) \/ StatStale(p) \/ StatBusy(p) \/ Wake(p)
             \/ CreateFails(p) \/ TakeOverFails(p) \/ ReleaseFails(p)
      PROVE  UNCHANGED Mutex!mvars
  BY <1>6 DEF Start, Exists, StatGone, StatStale, StatBusy, Wake, CreateFails, TakeOverFails,
              ReleaseFails, Mutex!mvars
<1>7. CASE Tick \/ UNCHANGED vars
  BY <1>7 DEF Tick, vars, Mutex!mvars
<1> QED
  BY <1>1, <1>2, <1>3, <1>4, <1>5, <1>6, <1>7 DEF Next, Step, Mutex!MNext

(* The lock files, the flock, the deaths and the takeovers together do     *)
(* only what CredentialMutex allows.                                       *)
THEOREM Refinement == Spec => Implements
<1>1. Init => Mutex!MInit
  BY DEF Init, Mutex!MInit, InSection
<1>2. LockInv /\ [Next]_vars => [Mutex!MNext]_(Mutex!mvars)
  BY MutexStep
<1> QED BY LockInvariant, <1>1, <1>2, PTL DEF Spec, Implements, Mutex!MSpec

-----------------------------------------------------------------------------
LEMMA PunctualStep ==
  ASSUME LockInv, PunctualInv, [Next]_vars
  PROVE  PunctualInv'
<1> SUFFICES ASSUME ~Stalls, Alive'
             PROVE  ~stolen' /\ age' <= Stale /\ \A p \in Procs : pc'[p] # "unlink"
  BY DEF PunctualInv
<1> USE LockAssumption DEF LockInv, TypeOK, PunctualInv, Alive, Left, At, Goto
<1>1. Alive
  BY DEF Next, Step, Start, Die, Create, CreateFails, Exists, StatGone, StatStale, StatBusy,
         Wake, TakeOver, TakeOverFails, Flock, Finish, Release, ReleaseFails, Tick, vars
<1>2. ~stolen /\ age <= Stale /\ \A p \in Procs : pc[p] # "unlink"
  BY <1>1
<1>3. ASSUME NEW p \in Procs, Start(p)
      PROVE  ~stolen' /\ age' <= Stale /\ \A q \in Procs : pc'[q] # "unlink"
  BY <1>2, <1>3 DEF Start
<1>4. ASSUME NEW p \in Procs, Die(p) \/ CreateFails(p) \/ ReleaseFails(p)
      PROVE  FALSE
  BY <1>4 DEF Die, CreateFails, ReleaseFails
<1>5. ASSUME NEW p \in Procs, Create(p) \/ Flock(p) \/ Finish(p)
      PROVE  ~stolen' /\ age' <= Stale /\ \A q \in Procs : pc'[q] # "unlink"
  BY <1>2, <1>5 DEF Create, Flock, Finish
<1>6. ASSUME NEW p \in Procs, Exists(p) \/ StatGone(p) \/ StatBusy(p) \/ Wake(p)
      PROVE  ~stolen' /\ age' <= Stale /\ \A q \in Procs : pc'[q] # "unlink"
  BY <1>2, <1>6 DEF Exists, StatGone, StatBusy, Wake
<1>7. ASSUME NEW p \in Procs, StatStale(p) \/ TakeOver(p) \/ TakeOverFails(p)
      PROVE  FALSE
  BY <1>2, <1>7 DEF StatStale, IsStale, TakeOver, TakeOverFails
<1>8. ASSUME NEW p \in Procs, Release(p)
      PROVE  ~stolen' /\ age' <= Stale /\ \A q \in Procs : pc'[q] # "unlink"
  <2>1. owner = p
    BY <1>2, <1>8 DEF Release, OwnsWhatItReliesOn, Relying
  <2> QED BY <1>2, <1>8, <2>1 DEF Release, RemoveFile
<1>9. CASE Tick
  <2>1. owner = Nobody \/ age < Stale
    BY <1>1, <1>9 DEF Tick, MayAge
  <2> QED BY <1>2, <1>9, <2>1 DEF Tick, NoFile
<1>10. CASE UNCHANGED vars
  BY <1>2, <1>10 DEF vars
<1> QED
  BY <1>3, <1>4, <1>5, <1>6, <1>7, <1>8, <1>9, <1>10 DEF Next, Step

(* When owners finish within the limit, only a lock file that a death or   *)
(* an error left behind can lead to a theft.                               *)
THEOREM NoTheft == Spec => []NoTheftWithoutDeath
<1>1. Init => PunctualInv
  BY LockAssumption DEF Init, PunctualInv
<1>2. LockInv /\ PunctualInv /\ [Next]_vars => PunctualInv'
  BY PunctualStep
<1>3. PunctualInv => NoTheftWithoutDeath
  BY DEF PunctualInv, NoTheftWithoutDeath, Alive
<1> QED BY LockInvariant, <1>1, <1>2, <1>3, PTL DEF Spec

==============================================================================
