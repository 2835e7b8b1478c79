--------------------------- MODULE TokenRefreshProps ---------------------------
(***************************************************************************)
(* What rotation under the lock guarantees: "Everything here exists so     *)
(* that rotation never strands the user" (tokens.py 13).                   *)
(***************************************************************************)
EXTENDS TokenRefresh

\* p holds, or is about to be handed, a pair that is not on disk yet.
Pending(p) == pc[p] = "save" \/ wire[p] \in {"rotated", "unusable"}
NewGen(p)  == IF pc[p] = "save" THEN cred[p].gen ELSE cred[p].gen + 1

(* The server sees a burned refresh token again only after a request of    *)
(* that family was abandoned (its sender was killed, stopped waiting or    *)
(* could not save the answer) or a lock was stolen.  Any number of callers *)
(* that find the same token expired at the same moment rotate it once.     *)
NoReplay ==
  \A f \in replayed : f \in abandoned \/ stolen

(* While a refresh is on its way, what it presents is still what the file  *)
(* holds, and that is expired or the very token this caller was refused    *)
(* with: nobody burns a pair that another process has just renewed.        *)
RotatesOnlyStale ==
  \A p \in Callers :
    pc[p] = "await" /\ ~stolen =>
      /\ SignedIn(file)
      /\ TokenOf(file) = TokenOf(cred[p])
      /\ ~file.fresh \/ rejected[p] = TokenOf(file)

(* A token a caller goes away with is on disk, or a later one of its       *)
(* family is: a crash after the return finds the new pair.  This needs no  *)
(* assumption on faults or on the lock.                                    *)
PersistBeforeUse ==
  \A p \in Callers :
    got[p] # NoToken /\ SignedIn(file) /\ file.fam = got[p].fam => got[p].gen <= file.gen

(* The stored generation of a family never goes back, whoever writes: not  *)
(* even two holders of a stolen lock undo one another's rotation.          *)
NeverBackwards ==
  [][SignedIn(file) /\ SignedIn(file)' /\ file'.fam = file.fam
       => file.gen <= file'.gen]_vars

(* A caller is told to log in again only for a reason: nothing is stored,  *)
(* or the family was revoked by the user or by idling (revoked but never   *)
(* replayed), or one of the windows NoReplay names was hit.  Contention    *)
(* and transient failures never read as a logout.                          *)
ReloginIsEarned ==
  \A p \in Callers :
    outcome[p] = "relogin" =>
      \/ ~SignedIn(file)
      \/ file.fam \in revoked \ replayed
      \/ file.fam \in abandoned
      \/ stolen

\* Is the newest pair on disk, about to be saved, or in nobody's hand?
Stage ==
  IF serverGen[file.fam] = file.gen THEN "settled"
  ELSE IF \E p \in Callers : Pending(p) THEN "issued" ELSE "stranded"

Given == [p \in Callers |-> IF got[p] = NoToken THEN NoToken ELSE got[p].gen]
GivenUp == file.fam \in abandoned

Renewable == INSTANCE RenewableLogin WITH
  stage <- Stage, stored <- file.gen, given <- Given, lost <- GivenUp

(* Any number of callers, requests, late answers and faults, stolen lock   *)
(* or not, amount to the login RenewableLogin describes: the file follows  *)
(* the server by one generation at most and by one save at a time, and     *)
(* every token that is returned is the one on disk.                        *)
Promised == Renewable!LSpec

(* Every call of access_token returns or raises, however often the server  *)
(* fails and whoever holds or abandons the lock.                           *)
EveryCallEnds ==
  \A p \in Callers : pc[p] # "idle" ~> pc[p] = "idle"

==============================================================================
