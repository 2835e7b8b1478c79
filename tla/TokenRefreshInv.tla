---------------------------- MODULE TokenRefreshInv ----------------------------
(***************************************************************************)
(* The inductive invariant behind TokenRefreshProps.  Two ideas carry it.  *)
(* The only process that knows a generation the file does not hold is the  *)
(* one about to save it (GenInv); this needs no lock, because the server   *)
(* rotates a generation only once.  And under the lock nobody else's save  *)
(* comes between a caller's second read and its own (StaleInv), so that    *)
(* what it presents is current (CurrentInv).                               *)
(***************************************************************************)
EXTENDS TokenRefreshProps

InHand == {"post", "await", "save"}

\* One family only, here: nothing but a refresh writes the file.
FamInv ==
  /\ file \in Credentials /\ file.fam \in Fams
  /\ \A p \in Callers : pc[p] \in InHand => cred[p] \in Credentials /\ cred[p].fam = file.fam
  /\ \A p \in Callers : got[p] # NoToken => got[p].fam = file.fam /\ got[p].gen <= file.gen
  /\ \A r \in late : r.tok.fam = file.fam /\ r.tok.fam \in abandoned

WireInv == \A p \in Callers : wire[p] # "none" <=> pc[p] = "await"

GenInv ==
  /\ file.gen <= serverGen[file.fam]
  /\ \A p \in Callers : pc[p] \in {"post", "await"} => cred[p].gen <= file.gen
  /\ \A r \in late : r.tok.gen <= file.gen
  /\ \A p \in Callers : Pending(p) =>
       NewGen(p) = serverGen[file.fam] /\ file.gen < serverGen[file.fam]
  /\ \A p, q \in Callers : Pending(p) /\ Pending(q) => p = q

HoldInv ==
  /\ holders \subseteq Callers
  /\ \A p \in Callers : pc[p] \in InLock <=> p \in holders
  /\ ~stolen => \A p, q \in Callers : pc[p] \in InLock /\ pc[q] \in InLock => p = q

StaleInv ==
  ~stolen => \A p \in Callers : pc[p] \in {"post", "await"} =>
               /\ TokenOf(file) = TokenOf(cred[p])
               /\ ~file.fresh \/ rejected[p] = TokenOf(file)

CurrentInv ==
  ~stolen /\ file.fam \notin abandoned /\ (\A p \in Callers : ~Pending(p))
    => serverGen[file.fam] = file.gen

RefusedInv ==
  \A p \in Callers : outcome[p] = "relogin" \/ wire[p] = "refused" => file.fam \in revoked

RefreshInv ==
  /\ TypeOK /\ FamInv /\ WireInv /\ GenInv /\ HoldInv /\ StaleInv
  /\ CurrentInv /\ RefusedInv /\ NoReplay

==============================================================================
