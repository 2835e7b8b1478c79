---------------------------- MODULE SessionRotation ----------------------------
(***************************************************************************)
(* Rotation while login, logout and start write the file too: the          *)
(* inductive invariant, on top of SessionProps.  The file may leave a      *)
(* family and come back to it (start overwrites it while a refresh is      *)
(* under way), so what TokenRefreshInv says of the file is said here of    *)
(* every token in circulation: none is newer than the server's, and while  *)
(* an unsaved pair exists, every other token of its family is older.       *)
(***************************************************************************)
EXTENDS SessionProps

\* Not newer than what the server has, nor than what p is about to save.
Behind(t) ==
  /\ t.gen <= serverGen[t.fam]
  /\ \A p \in Callers : Pending(p) /\ cred[p].fam = t.fam => t.gen < serverGen[t.fam]

PendingInv ==
  /\ \A p \in Callers : Pending(p) => NewGen(p) = serverGen[cred[p].fam]
  /\ \A p, q \in Callers : Pending(p) /\ Pending(q) /\ cred[p].fam = cred[q].fam => p = q

\* In the file, presented or about to be, returned to a caller, or on its way.
Circulating ==
  {TokenOf(c) : c \in {d \in {file} : SignedIn(d)}}
    \cup {TokenOf(cred[p]) : p \in {q \in Callers : pc[q] \in {"post", "await"}}}
    \cup {got[p] : p \in {q \in Callers : got[q] # NoToken}}
    \cup {r.tok : r \in late}

BehindInv == \A t \in Circulating : Behind(t)

\* No request has ever named a family that is not stored yet.
Unused(f) == serverGen[f] = 0 /\ \A r \in late : r.tok.fam # f

UnusedInv ==
  /\ \A f \in Fams : f > issued => Unused(f)
  /\ \A c \in Commands : job[c].at \in {"save?", "save!"} => Unused(job[c].fam)

LateInv == \A r \in late : r.tok.fam \in abandoned

\* What a caller presents, or is about to, is what the server expects.
PresentInv ==
  ~stolen => \A p \in Callers :
    pc[p] = "post" \/ wire[p] = "sent" =>
      \/ cred[p].gen = serverGen[cred[p].fam]
      \/ cred[p].fam \in abandoned

RotationInv ==
  /\ PendingInv /\ BehindInv /\ UnusedInv /\ LateInv /\ PresentInv
  /\ StoredIsCurrent /\ PersistBeforeUse /\ NoReplay

==============================================================================
