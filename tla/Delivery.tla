------------------------------ MODULE Delivery ------------------------------
(***************************************************************************)
(* What the server makes of the items that clients hand in, and what each  *)
(* client is told.  An item is executed once at most; a sender that will   *)
(* not send it any more may abandon it, while it may still be under way    *)
(* or not; and what its owner is told is final.  Told "yes", it has been   *)
(* executed; told "no", it has not been and never will be; and he may be   *)
(* told that nobody knows.                                                 *)
(*                                                                         *)
(* Commands and HookSend implement this specification: the former tells    *)
(* by its exit code, the latter tells nobody.                              *)
(***************************************************************************)
CONSTANT Items

VARIABLES
  fate,  \* "open": may yet be executed; "done"; "void": never will be
  word   \* what the owner was told: "none", "yes", "no" or "unknown"

dvars == <<fate, word>>

DInit ==
  /\ fate \in [Items -> {"open", "void"}]
  /\ word = [i \in Items |-> "none"]

Execute(i) ==
  /\ fate[i] = "open"
  /\ fate' = [fate EXCEPT ![i] = "done"]
  /\ UNCHANGED word

Abandon(i) ==
  /\ fate[i] = "open"
  /\ fate' = [fate EXCEPT ![i] = "void"]
  /\ UNCHANGED word

\* The last moment at which an item can be abandoned is that of the word.
Tell(i) ==
  /\ word[i] = "none"
  /\ \E w \in {"yes", "no", "unknown"}, f \in {"open", "done", "void"} :
       /\ f # fate[i] => fate[i] = "open" /\ f = "void"
       /\ w = "yes" => f = "done"
       /\ w = "no"  => f = "void"
       /\ fate' = [fate EXCEPT ![i] = f]
       /\ word' = [word EXCEPT ![i] = w]

DNext == \E i \in Items : Execute(i) \/ Abandon(i) \/ Tell(i)

DSpec == DInit /\ [][DNext]_dvars

=============================================================================
