------------------------------ MODULE MCCommands ------------------------------
(***************************************************************************)
(* Commands with the requests of ApiCalls.  Two commands can notice one    *)
(* another only if both use the record or both remove the item: those run  *)
(* in pairs, every other request and every wait on its own.                *)
(***************************************************************************)
EXTENDS CommandsProps, ApiCalls

CONSTANTS one, two, mission, dial, j1, j2

MCCmds   == {one, two}
MCFields == {mission, dial}

Offer(scripts, calls, fields, renewable) ==
  [script : scripts, call : calls, field : fields, renewable : renewable]

Pairs(f, g) == {(one :> a) @@ (two :> b) : a \in f, b \in g}

(* A record is either replaced or changed.  The fields, and the commands,  *)
(* can be exchanged; a command that can renew can also fail to.            *)
Set(effect, field)   == Offer({"merge"}, {m \in Merges : m.effect = effect}, {field}, {TRUE})
Write(calls, field)  == Offer({"one"}, calls, {field}, {TRUE})
Nothing              == Offer({"none"}, {Read}, {Null}, {FALSE})

MCWorkloads ==
  Pairs(Offer({"one"}, Requests, {mission}, BOOLEAN), Nothing)
  \cup Pairs(Offer({"merge"}, Merges, {mission}, BOOLEAN), Nothing)
  \cup Pairs(Offer({"wait"}, Queued, {mission}, {TRUE}), Nothing)
  \cup Pairs(Set("replace", mission), Set("replace", dial) \cup Write({Reset}, dial))
  \cup Pairs(Set("change", mission), Set("change", dial) \cup Write({Change}, dial))
  \cup Pairs(Write({Remove}, Null), Write({Remove}, Null))

==============================================================================
