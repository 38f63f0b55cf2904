------------------------ MODULE MCCampaignLifecycle ------------------------
(* TLC instances of CampaignLifecycle. *)
EXTENDS CampaignLifecycle, TLC

CONSTANTS e1, e2, c1, c2

ExecSymmetry == Permutations({e1, e2})

\* Any requests; any of one client and a start of another; one that stops the
\* campaign and one that starts it again.
AnyRequest == [c \in Client |-> {"start", "pause", "resume", "delete"}]
AnyOrStart == [c \in Client |-> IF c = c1 THEN {"start", "pause", "resume", "delete"} ELSE {"start"}]
StopAndStart == (c1 :> {"pause", "delete"}) @@ (c2 :> {"start", "resume"})

Load(asking, slots, n, kinds) ==
  [asking |-> asking, slots |-> slots, left |-> n, kinds |-> kinds]
Survivable == FaultKinds \ {"lapse"}

\* All clients ask and a fault happens.
Everything == {Load(Client, Exec, 1, Survivable)}

\* Or, in one slot, the campaign is started again while a late worker has lost its lock.
OneOrLapses ==
  {Load({c1}, Exec, 1, Survivable)}
    \cup {Load({c2}, {e}, 2, {"stall", "lapse"}) : e \in Exec}

\* Where a campaign must come to an end: either all clients or all faults.
ClientsOrFaults == {Load(Client, Exec, 0, {}), Load({}, Exec, MaxFaults, FaultKinds)}
=============================================================================
