---------------------------- MODULE MCAgentEngine ----------------------------
(* Small limits for AgentEngine; Provider requests are unlimited at first. *)
EXTENDS AgentEngine, TLC

MCDefault ==
    [f \in Fields |->
        CASE f[2] = "provider_requests" -> 0
          [] f[2] # "provider_requests" /\ f[1] = "soft" -> 1
          [] f[2] # "provider_requests" /\ f[1] = "hard" -> 2]

\* A limit raised, the pair lowered again, and a pair switched on.
MCRequests == {
    <<"hard", "tool_calls">> :> 3,
    (<<"soft", "tool_calls">> :> 1) @@ (<<"hard", "tool_calls">> :> 2),
    (<<"soft", "provider_requests">> :> 1) @@ (<<"hard", "provider_requests">> :> 2)}

MCMaxUse == [d \in Dims |-> IF d = "tool_calls" THEN 3 ELSE 2]

MCScript == <<"fault", "source">>

MCPassthrough == <<"source">>
=============================================================================
