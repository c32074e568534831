---------------------------- MODULE MCGeneration ----------------------------
(* Two Tasks that compete for one slot of each pool.                        *)
EXTENDS Generation

Request(plan, priority, explicit, large) ==
  [plan |-> plan, priority |-> priority, explicit |-> explicit, large |-> large]

Pair(a, b) == [t \in Tasks |-> IF t = "t1" THEN a ELSE b]

MCWorkloads ==
  {Pair(Request(<<"structurize">>, "normal", None, FALSE),
        Request(<<"construct">>, "low", None, FALSE)),
   Pair(Request(<<"clean">>, "urgent", None, FALSE),
        Request(<<"refresh", "transcribe">>, "normal", "non-interactive", FALSE)),
   Pair(Request(<<"construct", "vectorize">>, "normal", None, FALSE),
        Request(<<"vectorize">>, "high", None, FALSE)),
   Pair(Request(<<"structurize">>, "normal", None, TRUE),
        Request(<<"construct">>, "low", "non-interactive", FALSE))}

MCProviders == <<"claude", "cursor-agent">>
MCCap == [p \in Pools |-> 1]
MCGate == [embed |-> 1, structured_generate |-> 1, text_generate |-> 1]
MCRouter == [p \in {"claude", "cursor-agent"} |-> 1]
=============================================================================
