---------------------------- MODULE MCProviderLedger ----------------------------
(* One run with room for a tool call, a retry, a repair and two modules.     *)
EXTENDS ProviderLedger
MCLimit == [k \in Dimensions |->
               IF k \in Tokens THEN 5
               ELSE IF k = "turns" THEN 3
               ELSE IF k = "active_minutes" THEN 2 ELSE 1]
MCAsks == [Tokens -> {2}]
MCBills == [Tokens -> {1, 3}]
=============================================================================
