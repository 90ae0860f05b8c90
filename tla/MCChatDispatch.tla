--------------------------- MODULE MCChatDispatch ---------------------------
(* Instances of ChatDispatch for TLC.  Rule "r" retries once, rule "s" has  *)
(* sub-providers, rule "o" is the context overflow fallback.                *)
EXTENDS ChatDispatch

MCLadder == <<1, 2>>
MCModelOf == [r \in Rules |-> "m1"]
MCRetryCount == [r \in Rules |-> IF r = "r" THEN 1 ELSE 0]
MCSubproviders == [r \in Rules |-> IF r = "s" THEN 2 ELSE 0]
Short == {<<"r">>, <<"s">>}
OneSubprovider == [r \in Rules |-> IF r = "s" THEN 1 ELSE 0]
ChainSR == {<<"s", "r">>}

============================================================================
