----------------------------- MODULE MCStreams -----------------------------
(* What happens to one streamed answer, and to the streams that share the  *)
(* observation capacity.  Each behaviour steps the part named by focus.    *)
EXTENDS TLC, UpstreamStream, StreamFilters, StreamDialects

CONSTANT Parts

Open2 == <<"<", "t">>
Close3 == <<"<", "/", "t">>
Prefixes3 == << <<"f", "j", "n">>, <<"f", "j">>, <<"j", "n">> >>
Marker2 == <<"<", "m">>
Error2 == <<"e", "r">>
Setups == {<<"think">>, <<"json">>, <<"rescue">>, <<"think", "rescue">>, <<"athink">>, <<"guard">>}
LettersOf == (<<"athink">> :> {"<", "/", "t", "x"}) @@ (<<"think">> :> {"<", "/", "t", "x"}) @@ (<<"json">> :> {"<", "t", "f", "j", "n", "x"})
             @@ (<<"rescue">> :> {"<", "m", "t", "x"}) @@ (<<"think", "rescue">> :> {"<", "/", "t", "m"})
             @@ (<<"guard">> :> {"e", "r", "x"})

VARIABLE focus   \* the part that steps

MCInit ==
  /\ focus \in Parts
  /\ USInit /\ FLInit /\ DLInit
  /\ focus # "filters" => fl.stages = <<"think">>
  /\ focus # "dialects" => dl.client = "openai" /\ dl.upstream = "openai"
MCNext ==
  /\ \/ focus = "upstream" /\ USNext /\ UNCHANGED <<fl, dl>>
     \/ focus = "filters" /\ FLNext /\ UNCHANGED <<us, dl>>
     \/ focus = "dialects" /\ DLNext /\ UNCHANGED <<us, fl>>
  /\ UNCHANGED focus
MCSpec == MCInit /\ [][MCNext]_<<us, fl, dl, focus>>
=============================================================================
