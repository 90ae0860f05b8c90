----------------------------- MODULE MCTraffic -----------------------------
(***************************************************************************)
(* What every chat request meets on its way: the gates in front of it (the  *)
(* rate window, the address blocklist), the capacity and the framing of     *)
(* observed streams, the keys of a provider and their limits, the panel of  *)
(* an ensemble.  They share no state: each behaviour steps the one named by *)
(* focus.                                                                   *)
(***************************************************************************)
EXTENDS StreamCapacity, SSEFraming, RateLimiter, IpBlockGuard, UpstreamRouting, Ensembles, TLC

VARIABLE focus

Ladder2 == <<2, 3>>
Panel2 == <<"p1", "p2">>
Reserve1 == <<"r1">>
\* Nothing tells one caller from another.
CallersAlike == Permutations(Callers)

gates == <<scvars, sfvars, rlvars, ibvars>>

MCInit == /\ focus \in {"capacity", "framing", "rate", "guard", "routing", "ensembles"}
          /\ SCInit /\ SFInit /\ RLInit /\ IBInit /\ RoutingInit /\ ENInit
GateStep ==
  \/ focus = "capacity" /\ SCNext /\ UNCHANGED <<sfvars, rlvars, ibvars>>
  \/ focus = "framing" /\ SFNext /\ UNCHANGED <<scvars, rlvars, ibvars>>
  \/ focus = "rate" /\ RLNext /\ UNCHANGED <<scvars, sfvars, ibvars>>
  \/ focus = "guard" /\ IBNext /\ UNCHANGED <<scvars, sfvars, rlvars>>
MCNext ==
  /\ \/ GateStep /\ UNCHANGED <<routingVars, en>>
     \/ focus = "routing" /\ RoutingNext /\ UNCHANGED <<gates, en>>
     \/ focus = "ensembles" /\ ENNext /\ UNCHANGED <<gates, routingVars>>
  /\ UNCHANGED focus
MCSpec == MCInit /\ [][MCNext]_<<gates, routingVars, en, focus>>

\* Every admission is counted exactly while it lasts: the bytes and items of
\* observed chunks, the requests and tokens of the rate window.
AdmissionExact == /\ focus = "capacity" => CapacityAccounted
                  /\ focus = "rate" => WindowExact
=============================================================================
