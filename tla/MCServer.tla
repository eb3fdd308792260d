------------------------------ MODULE MCServer ------------------------------
(* What the bot does to the Discord server itself, for TLC: the greeting   *)
(* workers and the setup with its audit.  They share no state that changes *)
(* (the workers wait for an audit and then read members and messages), so  *)
(* a behaviour moves one part and leaves the other at rest.  The bounds    *)
(* are shared: the third event, or the second day; the second change by    *)
(* the owner, or a failure of the setup.                                   *)
EXTENDS Greetings, Provision

Layout == <<"public-info", "pro-firehose", "operations">>
AudienceOf == [k \in InOrder(Layout) |->
    CASE k = "public-info"  -> "everyone"
      [] k = "pro-firehose" -> "pro"
      [] k = "operations"   -> "operations"]
PlaceOf == [k \in {"pro-all"} \union Optional |->
    IF k = "trial-management" THEN "operations" ELSE "pro-firehose"]
RoleOrder    == <<"starter", "pro">>
ChannelOrder == <<"pro-all">>

VARIABLE part        \* the part that moves

ServerInit ==
    /\ part \in {"greetings", "setup"} /\ Init /\ ProvisionInit
    /\ part = "setup" => kind = "welcome" /\ \A u \in Users : roles[u] = "none"
ServerNext ==
    /\ UNCHANGED part
    /\ \/ part = "greetings" /\ Next /\ events' + day' <= 4 /\ UNCHANGED serverVars
       \/ part = "setup" /\ ProvisionNext /\ owned' + failed' <= 2 /\ UNCHANGED vars
ServerSpec == ServerInit /\ [][ServerNext]_<<part, vars, serverVars>>
=============================================================================
