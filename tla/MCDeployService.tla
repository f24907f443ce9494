-------------------------- MODULE MCDeployService --------------------------
(***************************************************************************)
(* Instances of DeployService for TLC: the backlog of workers/consumer.ts  *)
(* over one id or two, and clients that post what the producers of the     *)
(* service post.                                                           *)
(***************************************************************************)
EXTENDS DeployService

Message(id, type, region, reason) ==
  [id |-> id, type |-> type, region |-> region, reason |-> reason]

Event(type, region, reason) == [type |-> type, region |-> region, reason |-> reason]

McRegions == {"near", "unreachable"}

McNotes == {"deploy requested", "redeploy requested", "deployed", "gave up", "reported failed",
            "rolled back", "unhealthy"}

McPosts == {Event("succeeded", Unset, Unset), Event("failed", Unset, "unhealthy"),
            Event("rollback", Unset, Unset), Event("deploy", Unset, Unset)}

\* A deploy that comes twice, its result, and a typo.
McBacklog ==
  <<Message("a", "deploy", "near", Unset), Message("a", "succeeded", Unset, Unset),
    Message("a", "deploy", "near", Unset), Message("a", "succeded", Unset, Unset)>>

\* More requests and somebody who works on incidents, or a stop.
McBounds == {[posts |-> 3, prunes |-> 1, operations |-> 1, stops |-> 0],
             [posts |-> 2, prunes |-> 1, operations |-> 0, stops |-> 1]}

=============================================================================
