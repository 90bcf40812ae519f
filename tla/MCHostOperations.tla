-------------------------- MODULE MCHostOperations --------------------------
(* Five groups of requests on enrolled hosts, explored next to each other:  *)
(* the life of a claim; retries over three attempts; enrollment, pools and  *)
(* ordinary redeploys; the race of one owner for two hosts; and one retry   *)
(* or poll beside the whole life of a host, up to the fourth attempt, that  *)
(* is released, unregistered and claimed again.  Their product is out of    *)
(* TLC's reach.                                                             *)
EXTENDS MCBareMetalClaims

VARIABLE scope

Sends(kinds) == \A p \in Handlers : req'[p].kind \in kinds \cup {"idle"}

(* Only the first machine takes part. *)
OneMachine ==
    \A n \in Machines \ {1} :
        /\ ~host'[n].enrolled
        /\ listed'[n] = listed[n]
        /\ \A p \in Handlers : req'[p] # Idle => req'[p].name # n
(* Nobody unregisters a host or moves it to another pool. *)
NoPoolChange == req' = req => host' = host

(* All but one of the running requests are retries and polls. *)
OneDelayed == Cardinality({p \in Handlers : req'[p].kind \notin {"retry", "get", "idle"}}) <= 1

MCInit == Init /\ scope \in {"claim", "retry", "enroll", "race", "again"}
MCNext ==
    /\ Next
    /\ UNCHANGED scope
    /\ CASE scope = "again" -> TRUE
         [] scope = "retry" -> lastAttempt' <= 3
         [] OTHER -> lastAttempt' <= 2
    /\ CASE scope = "claim" ->
              /\ Sends({"register", "acquire", "get", "deploy", "delete", "retry",
                        "image_applied", "complete"})
              /\ OneMachine /\ NoPoolChange
         [] scope = "retry" ->
              /\ Sends({"register", "acquire", "deploy", "delete", "retry", "image_applied"})
              /\ OneMachine /\ NoPoolChange
         [] scope = "enroll" ->
              /\ Sends({"register", "redeploy", "settings", "acquire", "deploy", "delete"})
              /\ OneMachine
         [] scope = "race" -> Sends({"register", "acquire", "delete"})
         [] scope = "again" ->
              /\ Sends({"register", "acquire", "get", "deploy", "delete", "retry", "image_applied", "complete"})
              /\ OneMachine /\ OneDelayed /\ listed' = listed
MCSpec == MCInit /\ [][MCNext]_<<vars, scope>>
=============================================================================
