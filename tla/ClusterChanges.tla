--------------------------- MODULE ClusterChanges ---------------------------
(***************************************************************************)
(* Changes to Cluster API resources from the GOMI web interface:           *)
(* src/internal/infra/clusterapi.  An operator looks at a snapshot, then   *)
(* pauses or resumes a Cluster or scales a MachineDeployment; the change   *)
(* names the version it was decided on.  The resource is read and checked, *)
(* for a scale its Cluster too, and then patched with a test of the        *)
(* version.  Controllers and other operators change, delete and recreate   *)
(* the resources between any two of these steps.                           *)
(***************************************************************************)
EXTENDS Naturals

CONSTANTS
    Operators,    \* concurrent requests
    MaxVersions   \* bound on resource versions, which are never reused

VARIABLES
    res,          \* the named resource in the management cluster
    parentPaused, \* the Cluster of a MachineDeployment is paused
    version,      \* the last resource version given out
    ask,          \* what each request names, has read and was answered
    strayed       \* what went wrong with a patch that was applied  (history)

ccVars == <<res, parentPaused, version, ask, strayed>>

(* A resource: uid (a recreated one has another), version, the pause flag   *)
(* of the spec and the older pause annotation, replicas.                    *)
Resources == {"clusters", "machinedeployments"}
NewRes(kind, uid, v) == [kind |-> kind, uid |-> uid, rv |-> v, deleting |-> FALSE,
                         paused |-> FALSE, annotated |-> FALSE, replicas |-> 0]
NoAsk == [at |-> "idle", change |-> "", seen |-> NewRes("clusters", 1, 0), read |-> NewRes("clusters", 1, 0),
          ranFree |-> FALSE]

CCInit ==
    /\ \E kind \in Resources : res = NewRes(kind, 1, 0)
    /\ parentPaused = FALSE
    /\ version = 0
    /\ ask = [o \in Operators |-> NoAsk]
    /\ strayed = {}

Paused(r) == r.paused \/ r.annotated
Bump == version < MaxVersions /\ version' = version + 1
Asks(o, a) == ask' = [ask EXCEPT ![o] = a]

(* A request arrives: one of paused and replicas, for a resource as the     *)
(* snapshot showed it.                                                      *)
Changes(kind) == IF kind = "clusters" THEN {"pause", "resume"} ELSE {"scale"}
Review(o) ==
    /\ ask[o].at = "idle"
    /\ \E c \in Changes(res.kind) :
          Asks(o, [NoAsk EXCEPT !.at = "reviewed", !.change = c, !.seen = res])
    /\ UNCHANGED <<res, parentPaused, version, strayed>>

(* Same uid and version as in the review. *)
SameVersion(r, seen) == r.uid = seen.uid /\ r.rv = seen.rv
Answer_(o, answer) == Asks(o, [ask[o] EXCEPT !.at = answer])
Get_(o) ==
    /\ ask[o].at = "reviewed"
    /\ IF ~SameVersion(res, ask[o].seen) THEN Answer_(o, "conflict")
       ELSE IF res.deleting THEN Answer_(o, "invalid")
       ELSE Asks(o, [ask[o] EXCEPT !.at = IF ask[o].change = "scale" THEN "allow" ELSE "patch",
                                   !.read = res, !.ranFree = ~parentPaused])
    /\ UNCHANGED <<res, parentPaused, version, strayed>>
(* allowScale: neither the worker group nor its Cluster is paused.  An      *)
(* autoscaler, a missing or deleted Cluster and a topology refuse it too.   *)
Allowed_(r) == ~Paused(r) /\ ~parentPaused
AllowScale(o) ==
    /\ ask[o].at = "allow"
    /\ \/ Allowed_(ask[o].read) /\ Answer_(o, "patch")
       \/ Answer_(o, "invalid")
    /\ UNCHANGED <<res, parentPaused, version, strayed>>

(* The patch; a resume also removes the annotation it read. *)
Patched(a, r) ==
    CASE a.change = "scale" -> [r EXCEPT !.replicas = 1 - @, !.rv = version + 1]
      [] a.change = "pause" -> [r EXCEPT !.paused = TRUE, !.rv = version + 1]
      [] OTHER -> [r EXCEPT !.paused = FALSE, !.rv = version + 1,
                            !.annotated = IF a.read.annotated THEN FALSE ELSE @]
(* Bug: the version was checked when it was read. *)
Untested(r, seen) == TRUE
(* The test operations of the JSON patch. *)
Tests(r, seen) == SameVersion(r, seen)
PatchApplies(o) ==
    LET a == ask[o] IN
    /\ a.at = "patch"
    /\ Tests(res, a.seen)
    /\ Bump
    /\ res' = Patched(a, res)
    /\ strayed' = strayed \cup (IF SameVersion(res, a.seen) THEN {} ELSE {"unreviewed"})
                          \cup (IF a.change = "scale" /\ ~a.ranFree THEN {"paused"} ELSE {})
                          \cup (IF a.change = "resume" /\ Paused(res') THEN {"still paused"} ELSE {})
    /\ \E answer \in {"done", "failed"} : Answer_(o, answer)
    /\ UNCHANGED parentPaused
(* A failed test is read back: a version that moved on is a conflict. *)
PatchRefused(o) ==
    /\ ask[o].at = "patch"
    /\ ~Tests(res, ask[o].seen)
    /\ Answer_(o, "reread")
    /\ UNCHANGED <<res, parentPaused, version, strayed>>
Reread(o) ==
    /\ ask[o].at = "reread"
    /\ Answer_(o, IF SameVersion(res, ask[o].seen) THEN "failed" ELSE "conflict")
    /\ UNCHANGED <<res, parentPaused, version, strayed>>
(* A request fails: it may be any of its reads, or the patch. *)
RequestEnds(o) ==
    /\ ask[o].at # "idle"
    /\ Asks(o, NoAsk)
    /\ UNCHANGED <<res, parentPaused, version, strayed>>

(* Somebody else changes, deletes or recreates the resource, or pauses and  *)
(* resumes the Cluster of the worker group.                                 *)
Meddle ==
    /\ Bump
    /\ \/ res' = [res EXCEPT !.annotated = ~@, !.rv = version + 1]
       \/ res' = [res EXCEPT !.replicas = 1 - @, !.rv = version + 1]
       \/ res' = [res EXCEPT !.deleting = TRUE, !.rv = version + 1]
       \/ res.deleting /\ res' = NewRes(res.kind, res.uid + 1, version + 1)
    /\ UNCHANGED <<parentPaused, ask, strayed>>
MeddleParent ==
    /\ parentPaused' = ~parentPaused
    /\ ask' = [o \in Operators |-> [ask[o] EXCEPT !.ranFree = @ \/ parentPaused]]
    /\ UNCHANGED <<res, version, strayed>>

CCNext ==
    \/ \E o \in Operators : Review(o) \/ Get_(o) \/ AllowScale(o) \/ PatchApplies(o)
                                \/ PatchRefused(o) \/ Reread(o) \/ RequestEnds(o)
    \/ Meddle \/ MeddleParent
CCSpec == CCInit /\ [][CCNext]_ccVars

-----------------------------------------------------------------------------
(* A change that is applied is the one its operator decided on, whatever    *)
(* happened since: it replaces exactly the version he saw, not a later one  *)
(* nor a resource recreated under the same name; a worker group is not      *)
(* scaled when its Cluster was paused all the time from the first read of   *)
(* the request to the patch; and a resume leaves the Cluster running, also  *)
(* when it was paused by the annotation.                                    *)
ReviewedIsReplaced == strayed = {}
=============================================================================
