------------------------ MODULE ClusterMachineProofs ------------------------
(***************************************************************************)
(* Theorems about the reconciler of a GomiMachine, for every kind of       *)
(* machine and any number of failed, lost and late calls.                  *)
(***************************************************************************)
EXTENDS ClusterMachine, TLAPS

Objects == [exists : BOOLEAN, deleting : BOOLEAN, committed : BOOLEAN, provided : BOOLEAN,
            provisioned : BOOLEAN]
Creating == {"get", "templateGet", "createTemplate", "create", "verifyGet", "verifyCreate", "deploy",
             "provide", "report"}
Removing == {"removeGet", "delete", "confirm", "removeTemplate", "deleteTemplate", "finalize"}
Owners == {"none", "ours", "foreign"}
InstanceStates == {"", "provisioning", "done", "error", "Claimed", "Deploying", "Applied", "Ready",
                   "Failed", "Unproven", "Releasing", "CleanFailed", "Aborted"}
CallNames == {"createTemplate", "create", "deploy", "deleteTemplate", "delete"}

CMTypes ==
    /\ obj \in Objects /\ view \in Objects
    /\ rec \in [at : {"idle", "commit"} \cup Creating \cup Removing, obj : Objects]
    /\ inst \in [owner : Owners, state : InstanceStates] /\ template \in Owners
    /\ pending \subseteq CallNames
    /\ straggled \in BOOLEAN /\ crossed_ \in BOOLEAN

\* The finalizer holds the object, and the cache shows a past of it: an object it
\* shows committed and not being deleted is there.
Cached ==
    /\ obj.committed => obj.exists
    /\ view.deleting => obj.deleting
    /\ view.committed /\ ~view.deleting => obj.committed

\* What a reconcile may rely on at each of its steps.
Standing ==
    /\ rec.at \in Creating \ {"report"} => obj.committed
    /\ rec.at \in Removing => view.deleting
    /\ rec.at \in {"templateGet", "createTemplate", "create"} => ~rec.obj.provided
    /\ rec.at \in {"templateGet", "createTemplate", "verifyGet", "verifyCreate"} => HasTemplate
    /\ rec.at = "create" /\ HasTemplate => template # "none" \/ straggled
    /\ rec.at \in {"removeTemplate", "deleteTemplate", "finalize"} => inst.owner # "ours" \/ straggled
    /\ rec.at = "finalize" => template # "ours" \/ straggled
    /\ rec.at \in {"createTemplate", "verifyCreate", "deleteTemplate"} /\ template = "foreign" => crossed_
    /\ rec.at = "delete" /\ inst.owner = "foreign" => crossed_

\* What a call that was given up may still find.
Late ==
    /\ ~HasTemplate => "createTemplate" \notin pending
    /\ pending \cap {"createTemplate", "deleteTemplate"} # {} /\ template = "foreign" => crossed_
    /\ "delete" \in pending /\ inst.owner = "foreign" => crossed_

\* What is there under the machine's id.
Things ==
    /\ inst.owner = "ours" \/ template = "ours" => obj.committed \/ straggled
    /\ ~HasTemplate => template # "ours"
    /\ inst.owner = "ours" /\ HasTemplate => template # "none" \/ straggled

\* The inductive invariant.
MachineInv == CMTypes /\ Cached /\ Standing /\ Late /\ Things /\ RetriesAreHarmless

LEMMA MachineStart == CMInit => MachineInv
<1> SUFFICES ASSUME CMInit PROVE MachineInv
  OBVIOUS
<1> USE DEF CMInit, Fresh_, Idle, Nothing
<1>1. Fresh_ \in Objects /\ Fresh_.committed = FALSE /\ Fresh_.deleting = FALSE
  BY DEF Objects
<1>2. CMTypes
  BY <1>1 DEF CMTypes, Owners, InstanceStates, CallNames
<1>3. Cached
  BY DEF Cached
<1>4. Standing /\ Late /\ Things /\ RetriesAreHarmless
  BY DEF Standing, Late, Things, RetriesAreHarmless, Creating, Removing
<1>5. QED BY <1>2, <1>3, <1>4 DEF MachineInv

-----------------------------------------------------------------------------
(* Steps that only move the reconcile                                      *)

\* A reconcile that ends relies on nothing.
LEMMA IdleStands == ASSUME Ends_ PROVE Standing' /\ rec' \in [at : {"idle"}, obj : Objects]
BY DEF Ends_, Idle, Fresh_, Standing, Creating, Removing, Objects

LEMMA Moved ==
  ASSUME CMTypes, NEW step \in {"commit"} \cup Creating \cup Removing, Goes_(step)
  PROVE  /\ rec' \in [at : {"idle", "commit"} \cup Creating \cup Removing, obj : Objects]
         /\ rec'.at = step /\ rec'.obj = rec.obj
<1>1. rec' = [rec EXCEPT !.at = step]
  BY DEF Goes_, To, Creating, Removing
<1>2. QED BY <1>1 DEF CMTypes

\* A step that leaves everything but the reconcile alone.
LEMMA RecOnly ==
  ASSUME MachineInv, OnlyRec, Standing',
         rec' \in [at : {"idle", "commit"} \cup Creating \cup Removing, obj : Objects]
  PROVE  MachineInv'
<1>1. UNCHANGED <<kind, obj, view, inst, template, pending, straggled, marred, crossed_>>
  BY DEF OnlyRec, server
<1>2. CMTypes' /\ Cached'
  BY <1>1 DEF MachineInv, CMTypes, Cached
<1>3. Late' /\ Things' /\ RetriesAreHarmless'
  BY <1>1 DEF MachineInv, Late, Things, RetriesAreHarmless, HasTemplate
<1>4. QED BY <1>2, <1>3 DEF MachineInv

\* A read that leads on to a step the reconcile may take, or ends it.
LEMMA ReadKeeps ==
  ASSUME MachineInv, NEW at, NEW then \in {"idle", "commit"} \cup Creating \cup Removing, Read(at, then),
         then # "idle" /\ Goes_(then) => Standing'
  PROVE  MachineInv'
<1>1. OnlyRec /\ (Goes_(then) \/ Goes_("idle"))
  BY DEF Read, OnFailure
<1>2. CASE Goes_("idle")
  <2>1. Ends_
    BY <1>2 DEF Goes_
  <2>2. QED BY <1>1, <2>1, IdleStands, RecOnly
<1>3. CASE Goes_(then) /\ then # "idle"
  <2>1. rec' \in [at : {"idle", "commit"} \cup Creating \cup Removing, obj : Objects]
    BY <1>3, Moved DEF MachineInv
  <2>2. QED BY <1>1, <1>3, <2>1, RecOnly
<1>4. QED BY <1>1, <1>2, <1>3

LEMMA MachineBegins == MachineInv /\ Begin => MachineInv'
<1> SUFFICES ASSUME MachineInv, Begin PROVE MachineInv'
  OBVIOUS
<1>1. OnlyRec /\ CMTypes /\ Cached
  BY DEF Begin, MachineInv
<1>2. PICK where \in {"removeGet", "commit", "get", "report"} :
          /\ rec' = [at |-> where, obj |-> view]
          /\ where = "removeGet" => view.deleting
          /\ where = "get" => view.committed /\ ~view.deleting
  BY <1>1 DEF Begin, NeedsCommit, CMTypes, Objects
<1>3. rec' \in [at : {"idle", "commit"} \cup Creating \cup Removing, obj : Objects]
  BY <1>1, <1>2 DEF CMTypes, Creating, Removing
<1>4. rec'.at = where /\ UNCHANGED <<obj, view>>
  BY <1>1, <1>2 DEF OnlyRec
<1>5. Standing'
  BY <1>1, <1>2, <1>4 DEF Standing, Cached, Creating, Removing
<1>6. QED BY <1>1, <1>3, <1>5, RecOnly

LEMMA MachineGets == MachineInv /\ Get => MachineInv'
<1> SUFFICES ASSUME MachineInv, Get PROVE MachineInv'
  OBVIOUS
<1>1. At("get") /\ OnlyRec /\ obj.committed /\ CMTypes
  BY DEF Get, Read, MachineInv, Standing, At, Creating
<1>2. PICK then \in {"templateGet", "create", "report", "provide", "verifyGet", "deploy"} :
          /\ Read("get", then)
          /\ then \in {"templateGet", "create"} => ~rec.obj.provided
          /\ then \in {"templateGet", "verifyGet"} => HasTemplate
          /\ then = "create" => ~HasTemplate
  BY DEF Get, MayCreate, FirstStep
<1>3. ASSUME Goes_(then) PROVE Standing'
  <2>1. rec'.at = then /\ rec'.obj = rec.obj
    BY <1>1, <1>3, Moved DEF Creating
  <2>2. UNCHANGED <<obj, kind>>
    BY <1>1 DEF OnlyRec
  <2>3. QED BY <1>1, <1>2, <2>1, <2>2 DEF Standing, HasTemplate, Removing
<1>4. QED BY <1>2, <1>3, ReadKeeps DEF Creating

LEMMA MachineTemplateGets ==
  ASSUME MachineInv,
         \/ TemplateGet("templateGet", "createTemplate", "create")
         \/ TemplateGet("verifyGet", "verifyCreate", "deploy")
  PROVE  MachineInv'
<1>1. OnlyRec /\ obj.committed /\ CMTypes /\ HasTemplate
  BY DEF TemplateGet, Read, MachineInv, Standing, At, Creating
<1>2. PICK at \in {"templateGet", "verifyGet"}, then \in {"createTemplate", "create", "verifyCreate", "deploy", "report"} :
          /\ Read(at, then)
          /\ then \in {"createTemplate", "create"} => ~rec.obj.provided
          /\ then \in {"createTemplate", "verifyCreate"} => template = "none"
          /\ then = "create" => template = "ours"
  BY DEF TemplateGet, MachineInv, Standing, Read, At
<1>3. ASSUME Goes_(then) PROVE Standing'
  <2>1. rec'.at = then /\ rec'.obj = rec.obj
    BY <1>1, <1>3, Moved DEF Creating
  <2>2. UNCHANGED <<obj, kind, template>>
    BY <1>1 DEF OnlyRec, server
  <2>3. QED BY <1>1, <1>2, <2>1, <2>2 DEF Standing, HasTemplate, Removing
<1>4. QED BY <1>2, <1>3, ReadKeeps DEF Creating

LEMMA MachineRemovalReads ==
  ASSUME MachineInv, RemoveGet \/ Confirm \/ RemoveTemplate
  PROVE  MachineInv'
<1>1. OnlyRec /\ view.deleting /\ CMTypes
  BY DEF RemoveGet, Confirm, RemoveTemplate, Read, MachineInv, Standing, At, Removing
<1>2. PICK at \in {"removeGet", "confirm", "removeTemplate"}, then \in {"removeTemplate", "finalize", "delete", "deleteTemplate", "idle"} :
          /\ Read(at, then)
          /\ then \in {"removeTemplate", "finalize", "deleteTemplate"} => inst.owner # "ours" \/ straggled
          /\ then = "finalize" => template # "ours"
          /\ then = "deleteTemplate" => template = "ours"
          /\ then = "delete" => inst.owner = "ours"
  <2>1. inst = Nothing => inst.owner # "ours"
    <3>1. Nothing.owner = "none"
      BY DEF Nothing
    <3>2. QED BY <3>1
  <2>2. At("removeTemplate") => inst.owner # "ours" \/ straggled
    BY DEF MachineInv, Standing, At
  <2>3. ~HasTemplate => template # "ours"
    BY DEF MachineInv, Things
  <2>4. CASE RemoveGet
    <3>1. CASE inst = Nothing
      <4>1. Read("removeGet", IF HasTemplate THEN "removeTemplate" ELSE "finalize") /\ ~OwnedBy(inst)
        BY <2>1, <2>4, <3>1 DEF RemoveGet, OwnedBy
      <4>2. QED BY <2>1, <2>3, <3>1, <4>1
    <3>2. CASE inst # Nothing /\ OwnedBy(inst) /\ inst.state # "Aborted"
      <4>1. Read("removeGet", "delete")
        BY <2>4, <3>2 DEF RemoveGet
      <4>2. QED BY <3>2, <4>1 DEF OwnedBy
    <3>3. CASE inst # Nothing /\ ~(OwnedBy(inst) /\ inst.state # "Aborted")
      <4>1. Read("removeGet", "idle")
        BY <2>4, <3>3 DEF RemoveGet
      <4>2. QED BY <4>1
    <3>4. QED BY <3>1, <3>2, <3>3
  <2>5. CASE Confirm
    BY <2>1, <2>5 DEF Confirm
  <2>6. CASE RemoveTemplate
    BY <2>2, <2>6 DEF RemoveTemplate, WhenGone, Read
  <2>7. QED BY <2>4, <2>5, <2>6
<1>3. ASSUME Goes_(then), then # "idle" PROVE Standing'
  <2>1. rec'.at = then
    BY <1>1, <1>2, <1>3, Moved DEF Removing
  <2>2. UNCHANGED <<view, inst, template, straggled>>
    BY <1>1 DEF OnlyRec, server
  <2>3. QED BY <1>1, <1>2, <1>3, <2>1, <2>2 DEF Standing, Creating
<1>4. QED BY <1>2, <1>3, ReadKeeps DEF Removing

-----------------------------------------------------------------------------
(* Patches of the object                                                   *)

\* A patch keeps everything but the object and the reconcile.
LEMMA PatchKeeps ==
  ASSUME MachineInv, NEW new \in Objects, NEW then, Patch(new, then),
         new.committed => new.exists, new.deleting = obj.deleting,
         view.committed /\ ~view.deleting => new.committed,
         inst.owner = "ours" \/ template = "ours" => new.committed \/ straggled,
         then = "idle" \/ (then \in Creating \ {"templateGet", "createTemplate", "create", "verifyGet", "verifyCreate"}
                              /\ new.committed)
  PROVE  MachineInv'
<1>1. UNCHANGED <<kind, view, inst, template, pending, straggled, marred, crossed_>> /\ CMTypes
  BY DEF Patch, server, MachineInv
<1>2. /\ obj' \in {obj, new}
      /\ rec' = Idle \/ (obj' = new /\ then # "idle" /\ rec' = [at |-> then, obj |-> [rec.obj EXCEPT !.provided = new.provided]])
  BY DEF Patch, Ends_
<1>3. /\ rec' \in [at : {"idle", "commit"} \cup Creating \cup Removing, obj : Objects]
      /\ rec'.at = "idle" \/ (rec'.at = then /\ then # "idle" /\ obj' = new)
  <2>1. CASE rec' = Idle
    BY <2>1 DEF Idle, Fresh_, Objects
  <2>2. CASE rec' # Idle
    <3>1. rec' = [at |-> then, obj |-> [rec.obj EXCEPT !.provided = new.provided]] /\ obj' = new /\ then # "idle"
      BY <1>2, <2>2
    <3>2. [rec.obj EXCEPT !.provided = new.provided] \in Objects
      BY <1>1 DEF CMTypes, Objects
    <3>3. QED BY <3>1, <3>2
  <2>3. QED BY <2>1, <2>2
<1>4. CMTypes'
  BY <1>1, <1>2, <1>3 DEF CMTypes
<1>5. Cached'
  BY <1>1, <1>2 DEF MachineInv, Cached
<1>6. Standing'
  BY <1>1, <1>3 DEF Standing, Creating, Removing
<1>7. Late' /\ RetriesAreHarmless'
  BY <1>1 DEF MachineInv, Late, RetriesAreHarmless, HasTemplate
<1>8. Things'
  BY <1>1, <1>2 DEF MachineInv, Things, HasTemplate
<1>9. QED BY <1>4, <1>5, <1>6, <1>7, <1>8 DEF MachineInv

LEMMA MachinePatches ==
  ASSUME MachineInv, Commit \/ Provide \/ Report \/ Finalize
  PROVE  MachineInv'
<1>1. obj \in Objects /\ rec.obj \in Objects /\ Cached /\ Things /\ Standing
  BY DEF MachineInv, CMTypes
<1>2. CASE Commit
  <2>1. CASE obj.deleting
    <3>1. Patch(obj, "idle")
      BY <1>2, <2>1 DEF Commit
    <3>2. QED BY <1>1, <3>1, PatchKeeps DEF Cached, Things
  <2>2. CASE ~obj.deleting
    <3> DEFINE new == [obj EXCEPT !.committed = TRUE]
    <3>1. Patch(new, "idle")
      BY <1>2, <2>2 DEF Commit
    <3>2. new \in Objects /\ new.committed = TRUE /\ new.deleting = obj.deleting /\ new.exists = obj.exists
      BY <1>1 DEF Objects
    <3> HIDE DEF new
    <3>3. CASE obj.exists
      BY <1>1, <3>1, <3>2, <3>3, PatchKeeps DEF Objects
    <3>4. CASE ~obj.exists
      <4>1. rec' = Idle /\ UNCHANGED <<kind, obj, view, secret, linked, server, crossed_>>
        BY <3>1, <3>4 DEF Patch, Ends_
      <4>2. OnlyRec /\ Ends_
        BY <4>1 DEF OnlyRec, Ends_
      <4>3. QED BY <4>2, IdleStands, RecOnly
    <3>5. QED BY <3>3, <3>4
  <2>3. QED BY <2>1, <2>2
<1>3. CASE Provide
  <2> DEFINE new == [obj EXCEPT !.provided = TRUE]
  <2>1. Patch(new, "report") /\ obj.committed
    BY <1>1, <1>3 DEF Provide, Standing, At, Creating
  <2>2. new \in Objects /\ new.committed = obj.committed /\ new.deleting = obj.deleting /\ new.exists = obj.exists
    BY <1>1 DEF Objects
  <2> HIDE DEF new
  <2>3. QED BY <1>1, <2>1, <2>2, PatchKeeps DEF Cached, Things, Creating
<1>4. CASE Report
  <2> DEFINE new == [obj EXCEPT !.provisioned = @ \/ rec.obj.provided]
  <2>1. Patch(new, "idle")
    BY <1>4 DEF Report
  <2>2. new \in Objects /\ new.committed = obj.committed /\ new.deleting = obj.deleting /\ new.exists = obj.exists
    BY <1>1 DEF Objects
  <2> HIDE DEF new
  <2>3. QED BY <1>1, <2>1, <2>2, PatchKeeps DEF Cached, Things
<1>5. CASE Finalize
  <2> DEFINE new == [obj EXCEPT !.exists = ~obj.deleting, !.committed = FALSE]
  <2>1. /\ Patch(new, "idle") /\ view.deleting
        /\ inst.owner = "ours" \/ template = "ours" => straggled
    BY <1>1, <1>5 DEF Finalize, Standing, At, Removing
  <2>2. new \in Objects /\ new.committed = FALSE /\ new.deleting = obj.deleting
    BY <1>1 DEF Objects
  <2> HIDE DEF new
  <2>3. QED BY <1>1, <2>1, <2>2, PatchKeeps
<1>6. QED BY <1>2, <1>3, <1>4, <1>5

-----------------------------------------------------------------------------
(* Calls of the GOMI server                                                *)

\* What each call does, whether it is the reconcile's or a late one.
LEMMA Effects ==
  ASSUME CMTypes, NEW call \in CallNames, NEW p \in BOOLEAN, Effect(call, p)
  PROVE  /\ inst' \in [owner : Owners, state : InstanceStates] /\ template' \in Owners
         /\ template' # template => \/ call = "createTemplate" /\ template' = "ours"
                                    \/ call = "deleteTemplate" /\ template' = "none"
         /\ inst'.owner # inst.owner => \/ call = "create" /\ inst'.owner = "ours"
                                        \/ call = "delete" /\ inst'.owner = "none"
         /\ call = "createTemplate" => template' = "ours"
         /\ call = "deleteTemplate" => template' = "none"
         /\ marred' # marred => \/ call \in {"createTemplate", "deleteTemplate"} /\ template = "foreign"
                                      /\ marred' = marred \cup {"foreign"}
                                \/ call = "delete" /\ inst.owner = "foreign" /\ marred' = marred \cup {"foreign"}
                                \/ call = "create" /\ p
<1>1. inst \in [owner : Owners, state : InstanceStates] /\ template \in Owners
  BY DEF CMTypes
<1>2. Nothing \in [owner : Owners, state : InstanceStates] /\ Nothing.owner = "none"
  BY DEF Nothing, Owners, InstanceStates
<1>3. \A s \in InstanceStates : Ours(s) \in [owner : Owners, state : InstanceStates] /\ Ours(s).owner = "ours"
  BY DEF Ours, Owners
<1>4. CASE call = "createTemplate"
  BY <1>1, <1>4 DEF Effect, CreateTemplate, Touched, Owners
<1>5. CASE call = "create"
  <2>1. /\ template' = template
        /\ inst' = inst \/ (inst = Nothing /\ \E s \in {"provisioning", "Claimed"} : inst' = Ours(s))
        /\ marred' # marred => p
    BY <1>5 DEF Effect, CreateInstance
  <2>2. inst' = inst \/ (inst' \in [owner : Owners, state : InstanceStates] /\ inst'.owner = "ours")
    <3>1. "provisioning" \in InstanceStates /\ "Claimed" \in InstanceStates
      BY DEF InstanceStates
    <3>2. QED BY <1>3, <2>1, <3>1
  <2>3. QED BY <1>1, <1>5, <2>1, <2>2
<1>6. CASE call = "deploy"
  <2>1. template' = template /\ marred' = marred /\ (inst' = inst \/ (inst = Ours("Claimed") /\ inst' = Ours("Deploying")))
    BY <1>6 DEF Effect, DeployClaim
  <2>2. inst' \in [owner : Owners, state : InstanceStates] /\ inst'.owner = inst.owner
    BY <1>1, <1>3, <2>1 DEF InstanceStates
  <2>3. QED BY <1>1, <1>6, <2>1, <2>2
<1>7. CASE call = "deleteTemplate"
  BY <1>1, <1>7 DEF Effect, DeleteTemplate, Touched, Owners
<1>8. CASE call = "delete"
  <2>1. /\ template' = template /\ inst' \in {Nothing} \cup DeleteClaim(inst)
        /\ marred' = IF inst.owner = "foreign" THEN marred \cup {"foreign"} ELSE marred
    BY <1>8 DEF Effect, DeleteInstance, Touched
  <2>2. inst' = Nothing \/ inst' = inst \/ (\E s \in {"Aborted", "Releasing"} : inst' = Ours(s) /\ inst.owner = "ours")
    <3>1. Ours("Claimed").owner = "ours" /\ Ours("Applied").owner = "ours" /\ Ours("Ready").owner = "ours"
             /\ Ours("Failed").owner = "ours"
      BY DEF Ours
    <3>2. CASE inst.owner = "foreign"
      BY <2>1, <3>1, <3>2 DEF DeleteClaim
    <3>3. CASE inst.owner # "foreign" /\ inst = Ours("Claimed")
      <4>1. DeleteClaim(inst) = {Nothing, Ours("Aborted")} \/ DeleteClaim(inst) = {Ours("Releasing")}
        BY <3>3 DEF DeleteClaim
      <4>2. QED BY <2>1, <3>1, <3>3, <4>1
    <3>4. CASE inst.owner # "foreign" /\ inst # Ours("Claimed") /\ inst \in {Ours("Applied"), Ours("Ready"), Ours("Failed")}
      BY <2>1, <3>1, <3>4 DEF DeleteClaim
    <3>5. CASE inst.owner # "foreign" /\ inst # Ours("Claimed") /\ inst \notin {Ours("Applied"), Ours("Ready"), Ours("Failed")}
      BY <2>1, <3>5 DEF DeleteClaim
    <3>6. QED BY <3>2, <3>3, <3>4, <3>5
  <2>3. inst' \in [owner : Owners, state : InstanceStates] /\ (inst'.owner = inst.owner \/ inst'.owner = "none")
    <3>1. "Aborted" \in InstanceStates /\ "Releasing" \in InstanceStates
      BY DEF InstanceStates
    <3>2. QED BY <1>1, <1>2, <1>3, <2>2, <3>1
  <2>4. QED BY <1>1, <1>8, <2>1, <2>3
<1>9. QED BY <1>4, <1>5, <1>6, <1>7, <1>8 DEF CallNames


\* What must hold for a call to be harmless: Standing gives it for the reconcile's
\* own calls, Late for one that was given up.
Harmless(call, p) ==
    /\ call = "createTemplate" => HasTemplate /\ (obj.committed \/ straggled')
    /\ call = "create" => /\ ~p
                          /\ obj.committed \/ straggled'
                          /\ HasTemplate => template # "none" \/ straggled'
    /\ call = "deleteTemplate" => inst.owner # "ours" \/ straggled'
    /\ call \in {"createTemplate", "deleteTemplate"} /\ template = "foreign" => crossed_
    /\ call = "delete" /\ inst.owner = "foreign" => crossed_

LEMMA EffectKeeps ==
  ASSUME MachineInv, NEW call \in CallNames, NEW p \in BOOLEAN, Effect(call, p), Harmless(call, p),
         pending' \subseteq pending, straggled => straggled', UNCHANGED <<kind, obj, crossed_>>
  PROVE  Late' /\ Things' /\ RetriesAreHarmless'
<1>1. CMTypes /\ Late /\ Things /\ RetriesAreHarmless
  BY DEF MachineInv
<1>2. /\ inst' \in [owner : Owners, state : InstanceStates] /\ template' \in Owners
      /\ template' # template => \/ call = "createTemplate" /\ template' = "ours"
                                 \/ call = "deleteTemplate" /\ template' = "none"
      /\ inst'.owner # inst.owner => \/ call = "create" /\ inst'.owner = "ours"
                                     \/ call = "delete" /\ inst'.owner = "none"
      /\ marred' # marred => \/ call \in {"createTemplate", "deleteTemplate"} /\ template = "foreign"
                                   /\ marred' = marred \cup {"foreign"}
                             \/ call = "delete" /\ inst.owner = "foreign" /\ marred' = marred \cup {"foreign"}
                             \/ call = "create" /\ p
  BY <1>1, Effects
<1>3. HasTemplate' = HasTemplate
  BY DEF HasTemplate
<1>4. Late'
  BY <1>1, <1>2, <1>3 DEF Late
<1>5. Things'
  BY <1>1, <1>2, <1>3 DEF Things, Harmless
<1>6. RetriesAreHarmless'
  <2>1. CASE marred' = marred
    BY <1>1, <2>1 DEF RetriesAreHarmless
  <2>2. CASE marred' # marred
    <3>1. crossed_ /\ marred' = marred \cup {"foreign"}
      BY <1>2, <2>2 DEF Harmless
    <3>2. QED BY <1>1, <3>1 DEF RetriesAreHarmless
  <2>3. QED BY <2>1, <2>2
<1>7. QED BY <1>4, <1>5, <1>6

\* A call of the reconcile, with or without an answer.
LEMMA StepKeeps ==
  ASSUME MachineInv, NEW at, NEW call \in CallNames,
         NEW then \in {"idle"} \cup Creating \cup Removing, Step(at, call, then),
         straggled' = straggled => Harmless(call, rec.obj.provided),
         ~HasTemplate => call # "createTemplate",
         then # "idle" /\ Calls(call, then) => Standing'
  PROVE  MachineInv'
<1>1. /\ CMTypes /\ Cached /\ UNCHANGED <<kind, obj, view, straggled, crossed_>>
      /\ rec.obj.provided \in BOOLEAN
  BY DEF MachineInv, Step, Calls, NoAnswer, server, CMTypes, Objects
<1>2. Harmless(call, rec.obj.provided) /\ Cached' /\ HasTemplate' = HasTemplate
  BY <1>1 DEF Cached, HasTemplate
<1>3. rec' \in [at : {"idle", "commit"} \cup Creating \cup Removing, obj : Objects] /\ Standing'
  <2>1. CASE Ends_
    BY <2>1, IdleStands
  <2>2. CASE ~Ends_
    <3>1. Calls(call, then) /\ then # "idle"
      BY <2>2 DEF Step, NoAnswer, Calls, Goes_
    <3>2. QED BY <1>1, <3>1, Moved DEF Calls
  <2>3. QED BY <2>1, <2>2
<1>4. CASE Effect(call, rec.obj.provided) /\ UNCHANGED pending
  <2>1. Late' /\ Things' /\ RetriesAreHarmless'
    BY <1>1, <1>2, <1>4, EffectKeeps
  <2>2. CMTypes'
    BY <1>1, <1>3, <1>4, Effects DEF CMTypes
  <2>3. QED BY <1>2, <1>3, <2>1, <2>2 DEF MachineInv
<1>5. CASE pending' \in {pending, pending \cup {call}} /\ UNCHANGED <<inst, template, marred>>
  <2>1. CMTypes'
    BY <1>1, <1>3, <1>5 DEF CMTypes
  <2>2. Late'
    BY <1>1, <1>2, <1>5 DEF MachineInv, Late, Harmless
  <2>3. Things' /\ RetriesAreHarmless'
    BY <1>1, <1>2, <1>5 DEF MachineInv, Things, RetriesAreHarmless
  <2>4. QED BY <1>2, <1>3, <2>1, <2>2, <2>3 DEF MachineInv
<1>6. QED BY <1>4, <1>5 DEF Step, Calls, NoAnswer, server

LEMMA MachineCalls ==
  ASSUME MachineInv,
         \/ Step("createTemplate", "createTemplate", "create")
         \/ Step("create", "create", IF kind = "VM" THEN "report" ELSE "idle")
         \/ Step("verifyCreate", "createTemplate", "deploy")
         \/ Step("deploy", "deploy", "report")
         \/ Step("delete", "delete", AfterDelete)
         \/ Step("deleteTemplate", "deleteTemplate", "finalize")
  PROVE  MachineInv'
<1>1. PICK at \in {"createTemplate", "create", "verifyCreate", "deploy", "delete", "deleteTemplate"},
           call \in CallNames, then \in {"idle"} \cup Creating \cup Removing :
          /\ Step(at, call, then)
          /\ at \in {"createTemplate", "verifyCreate"} <=> call = "createTemplate"
          /\ at \notin {"createTemplate", "verifyCreate"} => call = at
          /\ at = "createTemplate" => then = "create"
          /\ at \in {"create", "verifyCreate", "deploy"} => then \in {"report", "deploy", "idle"}
          /\ at = "delete" => then \in {"confirm", "idle"}
          /\ at = "deleteTemplate" => then = "finalize"
  BY DEF CallNames, Creating, Removing, AfterDelete
<1>2. At(at) /\ Standing /\ Things /\ CMTypes
  BY <1>1 DEF Step, MachineInv
<1>3. /\ at \in {"createTemplate", "create", "verifyCreate", "deploy"} => obj.committed
      /\ at \in {"delete", "deleteTemplate"} => view.deleting
      /\ at \in {"createTemplate", "create"} => ~rec.obj.provided
      /\ at \in {"createTemplate", "verifyCreate"} => HasTemplate
      /\ at = "create" /\ HasTemplate => template # "none" \/ straggled
      /\ at = "deleteTemplate" => inst.owner # "ours" \/ straggled
      /\ at \in {"createTemplate", "verifyCreate", "deleteTemplate"} /\ template = "foreign" => crossed_
      /\ at = "delete" /\ inst.owner = "foreign" => crossed_
  BY <1>2 DEF Standing, At, Creating, Removing
<1>4. straggled' = straggled => Harmless(call, rec.obj.provided)
  BY <1>1, <1>3 DEF Harmless
<1>5. ASSUME then # "idle", Calls(call, then) PROVE Standing'
  <2>1. rec'.at = then /\ rec'.obj = rec.obj
    BY <1>1, <1>2, <1>5, Moved DEF Calls
  <2>2. UNCHANGED <<kind, obj, view, straggled>> /\ HasTemplate' = HasTemplate
    BY <1>5 DEF Calls, HasTemplate
  <2>3. /\ call = "createTemplate" => template' = "ours"
        /\ call = "deleteTemplate" => template' = "none"
        /\ inst'.owner # inst.owner => call \in {"create", "delete"}
    <3>1. Effect(call, rec.obj.provided) /\ rec.obj.provided \in BOOLEAN
      BY <1>2, <1>5 DEF Calls, CMTypes, Objects
    <3>2. QED BY <1>2, <3>1, Effects
  <2>4. QED BY <1>1, <1>3, <1>5, <2>1, <2>2, <2>3 DEF Standing, Creating, Removing
<1>6. QED BY <1>1, <1>3, <1>4, <1>5, StepKeeps

-----------------------------------------------------------------------------
(* What happens beside the reconcile                                       *)

LEMMA MachineStraggles ==
  ASSUME MachineInv, NEW call \in pending, Straggle(call)
  PROVE  MachineInv'
<1>1. /\ CMTypes /\ call \in CallNames /\ Effect(call, FALSE) /\ straggled' = TRUE
      /\ pending' \subseteq pending /\ UNCHANGED <<kind, obj, view, rec, crossed_>>
  BY DEF MachineInv, CMTypes, Straggle
<1>2. Harmless(call, FALSE)
  BY <1>1 DEF Harmless, MachineInv, Late
<1>3. Late' /\ Things' /\ RetriesAreHarmless'
  BY <1>1, <1>2, EffectKeeps
<1>4. /\ inst' \in [owner : Owners, state : InstanceStates] /\ template' \in Owners
      /\ template' = "foreign" => template = "foreign"
      /\ inst'.owner = "foreign" => inst.owner = "foreign"
  BY <1>1, Effects
<1>5. CMTypes' /\ Cached'
  BY <1>1, <1>4 DEF MachineInv, CMTypes, Cached
<1>6. Standing'
  BY <1>1, <1>4 DEF MachineInv, Standing, HasTemplate
<1>7. QED BY <1>3, <1>5, <1>6 DEF MachineInv

LEMMA Outcome ==
  ASSUME NEW state, NEW t \in Outcomes(state) \cup Retried(state)
  PROVE  t \in {"done", "error", "Applied", "Unproven", "Ready", "Failed", "Released", "CleanFailed", "Deploying", "Releasing"}
<1>1. CASE state \in {"provisioning", "Deploying", "Applied", "Releasing", "Failed", "CleanFailed"}
  BY <1>1 DEF Outcomes, Retried
<1>2. CASE state \notin {"provisioning", "Deploying", "Applied", "Releasing", "Failed", "CleanFailed"}
  BY <1>2 DEF Outcomes, Retried
<1>3. QED BY <1>1, <1>2

LEMMA MachineBeside ==
  ASSUME MachineInv,
         \/ CatchUp \/ DeleteObject \/ BootstrapReady \/ LinkChanges
         \/ InstanceMoves \/ RetryClaim \/ InstanceVanishes \/ ForeignAppears
  PROVE  MachineInv'
<1>1. CMTypes /\ Cached /\ Standing /\ Late /\ Things /\ RetriesAreHarmless
  BY DEF MachineInv
<1>2. CASE CatchUp \/ BootstrapReady \/ LinkChanges
  <2>1. /\ view' \in {view, obj}
        /\ UNCHANGED <<kind, obj, rec, inst, template, pending, straggled, marred, crossed_>>
    BY <1>2 DEF CatchUp, BootstrapReady, LinkChanges, server
  <2>2. CMTypes' /\ Cached'
    BY <1>1, <2>1 DEF CMTypes, Cached
  <2>3. Standing'
    BY <1>1, <2>1 DEF Standing, Cached, HasTemplate
  <2>4. QED BY <1>1, <2>1, <2>2, <2>3 DEF MachineInv, Late, Things, RetriesAreHarmless, HasTemplate
<1>3. CASE DeleteObject
  <2>1. UNCHANGED <<kind, view, rec, inst, template, pending, straggled, marred, crossed_>>
    BY <1>3 DEF DeleteObject, server
  <2>2. obj' \in Objects /\ obj'.deleting = TRUE /\ obj'.exists = obj.committed /\ obj'.committed = obj.committed
    BY <1>1, <1>3 DEF DeleteObject, CMTypes, Objects
  <2>3. CMTypes' /\ Cached'
    BY <1>1, <2>1, <2>2 DEF CMTypes, Cached
  <2>4. QED BY <1>1, <2>1, <2>2, <2>3 DEF MachineInv, Standing, Late, Things, RetriesAreHarmless, HasTemplate
<1>4. CASE InstanceMoves \/ RetryClaim \/ InstanceVanishes
  <2>1. UNCHANGED <<kind, obj, view, rec, template, pending, straggled, marred, crossed_>>
    BY <1>4 DEF InstanceMoves, RetryClaim, Turns, InstanceVanishes
  <2>2. inst' \in [owner : Owners, state : InstanceStates] /\ inst.owner = "ours" /\ inst'.owner \in {"ours", "none"}
    <3>1. CASE InstanceMoves \/ RetryClaim
      <4>1. PICK t : t \in Outcomes(inst.state) \cup Retried(inst.state) /\ Turns(t)
        BY <3>1 DEF InstanceMoves, RetryClaim
      <4>2. t \in {"Released"} \cup InstanceStates
        BY <4>1, Outcome DEF InstanceStates
      <4>3. /\ Nothing \in [owner : Owners, state : InstanceStates] /\ Nothing.owner = "none"
            /\ t \in InstanceStates => Ours(t) \in [owner : Owners, state : InstanceStates] /\ Ours(t).owner = "ours"
        BY DEF Nothing, Ours, Owners, InstanceStates
      <4>4. QED BY <4>1, <4>2, <4>3 DEF Turns
    <3>2. CASE InstanceVanishes
      BY <3>2 DEF InstanceVanishes, Nothing, Owners, InstanceStates
    <3>3. QED BY <1>4, <3>1, <3>2
  <2>3. CMTypes' /\ Cached'
    BY <1>1, <2>1, <2>2 DEF CMTypes, Cached
  <2>4. QED BY <1>1, <2>1, <2>2, <2>3 DEF MachineInv, Standing, Late, Things, RetriesAreHarmless, HasTemplate
<1>5. CASE ForeignAppears
  <2>1. UNCHANGED <<kind, obj, view, rec, pending, straggled, marred>> /\ (crossed_ => crossed_') /\ crossed_' \in BOOLEAN
    BY <1>1, <1>5 DEF ForeignAppears, CMTypes
  <2>2. /\ inst' \in [owner : Owners, state : InstanceStates] /\ template' \in Owners
        /\ inst' = inst \/ (inst.owner = "none" /\ inst'.owner = "foreign")
        /\ template' = template \/ (template = "none" /\ template' = "foreign")
    <3>1. CASE inst = Nothing /\ inst' = [Nothing EXCEPT !.owner = "foreign"] /\ UNCHANGED template
      <4>1. /\ [Nothing EXCEPT !.owner = "foreign"] \in [owner : Owners, state : InstanceStates]
            /\ [Nothing EXCEPT !.owner = "foreign"].owner = "foreign" /\ Nothing.owner = "none"
        BY DEF Nothing, Owners, InstanceStates
      <4>2. QED BY <1>1, <3>1, <4>1 DEF CMTypes
    <3>2. CASE template = "none" /\ template' = "foreign" /\ UNCHANGED inst
      BY <1>1, <3>2 DEF CMTypes, Owners
    <3>3. QED BY <1>5, <3>1, <3>2 DEF ForeignAppears
  <2>3. rec.at = "idle" \/ crossed_'
    BY <1>5 DEF ForeignAppears, At
  <2>4. pending = {} \/ crossed_'
    BY <1>5 DEF ForeignAppears
  <2>5. CMTypes' /\ Cached'
    BY <1>1, <2>1, <2>2 DEF CMTypes, Cached
  <2>6. Standing'
    BY <1>1, <2>1, <2>2, <2>3 DEF Standing, HasTemplate, Creating, Removing
  <2>7. Late'
    BY <1>1, <2>1, <2>2, <2>4 DEF Late, HasTemplate
  <2>8. Things' /\ RetriesAreHarmless'
    BY <1>1, <2>1, <2>2 DEF Things, RetriesAreHarmless, HasTemplate
  <2>9. QED BY <2>5, <2>6, <2>7, <2>8 DEF MachineInv
<1>6. QED BY <1>2, <1>3, <1>4, <1>5

LEMMA MachineStep == MachineInv /\ [CMNext]_cmVars => MachineInv'
<1> SUFFICES ASSUME MachineInv, [CMNext]_cmVars PROVE MachineInv'
  OBVIOUS
<1>1. CASE ReconcileStep
  BY <1>1, MachineBegins, MachineGets, MachineTemplateGets, MachineRemovalReads, MachinePatches, MachineCalls
     DEF ReconcileStep
<1>2. CASE \/ CatchUp \/ DeleteObject \/ BootstrapReady \/ LinkChanges
         \/ InstanceMoves \/ RetryClaim \/ InstanceVanishes \/ ForeignAppears
  BY <1>2, MachineBeside
<1>3. CASE \E call \in pending : Straggle(call)
  BY <1>3, MachineStraggles
<1>4. CASE UNCHANGED cmVars
  BY <1>4 DEF cmVars, MachineInv, CMTypes, Cached, Standing, Late, Things, RetriesAreHarmless, HasTemplate
<1>5. QED BY <1>1, <1>2, <1>3, <1>4 DEF CMNext

(* Whatever calls fail, lose their answer or come late, and whatever the      *)
(* cache showed, a GomiMachine leaves no instance or template behind that a   *)
(* late call did not make, and no instance loses its template first           *)
(* (gomimachine_controller.go, remove and removeBareMetal).                   *)
THEOREM NothingIsOrphaned == CMSpec => []NoOrphans
<1>1. MachineInv => NoOrphans
  BY DEF MachineInv, Cached, Things, NoOrphans
<1>2. QED BY MachineStart, MachineStep, <1>1, PTL DEF CMSpec

(* Repeated and late calls never touch what somebody else put under the id,   *)
(* unless it was put there under a running reconcile or a late call, and a    *)
(* machine that was provisioned is not created again (OwnedBy, MayCreate).    *)
THEOREM RetriesHarmNobody == CMSpec => []RetriesAreHarmless
<1>1. MachineInv => RetriesAreHarmless
  BY DEF MachineInv
<1>2. QED BY MachineStart, MachineStep, <1>1, PTL DEF CMSpec
=============================================================================
