--------------------------- MODULE OwnerReadiness ---------------------------
(***************************************************************************)
(* IsOwnerServiceReady of package object (object.go, kept in               *)
(* src/modules/common/clusterrole/clusterrole.go), called by a child's     *)
(* controller while the child's controller owner is updated, reconciled    *)
(* and deleted.                                                            *)
(*                                                                         *)
(* The owner is read with one Get, so the verdict is a function of one     *)
(* snapshot of the owner: its existence, metadata.generation,              *)
(* status.conditions and status.observedGeneration.  Which of those        *)
(* fields an owner carries depends on its kind: a ConfigMap has no        *)
(* status, a Pod has conditions but no observedGeneration, a Deployment    *)
(* or a custom resource has both.                                          *)
(*                                                                         *)
(* The owner's own controller is the environment: a spec update bumps      *)
(* generation; a reconcile of the owner reads the generation when it       *)
(* starts and writes its status (Ready, and observedGeneration = the       *)
(* generation it read) in one status patch when it ends, so a spec update  *)
(* can fall between the two.                                               *)
(***************************************************************************)
EXTENDS Naturals, Sequences

CONSTANTS
    OwnerKinds,        \* the kinds the owner may have
    MaxGeneration,     \* bound on the owner's metadata.generation
    MaxGetFailures,    \* bound on the Gets of the owner that fail
    Absent,            \* a field NestedSlice/NestedInt64 does not find
    ResetsReady        \* the owner's controller resets Ready when it starts

ASSUME ReadinessAssumption ==
    /\ OwnerKinds \subseteq {"ConfigMap", "Pod", "Deployment"}
    /\ MaxGeneration \in Nat \ {0}
    /\ MaxGetFailures \in Nat
    /\ ResetsReady \in BOOLEAN
    /\ Absent \notin Nat

(* Kinds of owner, by the status fields they carry.                       *)
HasConditions(k) == k \in {"Pod", "Deployment"}
HasObservedGeneration(k) == k = "Deployment"

(* A reference of the child: to the owner or to some other object, with   *)
(* its controller flag and whether its apiVersion parses.                 *)
ChildRef == [toOwner : BOOLEAN, controller : BOOLEAN, apiVersionOk : BOOLEAN]

(* The children's ownerReferences lists the model starts from: none, a    *)
(* non-controller reference before the controller one, a controller       *)
(* reference with a malformed apiVersion, and one to a deleted object.    *)
ChildRefLists ==
    { <<>>,
      <<[toOwner |-> FALSE, controller |-> FALSE, apiVersionOk |-> TRUE],
        [toOwner |-> TRUE, controller |-> TRUE, apiVersionOk |-> TRUE]>>,
      <<[toOwner |-> TRUE, controller |-> TRUE, apiVersionOk |-> FALSE]>>,
      <<[toOwner |-> FALSE, controller |-> TRUE, apiVersionOk |-> TRUE]>> }

VARIABLES
    childRefs,      \* the child's metadata.ownerReferences
    kind,           \* the owner's kind
    ownerExists,    \* the owner is stored by the API server
    generation,     \* owner metadata.generation
    ready,          \* owner Ready condition status: "True", "False" or Absent
    observedGen,    \* owner status.observedGeneration, or Absent
    reconciling,    \* generation the owner's running reconcile read, or 0
    reconciled,     \* generation the owner's last finished reconcile read, or 0
    getFailures,    \* Gets of the owner that failed so far
    verdict         \* the child's last <<ready, err>> from IsOwnerServiceReady

owner == <<ownerExists, generation, ready, observedGen, reconciling, reconciled>>

vars == <<childRefs, kind, owner, getFailures, verdict>>

NoVerdict == <<FALSE, "none">>

-----------------------------------------------------------------------------
(* The first reference with controller == true (the range loop with       *)
(* break); 0 when there is none.                                           *)
ControllerIndex(refs) ==
    IF \E i \in DOMAIN refs : refs[i].controller
    THEN CHOOSE i \in DOMAIN refs :
             /\ refs[i].controller
             /\ \A j \in 1 .. (i - 1) : ~refs[j].controller
    ELSE 0

(* Mutants of OwnerStatusReady, plausible bugs of the check: the          *)
(* observedGeneration comparison left out, or written one off.            *)
OwnerStatusReadyNoFence(k, gen, rdy, obs) ==
    /\ HasConditions(k)
    /\ rdy = "True"

OwnerStatusReadyOffByOne(k, gen, rdy, obs) ==
    /\ HasConditions(k)
    /\ rdy = "True"
    /\ HasObservedGeneration(k)
    /\ obs # Absent
    /\ obs = gen + 1

(* The checks on the fetched owner, in the code's order: Ready=True in    *)
(* status.conditions, then generation and observedGeneration both found   *)
(* and equal.  Absent fields mean "wait", never an error.                 *)
OwnerStatusReady(k, gen, rdy, obs) ==
    /\ HasConditions(k)
    /\ rdy = "True"
    /\ HasObservedGeneration(k)
    /\ obs # Absent
    /\ obs = gen

(* IsOwnerServiceReady does Get the controller owner: it has a           *)
(* controller reference whose apiVersion parses.                          *)
GetsOwner(refs) ==
    /\ ControllerIndex(refs) # 0
    /\ refs[ControllerIndex(refs)].apiVersionOk

(* Mutant of IsOwnerServiceReady: the apiVersion parse error returned     *)
(* together with ready = true.                                             *)
IsOwnerServiceReadyWrongErr(refs, exists, k, gen, rdy, obs) ==
    LET i == ControllerIndex(refs)
    IN  IF i = 0 THEN <<TRUE, "nil">>
        ELSE IF ~refs[i].apiVersionOk THEN <<TRUE, "err">>
        ELSE IF ~(refs[i].toOwner /\ exists) THEN <<TRUE, "nil">>
        ELSE IF OwnerStatusReady(k, gen, rdy, obs) THEN <<TRUE, "nil">>
        ELSE <<FALSE, "nil">>

(* IsOwnerServiceReady(obj) for a child with ownerReferences refs, when   *)
(* the Get (if made) returns the owner in the state given or NotFound:    *)
(* <<ready, err>>.                                                         *)
IsOwnerServiceReady(refs, exists, k, gen, rdy, obs) ==
    LET i == ControllerIndex(refs)
    IN  IF i = 0 THEN <<TRUE, "nil">>
        ELSE IF ~refs[i].apiVersionOk THEN <<FALSE, "err">>
        ELSE IF ~(refs[i].toOwner /\ exists) THEN <<TRUE, "nil">>
        ELSE IF OwnerStatusReady(k, gen, rdy, obs) THEN <<TRUE, "nil">>
        ELSE <<FALSE, "nil">>

(* The child's controller reference is to the owner and parses.           *)
PointsToOwner(refs) ==
    GetsOwner(refs) /\ refs[ControllerIndex(refs)].toOwner

-----------------------------------------------------------------------------
Init ==
    /\ childRefs \in ChildRefLists
    /\ kind \in OwnerKinds
    /\ ownerExists = TRUE
    /\ generation = 1
    /\ ready = Absent
    /\ observedGen = Absent
    /\ reconciling = 0
    /\ reconciled = 0
    /\ getFailures = 0
    /\ verdict = NoVerdict

(* Environment: the owner's spec is changed; generation is bumped.        *)
UpdateOwnerSpec ==
    /\ ownerExists
    /\ generation < MaxGeneration
    /\ generation' = generation + 1
    /\ UNCHANGED <<childRefs, kind, ownerExists, ready, observedGen,
                   reconciling, reconciled, getFailures, verdict>>

(* Environment: the owner's controller starts a reconcile (kinds without  *)
(* status have none) and reads the owner's generation.                    *)
StartOwnerReconcile ==
    /\ ownerExists
    /\ HasConditions(kind)
    /\ reconciling = 0
    /\ reconciling' = generation
    /\ UNCHANGED <<childRefs, kind, ownerExists, generation, ready, observedGen,
                   reconciled, getFailures, verdict>>

(* Environment: the reconcile ends and patches the status of its kind:    *)
(* Ready, and observedGeneration = the generation it read.                *)
FinishOwnerReconcile ==
    /\ ownerExists
    /\ reconciling # 0
    /\ \E r \in {"True", "False"} : ready' = r
    /\ observedGen' = IF HasObservedGeneration(kind) THEN reconciling ELSE Absent
    /\ reconciled' = reconciling
    /\ reconciling' = 0
    /\ UNCHANGED <<childRefs, kind, ownerExists, generation, getFailures, verdict>>

(* Environment: the reconcile returns early (a sub-step is not done yet)  *)
(* and its deferred status patch writes observedGeneration = the          *)
(* generation it read, before that generation is fully processed.  Ready  *)
(* is then "not True" when the controller reset its conditions at the     *)
(* start (ResetsReady, as condition.Conditions.Init does), or still the   *)
(* Ready of the last reconcile otherwise.                                  *)
PatchStatusEarly ==
    /\ ownerExists
    /\ reconciling # 0
    /\ ready' = IF ResetsReady THEN "False" ELSE ready
    /\ observedGen' = IF HasObservedGeneration(kind) THEN reconciling ELSE Absent
    /\ reconciling' = 0
    /\ UNCHANGED <<childRefs, kind, ownerExists, generation, reconciled,
                   getFailures, verdict>>

(* Environment: the owner is deleted.                                     *)
DeleteOwner ==
    /\ ownerExists
    /\ ownerExists' = FALSE
    /\ reconciling' = 0
    /\ UNCHANGED <<childRefs, kind, generation, ready, observedGen, reconciled,
                   getFailures, verdict>>

(* The child's controller calls IsOwnerServiceReady, and the Get of the   *)
(* owner, if made, returns it or NotFound.                                 *)
CheckOwnerReady ==
    /\ verdict' = IsOwnerServiceReady(childRefs, ownerExists, kind,
                                      generation, ready, observedGen)
    /\ UNCHANGED <<childRefs, kind, owner, getFailures>>

(* The Get of the owner fails with another error: returned as (false, err). *)
CheckOwnerReadyGetFails ==
    /\ GetsOwner(childRefs)
    /\ getFailures < MaxGetFailures
    /\ getFailures' = getFailures + 1
    /\ verdict' = <<FALSE, "err">>
    /\ UNCHANGED <<childRefs, kind, owner>>

Next ==
    \/ UpdateOwnerSpec
    \/ StartOwnerReconcile
    \/ FinishOwnerReconcile
    \/ PatchStatusEarly
    \/ DeleteOwner
    \/ CheckOwnerReady
    \/ CheckOwnerReadyGetFails

(* The child's controller requeues while it waits, and the owner's        *)
(* controller runs the reconciles a spec change triggers.                 *)
Fairness ==
    /\ WF_vars(CheckOwnerReady)
    /\ WF_vars(StartOwnerReconcile)
    /\ WF_vars(FinishOwnerReconcile)

Spec == Init /\ [][Next]_vars

FairSpec == Spec /\ Fairness

-----------------------------------------------------------------------------
TypeOK ==
    /\ childRefs \in ChildRefLists
    /\ kind \in OwnerKinds
    /\ ownerExists \in BOOLEAN
    /\ generation \in 1 .. MaxGeneration
    /\ ready \in {"True", "False", Absent}
    /\ observedGen \in (1 .. MaxGeneration) \cup {Absent}
    /\ reconciling \in 0 .. MaxGeneration
    /\ reconciled \in 0 .. MaxGeneration
    /\ getFailures \in 0 .. MaxGetFailures
    /\ verdict \in {NoVerdict, <<TRUE, "nil">>, <<FALSE, "nil">>, <<FALSE, "err">>}

(* Observed-generation fencing: IsOwnerServiceReady returns ready for an  *)
(* existing owner only when the owner's controller has finished a         *)
(* reconcile of the generation the owner has now, and that reconcile      *)
(* ended Ready; a Ready left over from an older generation never lets the *)
(* child proceed.                                                          *)
FenceHolds ==
    [][ (/\ CheckOwnerReady
         /\ verdict' = <<TRUE, "nil">>
         /\ PointsToOwner(childRefs)
         /\ ownerExists)
        => (reconciled = generation /\ ready = "True") ]_vars

(* The inductive invariant behind FenceHolds when the owner's controller *)
(* resets Ready as it starts: the generations the owner's controller read *)
(* and wrote never run ahead of metadata.generation, and an owner whose    *)
(* status says Ready with observedGeneration current has had that          *)
(* generation fully reconciled.                                            *)
FenceInv ==
    /\ reconciling <= generation
    /\ reconciled <= generation
    /\ observedGen # Absent => observedGen <= generation
    /\ (ready = "True" /\ observedGen = generation) => reconciled = generation

(* The owner has settled: its controller's last reconcile read the        *)
(* current generation and ended Ready, and the child's controller         *)
(* reference names it.                                                     *)
Settled ==
    /\ PointsToOwner(childRefs)
    /\ ownerExists
    /\ reconciled = generation
    /\ ready = "True"

(* A child whose owner settles is eventually told it may proceed.         *)
EventuallyProceeds ==
    (<>[]Settled) => <>(verdict = <<TRUE, "nil">>)

=============================================================================
