# TLA+ models of lib-common's object, clusterrole and webhook helpers

This directory holds TLA+ specifications of the Go helpers under `src/modules/common`, together with:
- TLC configurations that model-check them on small instances;
- TLAPS proofs of the main safety properties of the owner-reference registry, the readiness fence and its composition with the registry, the ClusterRole reconciler, and the webhook UPDATE path.

## The system

The library has three independent areas. Each is called from an operator's reconcile loop. The state they act on lives in the Kubernetes API server.

| Part | Source | State it changes | Operations |
|---|---|---|---|
| Owner-reference registry | `clusterrole/clusterrole.go` lines 100–217 (the `object` package file is kept there) | a target object's `metadata.ownerReferences` | `CheckOwnerRefExist`, `PatchOwnerRef`, `EnsureOwnerRef` |
| Owner readiness | same file, 219–326 | none (it reads the controller owner with one Get) | `IsOwnerServiceReady` |
| ClusterRole reconciler | `clusterrole.go` 1–99 | the cluster-scoped ClusterRole: labels, annotations, rules, controller reference | `NewClusterRole`, `CreateOrPatch`, `Delete` |
| Deprecated-field validators | `webhook/deprecated.go` | none (the calling webhook admits or rejects a request) | the two checks, their Ptr variants, `ValidateDeprecatedFieldsCreate`, `ValidateDeprecatedFieldsUpdate` |

How the parts interact:
- Through the API server, an operator typically:
  - creates a child with a controller reference (`SetControllerReference`, as `CreateOrPatch` does);
  - adds further owners with `EnsureOwnerRef`;
  - gates work on `IsOwnerServiceReady`, which follows the child's controller reference.
- That is why `EnsureOwnerRef`'s demotion of a controller reference (below) matters to readiness. A demoted child has no controller, so `IsOwnerServiceReady` answers "ready" without looking at any owner.

What makes these helpers hard even though each is short:
- Every function does a read and a write through an API server that other actors change concurrently:
  - other owners' reconcilers;
  - users;
  - the owner's own controller;
  - the garbage collector.
- The writes are JSON merge patches without a resourceVersion, so nothing detects a concurrent change.

## Modules

| Module | Models | State (VARIABLES) | Actions |
|---|---|---|---|
| `OwnerRef` | `EnsureOwnerRef` run by several owners' workers on one target | `exists`, `refs` (stored list), `snap[w]` (worker's copy), `pc[w]`, `result[w]`, counters | `GetTarget(w)`; the four returns of `EnsureOwnerRef(w)`: `EnsureOwnerRefNoop`, `EnsureOwnerRefPatched`, `EnsureOwnerRefNotFound`, `EnsureOwnerRefFailed`; environment `DeleteTarget`, `CreateTarget` |
| `OwnerReadiness` | `IsOwnerServiceReady` of one child against its owner | the child's references, the owner's kind, existence, generation, Ready, observedGeneration, the owner controller's running and last reconcile, the last verdict | `CheckOwnerReady`, `CheckOwnerReadyGetFails`; environment `UpdateOwnerSpec`, `StartOwnerReconcile`, `FinishOwnerReconcile`, `DeleteOwner` |
| `ClusterRole` | `CreateOrPatch`, `Delete` against the live ClusterRole | `exists`, `live`, `snap`, `pc`, `result`, counters, `cleanup` | `GetClusterRole`, then one of `CreateClusterRole`, `CreateAlreadyExists`, `MutateAlreadyOwned`, `PatchUnchanged`, `PatchClusterRole`, `PatchNotFound`; `Delete`; environment `UserEdit`, `UserDelete`, `OtherCreate` |
| `Webhook` | the validators as one resource's admission requests see them | `created`, `stored` (field pairs), `warnings`, `errors`, `requests` | `Create(req)`, `Update(req)` |
| `OwnedChildReadiness` | `OwnerRef` and `OwnerReadiness` on one child: other owners run `EnsureOwnerRef` while the child's controller calls `IsOwnerServiceReady` | the variables of both | `OwnerReferenceStep`, `OwnerControllerStep`, `ChildReconcile` |
| `OwnerRefProofs`, `OwnerReadinessProofs`, `WebhookProofs`, `ClusterRoleProofs`, `OwnedChildReadinessProofs` | TLAPS proofs about `OwnerRef`, `OwnerReadiness`, `Webhook`, `ClusterRole` and the composition | | |
| `MCOwnerRef`, `MCOwnerReadiness`, `MCClusterRole`, `MCWebhook`, `MCOwnedChildReadiness` | model values and small sets for TLC | | |

### OwnerRef

How the code maps to the model:
- An owner reference is a record `[uid, controller]`. The uid stands for apiVersion, kind and name, as `CheckOwnerRefExist` compares only UIDs.
- `SetOwnerReference` is controller-runtime's upsert. A reference to the same owner is overwritten by a new reference with `controller` unset. Otherwise the new reference is appended.
- `PatchOwnerRef` returns the mutated list.
- `HasMetadataDiff` is the code's `patchDiff["metadata"]` test. A merge patch has a `metadata` key exactly when the list changed.
- A patch that is sent sets the stored list to the caller's list, since a JSON merge patch replaces lists whole and carries no resourceVersion.
- The Get of the target and the `EnsureOwnerRef` call are separate steps. Other workers and the environment can run between them.
- `Ctrl` created the target with its controller reference. `DeleteTarget` and `CreateTarget` model deletion and the controller re-creating it.

### OwnerReadiness

How the code maps to the model:
- `IsOwnerServiceReady` is a pure operator over one snapshot of the owner, with the code's early returns in order:
  1. no controller reference;
  2. an apiVersion that does not parse;
  3. a failed Get (its own action);
  4. NotFound, or a reference to another object;
  5. conditions without Ready=True;
  6. a missing observedGeneration;
  7. `observedGeneration != generation`.
- Owner kinds follow `object_generation_test.go`:
  - a ConfigMap has no status;
  - a Pod has conditions but no observedGeneration;
  - a Deployment has both.

  For Pod and ConfigMap owners the check returns (false, nil) by design: `object_test.go` asserts it, and spec §8 states it. `EventuallyProceeds` is therefore about Deployment owners. For a ConfigMap owner, `Settled` never holds, and the property holds vacuously.
- The owner's controller is the environment. Its reconcile reads the generation in one step and writes Ready and observedGeneration in another, so a spec update can fall between the two.
- A reconcile may also return early (`PatchStatusEarly`). Its deferred status patch then writes observedGeneration for the generation it read before that generation is processed. The constant `ResetsReady` says what Ready holds at that point:
  - TRUE: "not True", for controllers that reset their conditions at the start, as `condition.Conditions.Init` does;
  - FALSE: the Ready of the previous reconcile.

### ClusterRole

How the code maps to the model:
- `controllerutil.CreateOrPatch` is a Get step followed by one of the write steps listed in the table.
- `Mutate` is the closure at lines 57–65, including the `Labels`/`Annotations` mix-up at line 59. `SetControllerReference` fails when another owner controls the object.
- `ApplyMergePatch` is the API server applying a JSON merge patch. It sets the keys that differ between the fetched copy and the mutated one, and replaces rules and the controller reference when they differ.
- `util.MergeStringMaps` is not in this repository. It is modelled from the spec (the second map wins on a shared key) and marked spec-modelled.

### OwnedChildReadiness

How the two halves compose:
- `OwnerRef`'s `refs` is the child's stored ownerReferences, and `OwnerReadiness`'s `childRefs` is mapped onto it: `Gate == INSTANCE OwnerReadiness WITH childRefs <- ChildView(refs)`.
- `ChildView` marks the references that name `Ctrl`, the owner whose status is modelled. Every apiVersion parses, since `EnsureOwnerRef` writes the owner's own.
- The child's controller checks readiness only while the child exists. `Ctrl` is not deleted, because its deletion would garbage-collect the child.
- The module EXTENDS `OwnerRef`, so its variables and `Next` are the composition's reference half. `CInit` adds the owner's initial state, with the owner existing. `CNext` interleaves three kinds of step:
  - `OwnerReferenceStep`: a step of `OwnerRef` with the owner untouched;
  - `OwnerControllerStep`: a step of the owner's controller, with the child untouched;
  - `ChildReconcile`: a readiness check by the child's controller.

  `CSpec == CInit /\ [][CNext]_cvars` carries no fairness, since `GateHolds` is a safety property. `OwnedChildAssumption` names the owner-side constant assumptions.

### Webhook

How the code maps to the model:
- A warning or error is a pair (field, kind); the wording is left out.
- A `*string` is `Nil`, `""` or a name, and `Deref` is the Ptr variants' nil handling.
- The calling webhook admits every CREATE, since `ValidateDeprecatedFieldsCreate` returns only warnings. It admits an UPDATE when `ValidateDeprecatedFieldsUpdate` returns no errors.
- `ValidateDeprecatedFieldConflict`'s early returns are a `CASE` with disjoint arms, one per return.

## Runs

| Run | cfg | Expect | Properties | What it shows |
|---|---|---|---|---|
| ownerref_converge | `MCOwnerRef.cfg` | pass | ControllerRefKept, IInv, Converges | With stale copies, failed patches and a delete/re-create, the controller reference is never lost, and level-triggered retries reach a list with every owner |
| ownerref_lost_update | `MCOwnerRef_lost.cfg` | violation | EnsureOwnerRefEffective | Two concurrent `EnsureOwnerRef` calls both return nil, and one reference is lost |
| ownerref_demote | `MCOwnerRef_demote.cfg` | violation | IdempotentWhenPresent | `EnsureOwnerRef` by the controller owner itself rewrites the controller reference |
| readiness_fence | `MCOwnerReadiness.cfg` | pass | TypeOK, FenceHolds, EventuallyProceeds | A ready verdict implies the current generation was reconciled Ready, and a settled Deployment owner is eventually reported ready |
| readiness_early_status | `MCOwnerReadiness_early.cfg` | violation | FenceHolds | An owner controller that patches observedGeneration on an early return without resetting Ready passes the fence with the previous generation's Ready |
| webhook_updates | `MCWebhook.cfg` | pass | TypeOK, AdmittedUpdateHeals, DeprecatedNeverReintroduced | Admitted updates never keep or create a conflict and never set a cleared deprecated field |
| webhook_create_conflict | `MCWebhook_create.cfg` | violation | StoredNoConflict | A conflicting CREATE is admitted |
| ownedchild_gate | `MCOwnedChildReadiness.cfg` | pass | GateHolds | While other owners' `EnsureOwnerRef` calls, failed patches and a delete/re-create rewrite the child's references, the child is still gated on its controller owner's reconciled Ready |
| clusterrole_converge | `MCClusterRole.cfg` | pass | Converges, ForeignLabelsKept, NoTakeover | The ClusterRole returns to the desired state after users' edits and deletions. A label the operator does not set survives every reconcile, also one edited between the Get and the patch. A stale patch never takes over a ClusterRole another operator re-created meanwhile |
| clusterrole_annotations | `MCClusterRole_annotations.cfg` | violation | AnnotationsMerged | Live annotations are dropped and labels are copied into annotations |
| clusterrole_delete_foreign | `MCClusterRole_delete.cfg` | violation | DeletesOnlyOwn | `Delete` removes another operator's ClusterRole of the same name |
| clusterrole_stale_patch | `MCClusterRole_stale.cfg` | violation | OtherUntouched | A user edit, a Get, a user delete and another operator's create, then the stale merge patch: it rewrites the other operator's labels and rules. The patch has no resourceVersion, against spec §5's conflict detection, and the AlreadyOwned check saw only the stale copy |

Every property of a passing run has a mutant in `PROJECT.json`: a plausible bug in the mapped code that TLC catches under the same cfg.

### Bounds

- **OwnerRef:**
  - three owners: the controller and two workers, the least that shows a lost update between two workers;
  - one failed patch and one deletion;
  - the demote run makes the controller a worker.
- **OwnerReadiness:** generations up to 3, so a reconcile can read generation 2 while a spec update moves the owner to 3, and one failed Get. The passing run resets Ready (`ResetsReady = TRUE`); the early-status run does not.
- **OwnedChildReadiness:** the OwnerRef bounds (two other owners, one failed patch, one deletion) with a Deployment owner, generations up to 2 and one failed Get: enough for a patch and a spec update inside one reconcile window. With the controller among the workers (the `ownerref_demote` setting), TLC finds `GateHolds` violated: the demoted child is reported ready with no owner checked.
- **ClusterRole:** two keys (one desired label, one desired annotation, so foreign keys exist on both maps), two values, two rule lists, two user edits and two deletions. The lost-edit and requeue races each need one edit or deletion inside a Get/write window.
- **Webhook:** two field pairs, two names (the least for a conflict), nil, empty, and a create plus two updates. Two updates are enough for a clear followed by a re-set.

### Fairness and deadlock

Controllers are level-triggered: they requeue on errors, on `RequeueAfter` and on periodic resync. Each model's own worker actions are therefore weakly fair:
- OwnerRef: `Worker(w)`;
- ClusterRole: `CreateOrPatch`;
- OwnerReadiness: the child's `CheckOwnerReady`, and the owner controller's `StartOwnerReconcile` and `FinishOwnerReconcile`.

The environment's actions (edits, deletions, spec updates, failures) are not fair, and they are bounded.

The composition runs check only a safety property, so they use `Spec` without fairness.

The webhook and ClusterRole runs set `CHECK_DEADLOCK FALSE`:
- a resource may simply receive no more admission requests;
- after `Delete` the operator stops reconciling.

## Proofs (`OwnerRefProofs`, checked by `tlapm`)

- `TypeCorrect`: `Spec => []TypeOK` for every value of the constants under `OwnerAssumption`. TLC checks it as the first conjunct of `IInv`.
- `ControllerRefSafe`: `Spec => []ControllerRefKept` when `Ctrl \notin Workers`. The argument rests on the inductive invariant `IInv`:
  - the stored list and every worker's copy have unique owners;
  - the stored list keeps `Ctrl`'s controller reference and no other controller reference;
  - a copy between the Get and the patch keeps it as well.

  Uniqueness is what makes `SetOwnerReference` of another owner replace only that owner's entry. A copy is only ever patched over the stored list, and the copy itself keeps the controller reference. Each step preserves `IInv` (lemma `IInvNext`), and the lemmas about `SetOwnerReference` are proved once and cited. TLC checks `IInv` as an invariant in `ownerref_converge`.
- `IInvHolds`: `Spec => []IInv` under the same assumption. `ControllerRefSafe` is derived from it.

## Proofs (`OwnerReadinessProofs`)

- `ReadinessTypeCorrect`: `Spec => []TypeOK`. Its key lemma is `VerdictType`: `IsOwnerServiceReady` returns one of its three answers.
- `FenceHoldsProved`: `Spec => FenceHolds` when `ResetsReady = TRUE`, for any owner kinds and bounds. The proof rests on the inductive invariant `FenceInv`:
  - the generations the owner controller read or wrote never exceed `generation`;
  - Ready = "True" together with `observedGeneration = generation` implies `reconciled = generation`.

  The bounds are what keep a spec update from making an old observedGeneration current. `ReadyVerdictFromStatus` shows that a ready verdict for a child pointing at the existing owner comes only from the status checks. `FenceInv` then gives the fence. Without `ResetsReady`, an early status patch breaks `FenceInv`, and `readiness_early_status` shows the resulting violation.
- Each action has a frame lemma (`...Frame`) listing what it changes. The type and invariant proofs cite them, with arithmetic kept in separate steps from the other facts.


## Proofs (`OwnedChildReadinessProofs`)

- `GateHoldsProved`: `CSpec => GateHolds` when `Ctrl \notin Workers` and `ResetsReady = TRUE`, for any owners, kinds and bounds. The inductive invariant `CInv` conjoins:
  - `OwnerRef`'s `IInv`, whose preservation is reused from `OwnerRefProofs`;
  - the owner side's types with `FenceInv`.
- The argument has two parts:
  - `ControllerFound`: in a list that keeps `Ctrl`'s controller reference and names each owner once, the `CHOOSE` in `ControllerIndex` selects `Ctrl`'s entry, and that entry parses;
  - `ReadyFromStatus` then leaves only the status checks as the source of a ready verdict, and `FenceInv` turns that verdict into "reconciled and Ready".
- The owner-controller steps cite the frame lemmas of `OwnerReadinessProofs` through an instance with `childRefs <- ChildView(refs)`.

## Proofs (`ClusterRoleProofs`)

These hold for any keys, values, rule lists, desired maps and bounds.

Lemmas about the operators:
- `MutateType`, `ApplyMergePatchType` and `MergeStringMapsType` keep objects and maps in their types.
- `MutateIdempotent`: `Mutate(Mutate(o)) = Mutate(o)`, so the reconcile after an undisturbed patch takes `PatchUnchanged`.
- `PatchOntoSnapshot`: a merge patch applied to the very copy it was computed from yields the mutated copy.
- `MutateDesired`: on an object the operator may control, `Mutate` gives the desired rules, labels, annotations and controller.

Theorems:
- `ClusterRoleTypeCorrect`: `Spec => []TypeOK`.
- `ControllerSetHolds`: `Spec => []IInv`, where `IInv == TypeOK /\ ControllerSet`. `ControllerSet` says that every stored ClusterRole and every fetched copy has a controller. It holds because both creators set one and users never edit it.
- `NoTakeoverHolds`: `Spec => NoTakeover`. By `ControllerSet`, `Mutate` leaves the fetched copy's controller as it is (lemma `PatchKeepsController`). The merge patch therefore never writes a controller, even onto a ClusterRole another operator re-created after the Get.
- `ForeignLabelsKeptHolds`: `Spec => ForeignLabelsKept`. It needs two facts. `Mutate` keeps the fetched value of a label the operator does not set (lemma `MutateKeepsForeignLabel`), so the merge patch carries no change of that key. `PatchMap` then keeps the current value, even one a user wrote after the Get.
- `UndisturbedPatchMatchesDesired`: a `PatchClusterRole` step with `live = snap` (no write since the Get) ends in `MatchesDesired`. This, with `MutateIdempotent`, is the step that `Converges` rests on. The eventuality itself stays with TLC.

## Proofs (`WebhookProofs`)

- `AdmittedUpdateHealsHolds`: `Spec => AdmittedUpdateHeals`.
- `DeprecatedNeverReintroducedHolds`: `Spec => DeprecatedNeverReintroduced`.

Both hold for any fields, names and request bound, and need no invariant. An UPDATE changes the stored resource only when `ValidateDeprecatedFieldsUpdate` returns no errors (lemma `NoErrorsNoPairError`). Each promise is then what one of its two checks rejects:
- `ConflictCheckSound`: the conflict check errs on every pair with both fields set to different values;
- `ChangeCheckSound`: the change check errs on setting a field whose old value is empty.

The step lemma `UpdateStepSafe` combines them, and PTL lifts it to the box-action properties.

- `WebhookTypeCorrect`: `Spec => []TypeOK`. The lemmas `WarningPairsType` and `ErrorPairsType` bound the sets the two entry points build.

TLAPS does not handle liveness under fairness or ENABLED.


## What stays with TLC

- Liveness: `Converges` of `OwnerRef` and `ClusterRole`, and `EventuallyProceeds`. These need fairness and ENABLED, which the prover does not handle.
- The violated properties. TLC's counterexamples are the result for these, including the readiness gate with `ResetsReady = FALSE` and with the controller among the workers.
- That a stale `CreateOrPatch` rewrites the labels and rules of a ClusterRole another operator re-created after the Get (`clusterrole_stale_patch`). `NoTakeover` proves only that the controller is kept.

## Not modelled

- `NewClusterRole`: it stores its arguments.
- Logging, error wrapping and message text.
- `validateOwner`'s namespace checks inside `SetOwnerReference`: all owners are assumed to be in a valid scope.
- The tests, which are used only as the source of initial states.
- The API server's garbage collection of dependents, and its de-duplication of owner references by UID. No property relies on duplicates.
