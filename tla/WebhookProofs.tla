---------------------------- MODULE WebhookProofs ----------------------------
(***************************************************************************)
(* Proofs that the UPDATE path of the deprecated-field validators keeps    *)
(* its two promises for any set of fields and names: an admitted UPDATE    *)
(* leaves no conflicting pair, and never sets a deprecated field that was  *)
(* empty.  Both follow from one step alone: an UPDATE is stored only when  *)
(* ValidateDeprecatedFieldsUpdate returns no error, and each promise is    *)
(* what one of its two checks rejects.                                     *)
(***************************************************************************)
EXTENDS Webhook, TLAPS

(* An UPDATE is admitted only when no pair has an error from either check. *)
LEMMA NoErrorsNoPairError ==
    ASSUME NEW old, NEW req,
           ValidateDeprecatedFieldsUpdate(old, req).errors = {}
    PROVE  \A f \in Fields :
              /\ ValidateDeprecatedFieldConflictPtr(req[f].dep, req[f].new, TRUE).err = "none"
              /\ ValidateDeprecatedFieldChangePtr(old[f].dep, req[f].dep) = "none"
BY Zenon DEF ValidateDeprecatedFieldsUpdate

(* ValidateDeprecatedFieldConflict reports no error only for a pair that  *)
(* is not conflicting (both set, to different values, is always an error). *)
LEMMA ConflictCheckSound ==
    ASSUME NEW p, ValidateDeprecatedFieldConflictPtr(p.dep, p.new, TRUE).err = "none"
    PROVE  ~Conflicting(p)
<1>1. SUFFICES ASSUME Deref(p.dep) # "", Deref(p.new) # "", Deref(p.dep) # Deref(p.new)
               PROVE  FALSE
  BY DEF Conflicting
<1>2. ValidateDeprecatedFieldConflictPtr(p.dep, p.new, TRUE).err = "invalid"
  BY <1>1, Zenon DEF ValidateDeprecatedFieldConflictPtr, ValidateDeprecatedFieldConflict
<1>. QED  BY <1>2

(* ValidateDeprecatedFieldChange reports no error for an empty old value  *)
(* only when the new value is empty too.                                   *)
LEMMA ChangeCheckSound ==
    ASSUME NEW o, NEW n, ValidateDeprecatedFieldChangePtr(o, n) = "none",
           Deref(o) = ""
    PROVE  Deref(n) = ""
BY DEF ValidateDeprecatedFieldChangePtr, ValidateDeprecatedFieldChange

(* Every step, whichever request it handles, keeps both promises.         *)
LEMMA UpdateStepSafe ==
    ASSUME [Next]_vars
    PROVE  /\ (created /\ stored' # stored) => \A f \in Fields : ~Conflicting(stored'[f])
           /\ created => \A f \in Fields :
                            Deref(stored[f].dep) = "" => Deref(stored'[f].dep) = ""
<1>1. CASE UNCHANGED vars
  BY <1>1 DEF vars
<1>2. CASE \E req \in Spec0 : Create(req)
  BY <1>2 DEF Create
<1>3. CASE \E req \in Spec0 : Update(req)
  <2>0. PICK req \in Spec0 : Update(req)
    BY <1>3
  <2> DEFINE r == ValidateDeprecatedFieldsUpdate(stored, req)
  <2>1. CASE r.errors = {}
    <3>1. stored' = req
      BY <2>0, <2>1 DEF Update
    <3>2. \A f \in Fields :
              /\ ValidateDeprecatedFieldConflictPtr(req[f].dep, req[f].new, TRUE).err = "none"
              /\ ValidateDeprecatedFieldChangePtr(stored[f].dep, req[f].dep) = "none"
      BY <2>1, NoErrorsNoPairError
    <3>3. \A f \in Fields : ~Conflicting(stored'[f])
      BY <3>1, <3>2, ConflictCheckSound
    <3>4. \A f \in Fields : Deref(stored[f].dep) = "" => Deref(stored'[f].dep) = ""
      BY <3>1, <3>2, ChangeCheckSound
    <3>. QED  BY <3>3, <3>4
  <2>2. CASE r.errors # {}
    BY <2>0, <2>2 DEF Update
  <2>. QED  BY <2>1, <2>2
<1>. QED  BY <1>1, <1>2, <1>3 DEF Next

(* The webhook never stores an UPDATE that keeps or creates a conflicting *)
(* pair (ValidateDeprecatedFieldsUpdate's conflict check), whatever the    *)
(* fields, names and number of requests.                                   *)
THEOREM AdmittedUpdateHealsHolds == Spec => AdmittedUpdateHeals
<1>1. [Next]_vars => [(created /\ stored' # stored)
                         => \A f \in Fields : ~Conflicting(stored'[f])]_vars
  BY UpdateStepSafe
<1>. QED  BY <1>1, PTL DEF Spec, AdmittedUpdateHeals

(* The webhook never stores an UPDATE that sets a deprecated field that   *)
(* was empty (ValidateDeprecatedFieldsUpdate's change check), whatever the *)
(* fields, names and number of requests.                                   *)
THEOREM DeprecatedNeverReintroducedHolds == Spec => DeprecatedNeverReintroduced
<1>1. [Next]_vars => [created => \A f \in Fields :
                         Deref(stored[f].dep) = "" => Deref(stored'[f].dep) = ""]_vars
  BY UpdateStepSafe
<1>. QED  BY <1>1, PTL DEF Spec, DeprecatedNeverReintroduced

-----------------------------------------------------------------------------
(* ValidateDeprecatedFieldConflict returns one of the two warnings or     *)
(* none, and no error or an Invalid one; ValidateDeprecatedFieldChange     *)
(* returns no error or a Forbidden one.                                    *)
LEMMA ConflictResultType ==
    ASSUME NEW d, NEW n, NEW b \in BOOLEAN
    PROVE  /\ ValidateDeprecatedFieldConflict(d, n, b).warning \in WarningKinds \cup {""}
           /\ ValidateDeprecatedFieldConflict(d, n, b).err \in {"none", "invalid"}
BY DEF ValidateDeprecatedFieldConflict, WarningKinds

LEMMA ConflictPtrType ==
    ASSUME NEW d, NEW n
    PROVE  /\ ValidateDeprecatedFieldConflictPtr(d, n, TRUE).warning \in WarningKinds \cup {""}
           /\ ValidateDeprecatedFieldConflictPtr(d, n, TRUE).err \in {"none", "invalid"}
BY ConflictResultType DEF ValidateDeprecatedFieldConflictPtr

LEMMA ChangePtrType ==
    ASSUME NEW o, NEW n
    PROVE  ValidateDeprecatedFieldChangePtr(o, n) \in {"none", "forbidden"}
BY DEF ValidateDeprecatedFieldChangePtr, ValidateDeprecatedFieldChange

(* The pairs both entry points build from the conflict check's warnings, *)
(* and the pairs of the errors of ValidateDeprecatedFieldsUpdate, are of  *)
(* a field and a kind the checks produce.                                  *)
LEMMA WarningPairsType ==
    ASSUME NEW req
    PROVE  { <<f, ValidateDeprecatedFieldConflictPtr(req[f].dep, req[f].new, TRUE).warning>> :
             f \in {g \in Fields :
                    ValidateDeprecatedFieldConflictPtr(req[g].dep, req[g].new, TRUE).warning # ""} }
           \subseteq Fields \X WarningKinds
<1> DEFINE w(f) == ValidateDeprecatedFieldConflictPtr(req[f].dep, req[f].new, TRUE).warning
<1>1. \A f \in {g \in Fields : w(g) # ""} : <<f, w(f)>> \in Fields \X WarningKinds
  BY ConflictPtrType
<1>. QED  BY <1>1, Zenon DEF w

LEMMA ErrorPairsType ==
    ASSUME NEW old, NEW req
    PROVE  ValidateDeprecatedFieldsUpdate(old, req).errors \subseteq Fields \X {"invalid", "forbidden"}
<1> DEFINE c(f) == ValidateDeprecatedFieldConflictPtr(req[f].dep, req[f].new, TRUE).err
           ch(f) == ValidateDeprecatedFieldChangePtr(old[f].dep, req[f].dep)
<1>1. \A f \in {g \in Fields : c(g) # "none"} : <<f, c(f)>> \in Fields \X {"invalid", "forbidden"}
  BY ConflictPtrType
<1>2. \A f \in {g \in Fields : ch(g) # "none"} : <<f, ch(f)>> \in Fields \X {"invalid", "forbidden"}
  BY ChangePtrType
<1>. QED  BY <1>1, <1>2, Zenon DEF ValidateDeprecatedFieldsUpdate, c, ch

(* The warnings and errors every request returns are pairs of a field and *)
(* a kind the validators produce, and the stored resource is a request.    *)
THEOREM WebhookTypeCorrect == Spec => []TypeOK
<1>1. Init => TypeOK
  <2> SUFFICES ASSUME Init PROVE TypeOK
    OBVIOUS
  <2>1. stored \in Spec0
    BY DEF Init, Spec0, FieldPair, PtrValues
  <2>2. requests \in 0 .. MaxRequests
    <3>1. MaxRequests \in Nat
      BY WebhookAssumption
    <3>. QED  BY <3>1 DEF Init
  <2>. QED  BY <2>1, <2>2 DEF Init, TypeOK
<1>2. TypeOK /\ [Next]_vars => TypeOK'
  <2> SUFFICES ASSUME TypeOK, [Next]_vars PROVE TypeOK'
    OBVIOUS
  <2>1. CASE UNCHANGED vars
    BY <2>1 DEF vars, TypeOK
  <2>2. CASE \E req \in Spec0 : Create(req)
    <3>1. PICK req \in Spec0 : Create(req)
      BY <2>2
    <3>2. ValidateDeprecatedFieldsCreate(req) \subseteq Fields \X WarningKinds
      BY WarningPairsType DEF ValidateDeprecatedFieldsCreate
    <3>3. /\ created' = TRUE /\ stored' = req /\ errors' = {}
          /\ warnings' = ValidateDeprecatedFieldsCreate(req) /\ requests' = requests
      BY <3>1, Zenon DEF Create
    <3>. QED  BY <3>2, <3>3 DEF TypeOK
  <2>3. CASE \E req \in Spec0 : Update(req)
    <3>1. PICK req \in Spec0 : Update(req)
      BY <2>3
    <3> DEFINE r == ValidateDeprecatedFieldsUpdate(stored, req)
    <3>2. r.warnings \subseteq Fields \X WarningKinds
      BY WarningPairsType DEF ValidateDeprecatedFieldsUpdate
    <3>3. r.errors \subseteq Fields \X {"invalid", "forbidden"}
      BY ErrorPairsType
    <3>4. /\ requests < MaxRequests /\ requests' = requests + 1
          /\ warnings' = r.warnings /\ errors' = r.errors
          /\ stored' \in {req, stored} /\ created' = created
      BY <3>1, Zenon DEF Update
    <3>5. requests' \in 0 .. MaxRequests
      <4>1. MaxRequests \in Nat
        BY WebhookAssumption
      <4>. QED  BY <3>4, <4>1 DEF TypeOK
    <3>6. stored' \in Spec0
      BY <3>4 DEF TypeOK
    <3>. QED  BY <3>2, <3>3, <3>4, <3>5, <3>6 DEF TypeOK
  <2>. QED  BY <2>1, <2>2, <2>3 DEF Next
<1>. QED  BY <1>1, <1>2, PTL DEF Spec
=============================================================================
