------------------------------ MODULE Webhook -------------------------------
(***************************************************************************)
(* The deprecated-field validators of package webhook (deprecated.go),     *)
(* driven by the admission requests of one custom resource: one CREATE     *)
(* and then UPDATEs.  Each deprecated field of the resource is paired      *)
(* with its replacement; a request carries, for every pair, the values of  *)
(* the two *string fields.                                                  *)
(*                                                                         *)
(* The calling webhook admits a CREATE with the warnings                   *)
(* ValidateDeprecatedFieldsCreate returns (it returns no errors), and an   *)
(* UPDATE when ValidateDeprecatedFieldsUpdate returns no errors; the       *)
(* stored resource is then the request's.  Field paths and the wording of  *)
(* warnings and errors are left out: a warning or error is the field pair  *)
(* it is about and its kind.                                                *)
(***************************************************************************)
EXTENDS Naturals

CONSTANTS
    Fields,        \* the deprecated fields of the resource
    Names,         \* non-empty values a field may hold
    Nil,           \* a nil *string
    MaxRequests    \* bound on the UPDATE requests

ASSUME WebhookAssumption ==
    /\ "" \notin Names
    /\ Nil \notin Names \cup {""}
    /\ MaxRequests \in Nat

(* A *string field: nil, empty or a name.                                  *)
PtrValues == Names \cup {"", Nil}

(* The pair of a deprecated field and its replacement, as a request or    *)
(* the stored resource holds them.                                         *)
FieldPair == [dep : PtrValues, new : PtrValues]

Spec0 == [Fields -> FieldPair]

VARIABLES
    created,    \* the resource has been created
    stored,     \* the stored resource's field pairs
    warnings,   \* warnings returned for the last request
    errors,     \* errors returned for the last request
    requests    \* UPDATE requests made so far

vars == <<created, stored, warnings, errors, requests>>

-----------------------------------------------------------------------------
(* The Ptr variants dereference, treating nil as the empty string.        *)
Deref(p) == IF p = Nil THEN "" ELSE p

(* Mutant of ValidateDeprecatedFieldConflict: both fields set with         *)
(* different values let through.                                           *)
ValidateDeprecatedFieldConflictNoDiff(d, n, allowBothIfSame) ==
    CASE d # "" /\ n = ""           -> [warning |-> "deprecated", err |-> "none"]
      [] d # "" /\ n # "" /\ d = n  -> IF allowBothIfSame
                                        THEN [warning |-> "both", err |-> "none"]
                                        ELSE [warning |-> "", err |-> "invalid"]
      [] OTHER                      -> [warning |-> "", err |-> "none"]

(* ValidateDeprecatedFieldConflict(deprecatedValue, newValue, ...,         *)
(* allowBothIfSame): <<warning, error>>, by the code's early returns.     *)
ValidateDeprecatedFieldConflict(d, n, allowBothIfSame) ==
    CASE d = "" /\ n = ""           -> [warning |-> "", err |-> "none"]
      [] d # "" /\ n = ""           -> [warning |-> "deprecated", err |-> "none"]
      [] d = "" /\ n # ""           -> [warning |-> "", err |-> "none"]
      [] d # "" /\ n # "" /\ d = n  -> IF allowBothIfSame
                                        THEN [warning |-> "both", err |-> "none"]
                                        ELSE [warning |-> "", err |-> "invalid"]
      [] d # "" /\ n # "" /\ d # n  -> [warning |-> "", err |-> "invalid"]

(* Mutant of ValidateDeprecatedFieldChange: setting a field that was      *)
(* empty is let through.                                                   *)
ValidateDeprecatedFieldChangeFromEmpty(oldValue, newValue) ==
    IF oldValue = newValue \/ newValue = "" \/ oldValue = ""
    THEN "none" ELSE "forbidden"

(* ValidateDeprecatedFieldChange(oldValue, newValue, ...): unchanged or   *)
(* cleared is allowed, any other change is Forbidden.                     *)
ValidateDeprecatedFieldChange(oldValue, newValue) ==
    IF oldValue = newValue \/ newValue = "" THEN "none" ELSE "forbidden"

ValidateDeprecatedFieldConflictPtr(d, n, allowBothIfSame) ==
    ValidateDeprecatedFieldConflict(Deref(d), Deref(n), allowBothIfSame)

ValidateDeprecatedFieldChangePtr(oldValue, newValue) ==
    ValidateDeprecatedFieldChange(Deref(oldValue), Deref(newValue))

(* Mutant of ValidateDeprecatedFieldsCreate: the empty warning appended   *)
(* too (the `if warning != ""` guard dropped).                             *)
ValidateDeprecatedFieldsCreateAll(req) ==
    { <<f, ValidateDeprecatedFieldConflictPtr(req[f].dep, req[f].new, TRUE).warning>> :
        f \in Fields }

(* ValidateDeprecatedFieldsCreate: the non-empty warnings of the conflict *)
(* check of every pair; its error is discarded (`warning, _ :=`).          *)
ValidateDeprecatedFieldsCreate(req) ==
    LET w(f) == ValidateDeprecatedFieldConflictPtr(req[f].dep, req[f].new, TRUE).warning
    IN  { <<f, w(f)>> : f \in {g \in Fields : w(g) # ""} }

(* ValidateDeprecatedFieldsUpdate(old, req): the warnings and the errors  *)
(* of the conflict check on the new values and of the change check of     *)
(* the deprecated field, pair by pair.                                     *)
ValidateDeprecatedFieldsUpdate(old, req) ==
    LET c(f) == ValidateDeprecatedFieldConflictPtr(req[f].dep, req[f].new, TRUE)
        ch(f) == ValidateDeprecatedFieldChangePtr(old[f].dep, req[f].dep)
    IN  [warnings |-> { <<f, c(f).warning>> : f \in {g \in Fields : c(g).warning # ""} },
         errors   |-> { <<f, c(f).err>> : f \in {g \in Fields : c(g).err # "none"} }
                      \cup { <<f, ch(f)>> : f \in {g \in Fields : ch(g) # "none"} }]

-----------------------------------------------------------------------------
Init ==
    /\ created = FALSE
    /\ stored = [f \in Fields |-> [dep |-> Nil, new |-> Nil]]
    /\ warnings = {}
    /\ errors = {}
    /\ requests = 0

(* A CREATE request: admitted with the warnings of                         *)
(* ValidateDeprecatedFieldsCreate.                                          *)
Create(req) ==
    /\ ~created
    /\ created' = TRUE
    /\ warnings' = ValidateDeprecatedFieldsCreate(req)
    /\ errors' = {}
    /\ stored' = req
    /\ UNCHANGED requests

(* An UPDATE request: admitted, and stored, when                           *)
(* ValidateDeprecatedFieldsUpdate returns no errors.                       *)
Update(req) ==
    /\ created
    /\ requests < MaxRequests
    /\ requests' = requests + 1
    /\ LET r == ValidateDeprecatedFieldsUpdate(stored, req)
       IN  /\ warnings' = r.warnings
           /\ errors' = r.errors
           /\ stored' = IF r.errors = {} THEN req ELSE stored
    /\ UNCHANGED created

Next == \E req \in Spec0 : Create(req) \/ Update(req)

Spec == Init /\ [][Next]_vars

-----------------------------------------------------------------------------
WarningKinds == {"deprecated", "both"}

TypeOK ==
    /\ created \in BOOLEAN
    /\ stored \in Spec0
    /\ warnings \subseteq Fields \X WarningKinds
    /\ errors \subseteq Fields \X {"invalid", "forbidden"}
    /\ requests \in 0 .. MaxRequests

(* Both fields of a pair set, to different values.                        *)
Conflicting(p) ==
    /\ Deref(p.dep) # ""
    /\ Deref(p.new) # ""
    /\ Deref(p.dep) # Deref(p.new)

(* Every resource the webhook admits is free of conflicting pairs: a      *)
(* deprecated field and its replacement are never stored with different   *)
(* values (both-different "is always an error").                           *)
StoredNoConflict ==
    created => \A f \in Fields : ~Conflicting(stored[f])

(* An admitted UPDATE leaves no conflicting pair, whatever the resource   *)
(* held before: a conflict the CREATE path let in can only be repaired,   *)
(* never kept or changed into another one.                                 *)
AdmittedUpdateHeals ==
    [][(created /\ stored' # stored)
           => \A f \in Fields : ~Conflicting(stored'[f])]_vars

(* Once a deprecated field of the stored resource is empty (cleared or    *)
(* never set), no admitted UPDATE sets it again.                           *)
DeprecatedNeverReintroduced ==
    [][created =>
         \A f \in Fields : Deref(stored[f].dep) = "" => Deref(stored'[f].dep) = ""]_vars

=============================================================================
