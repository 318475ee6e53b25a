--------------------------- MODULE OwnerRefProofs ---------------------------
(***************************************************************************)
(* Proofs about OwnerRef, for every value of the constants: the type       *)
(* invariant, and that EnsureOwnerRef calls of owners other than the       *)
(* controller never lose or demote the target's controller reference,      *)
(* however their stale merge patches interleave.                           *)
(***************************************************************************)
EXTENDS OwnerRef, SequenceTheorems, TLAPS

-----------------------------------------------------------------------------
(* Lemmas on SetOwnerReference, the upsert all patches are built with.    *)

(* The list a target is created with is a well-typed list.               *)
LEMMA ControllerRefList ==
    /\ <<ControllerRef>> \in Seq(OwnerReference)
    /\ UniqueOwners(<<ControllerRef>>)
    /\ KeepsControllerRef(<<ControllerRef>>)
<1>1. ControllerRef \in OwnerReference
    BY OwnerAssumption DEF ControllerRef, OwnerReference
<1>2. <<ControllerRef>> = Append(<<>>, ControllerRef)
    OBVIOUS
<1>3. <<ControllerRef>> \in Seq(OwnerReference)
    BY <1>1, <1>2, EmptySeq, AppendProperties
<1>4. DOMAIN <<ControllerRef>> = {1}
    OBVIOUS
<1>5. UniqueOwners(<<ControllerRef>>)
    BY <1>4 DEF UniqueOwners
<1>6. KeepsControllerRef(<<ControllerRef>>)
    <2>1. <<ControllerRef>>[1] = ControllerRef
        OBVIOUS
    <2>2. ControllerRef.controller /\ ControllerRef.uid = Ctrl
        BY DEF ControllerRef
    <2>. QED
        BY <1>4, <2>1, <2>2 DEF KeepsControllerRef
<1>. QED
    BY <1>3, <1>5, <1>6

(* The upsert of a well-typed reference list is a well-typed list.        *)
LEMMA SetOwnerReferenceType ==
    ASSUME NEW o \in Owners, NEW l \in Seq(OwnerReference)
    PROVE  SetOwnerReference(o, l) \in Seq(OwnerReference)
<1>. DEFINE ref == [uid |-> o, controller |-> FALSE]
<1>1. ref \in OwnerReference
    BY DEF OwnerReference
<1>2. CASE CheckOwnerRefExist(o, l)
    <2>. DEFINE k == IndexOwnerRef(l, o)
    <2>1. [l EXCEPT ![k] = ref] \in [1 .. Len(l) -> OwnerReference]
        BY <1>1, LenProperties
    <2>2. [l EXCEPT ![k] = ref] \in Seq(OwnerReference)
        BY <2>1, LenProperties, SeqDef
    <2>. QED
        BY <1>2, <2>2 DEF SetOwnerReference
<1>3. CASE ~CheckOwnerRefExist(o, l)
    BY <1>1, <1>3, AppendProperties DEF SetOwnerReference
<1>. QED
    BY <1>2, <1>3

(* In a list with unique owners, the first reference to an owner it       *)
(* refers to is the reference to it.                                       *)
LEMMA IndexOwnerRefFound ==
    ASSUME NEW o \in Owners, NEW l \in Seq(OwnerReference),
           UniqueOwners(l), CheckOwnerRefExist(o, l)
    PROVE  /\ IndexOwnerRef(l, o) \in DOMAIN l
           /\ l[IndexOwnerRef(l, o)].uid = o
<1>1. PICK i \in DOMAIN l : l[i].uid = o
    BY DEF CheckOwnerRefExist
<1>2. \A j \in 1 .. (i - 1) : l[j].uid # o
    BY <1>1 DEF UniqueOwners
<1>. QED
    BY <1>1, <1>2 DEF IndexOwnerRef

(* The upsert keeps the owners of a list unique.                          *)
LEMMA SetOwnerReferenceUnique ==
    ASSUME NEW o \in Owners, NEW l \in Seq(OwnerReference), UniqueOwners(l)
    PROVE  UniqueOwners(SetOwnerReference(o, l))
<1>. DEFINE ref == [uid |-> o, controller |-> FALSE]
<1>2. CASE CheckOwnerRefExist(o, l)
    <2>. DEFINE k == IndexOwnerRef(l, o)
    <2>1. k \in DOMAIN l /\ l[k].uid = o
        BY <1>2, IndexOwnerRefFound
    <2>2. UniqueOwners([l EXCEPT ![k] = ref])
        BY <2>1 DEF UniqueOwners
    <2>. QED
        BY <1>2, <2>2 DEF SetOwnerReference
<1>3. CASE ~CheckOwnerRefExist(o, l)
    <2>1. UniqueOwners(Append(l, ref))
        BY <1>3 DEF UniqueOwners, CheckOwnerRefExist
    <2>. QED
        BY <1>3, <2>1 DEF SetOwnerReference
<1>. QED
    BY <1>2, <1>3

(* The upsert of an owner other than Ctrl keeps Ctrl's controller         *)
(* reference, and adds no other controller reference.                     *)
LEMMA SetOwnerReferenceKeeps ==
    ASSUME NEW o \in Owners, o # Ctrl, NEW l \in Seq(OwnerReference),
           UniqueOwners(l), KeepsControllerRef(l)
    PROVE  KeepsControllerRef(SetOwnerReference(o, l))
<1>. DEFINE ref == [uid |-> o, controller |-> FALSE]
<1>1. PICK c \in DOMAIN l : l[c] = ControllerRef
    BY DEF KeepsControllerRef
<1>2. CASE CheckOwnerRefExist(o, l)
    <2>. DEFINE k == IndexOwnerRef(l, o)
    <2>1. k \in DOMAIN l /\ l[k].uid = o
        BY <1>2, IndexOwnerRefFound
    <2>2. k # c
        BY <2>1, <1>1 DEF ControllerRef
    <2>3. KeepsControllerRef([l EXCEPT ![k] = ref])
        BY <1>1, <2>1, <2>2 DEF KeepsControllerRef
    <2>. QED
        BY <1>2, <2>3 DEF SetOwnerReference
<1>3. CASE ~CheckOwnerRefExist(o, l)
    <2>1. KeepsControllerRef(Append(l, ref))
        BY <1>1 DEF KeepsControllerRef
    <2>. QED
        BY <1>3, <2>1 DEF SetOwnerReference
<1>. QED
    BY <1>2, <1>3

-----------------------------------------------------------------------------
(* Every step keeps TypeOK.                                               *)
LEMMA TypeOKNext == TypeOK /\ [Next]_vars => TypeOK'
<1>. SUFFICES ASSUME TypeOK, [Next]_vars PROVE TypeOK'
    OBVIOUS
<1>. USE DEF TypeOK
<1>1. CASE DeleteTarget
    <2>1. <<>> \in Seq(OwnerReference)
        BY EmptySeq
    <2>2. deletions' \in 0 .. MaxDeletions
        BY <1>1, OwnerAssumption DEF DeleteTarget
    <2>. QED
        BY <1>1, <2>1, <2>2 DEF DeleteTarget
<1>2. CASE CreateTarget
    BY <1>2, ControllerRefList DEF CreateTarget
<1>3. ASSUME NEW w \in Workers, GetTarget(w) PROVE TypeOK'
    BY <1>3 DEF GetTarget
<1>4. ASSUME NEW w \in Workers, NEW res \in {"ok", "err"},
             EnsureOwnerRefStep(w, res)
      PROVE  /\ snap' \in [Workers -> Seq(OwnerReference)]
             /\ pc' \in [Workers -> {"get", "ensure"}]
             /\ result' \in [Workers -> {"none", "ok", "err"}]
             /\ deletions' = deletions
    <2>1. PatchOwnerRef(w, snap[w]) \in Seq(OwnerReference)
        BY OwnerAssumption, SetOwnerReferenceType DEF PatchOwnerRef
    <2>. QED
        BY <1>4, <2>1 DEF EnsureOwnerRefStep
<1>5. ASSUME NEW w \in Workers, EnsureOwnerRefNoop(w) PROVE TypeOK'
    BY <1>5, <1>4 DEF EnsureOwnerRefNoop
<1>6. ASSUME NEW w \in Workers, EnsureOwnerRefPatched(w) PROVE TypeOK'
    <2>1. PatchOwnerRef(w, snap[w]) \in Seq(OwnerReference)
        BY OwnerAssumption, SetOwnerReferenceType DEF PatchOwnerRef
    <2>. QED
        BY <1>6, <1>4, <2>1 DEF EnsureOwnerRefPatched
<1>7. ASSUME NEW w \in Workers, EnsureOwnerRefNotFound(w) PROVE TypeOK'
    BY <1>7, <1>4 DEF EnsureOwnerRefNotFound
<1>8. ASSUME NEW w \in Workers, EnsureOwnerRefFailed(w) PROVE TypeOK'
    BY <1>8, <1>4, OwnerAssumption DEF EnsureOwnerRefFailed
<1>9. CASE UNCHANGED vars
    BY <1>9 DEF vars
<1>. QED
    BY <1>1, <1>2, <1>3, <1>5, <1>6, <1>7, <1>8, <1>9
    DEF Next, Worker, EnsureOwnerRef

(* TypeOK is an invariant of the specification.                           *)
THEOREM TypeCorrect == Spec => []TypeOK
<1>1. Init => TypeOK
    BY OwnerAssumption, ControllerRefList DEF Init, TypeOK
<1>. QED
    BY <1>1, TypeOKNext, PTL DEF Spec

-----------------------------------------------------------------------------
(* IInv is inductive when the controller owner is not among the workers.  *)
LEMMA IInvInit == Init => IInv
<1>. SUFFICES ASSUME Init PROVE IInv
    OBVIOUS
<1>1. TypeOK
    BY OwnerAssumption, ControllerRefList DEF Init, TypeOK
<1>2. UniqueOwners(refs) /\ KeepsControllerRef(refs)
    BY ControllerRefList DEF Init
<1>3. \A w \in Workers : UniqueOwners(snap[w]) /\ pc[w] = "get"
    BY DEF Init, UniqueOwners
<1>. QED
    BY <1>1, <1>2, <1>3 DEF IInv, ControllerRefKept

LEMMA IInvNext ==
    ASSUME Ctrl \notin Workers
    PROVE  IInv /\ [Next]_vars => IInv'
<1>. SUFFICES ASSUME IInv, [Next]_vars PROVE IInv'
    OBVIOUS
<1>0. TypeOK'
    BY TypeOKNext DEF IInv
<1>1. CASE DeleteTarget
    BY <1>0, <1>1 DEF DeleteTarget, IInv, UniqueOwners, ControllerRefKept
<1>2. CASE CreateTarget
    BY <1>0, <1>2, ControllerRefList
    DEF CreateTarget, IInv, ControllerRefKept
<1>3. ASSUME NEW w \in Workers, GetTarget(w) PROVE IInv'
    BY <1>0, <1>3 DEF GetTarget, IInv, TypeOK, ControllerRefKept
<1>4. ASSUME NEW w \in Workers, EnsureOwnerRef(w) PROVE IInv'
    <2>. DEFINE new == PatchOwnerRef(w, snap[w])
    <2>1. w \in Owners /\ w # Ctrl
        BY OwnerAssumption
    <2>2. snap[w] \in Seq(OwnerReference) /\ UniqueOwners(snap[w])
        BY DEF IInv, TypeOK
    <2>3. UniqueOwners(new)
        BY <2>1, <2>2, SetOwnerReferenceUnique DEF PatchOwnerRef
    <2>4. pc[w] = "ensure" => KeepsControllerRef(new)
        BY <2>1, <2>2, SetOwnerReferenceKeeps DEF PatchOwnerRef, IInv
    <2>5. /\ pc[w] = "ensure"
          /\ snap' = [snap EXCEPT ![w] = new]
          /\ pc' = [pc EXCEPT ![w] = "get"]
        BY <1>4
        DEF EnsureOwnerRef, EnsureOwnerRefNoop, EnsureOwnerRefPatched,
            EnsureOwnerRefNotFound, EnsureOwnerRefFailed, EnsureOwnerRefStep
    <2>6. (\A v \in Workers : UniqueOwners(snap[v]))'
        BY <2>3, <2>5 DEF IInv, TypeOK
    <2>7. (\A v \in Workers : pc[v] = "ensure" => KeepsControllerRef(snap[v]))'
        BY <2>5 DEF IInv, TypeOK
    <2>8. (UniqueOwners(refs) /\ ControllerRefKept)'
        <3>1. CASE EnsureOwnerRefPatched(w)
            BY <3>1, <2>3, <2>4, <2>5 DEF EnsureOwnerRefPatched, ControllerRefKept
        <3>2. CASE ~EnsureOwnerRefPatched(w)
            <4>1. UNCHANGED <<exists, refs>>
                BY <1>4, <3>2
                DEF EnsureOwnerRef, EnsureOwnerRefNoop, EnsureOwnerRefNotFound,
                    EnsureOwnerRefFailed
            <4>. QED
                BY <4>1 DEF IInv, ControllerRefKept
        <3>. QED
            BY <3>1, <3>2
    <2>. QED
        BY <1>0, <2>6, <2>7, <2>8 DEF IInv
<1>5. CASE UNCHANGED vars
    BY <1>5 DEF vars, IInv, TypeOK, UniqueOwners, ControllerRefKept, KeepsControllerRef
<1>. QED
    BY <1>1, <1>2, <1>3, <1>4, <1>5 DEF Next, Worker

(* When the controller owner does not itself call EnsureOwnerRef, the   *)
(* stored list and every worker's copy taken by the Get keep unique owners *)
(* and the controller's reference, however EnsureOwnerRef calls and       *)
(* deletions interleave: the inductive invariant ownerref_converge checks. *)
THEOREM IInvHolds ==
    ASSUME Ctrl \notin Workers
    PROVE  Spec => []IInv
BY IInvInit, IInvNext, PTL DEF Spec

(* When the controller owner does not itself call EnsureOwnerRef on the  *)
(* target, the stored target always keeps exactly its controller          *)
(* reference, whatever the other owners' merge patches overwrite.         *)
THEOREM ControllerRefSafe ==
    ASSUME Ctrl \notin Workers
    PROVE  Spec => []ControllerRefKept
<1>1. Spec => []IInv
    BY IInvHolds
<1>2. IInv => ControllerRefKept
    BY DEF IInv
<1>. QED
    BY <1>1, <1>2, PTL
=============================================================================
