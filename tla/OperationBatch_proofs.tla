------------------------ MODULE OperationBatch_proofs ------------------------
(***************************************************************************)
(* Proofs about OperationBatch, for every document, every set of aliases   *)
(* and every length of a batch.                                            *)
(*                                                                         *)
(* PlanSound says what the validation has learned of the operations;       *)
(* DocumentSound, which objects can be there and which of them still look  *)
(* as the caller saw them; AliasesSound, what the names of the batch stand *)
(* for while it is executed.  What an operation does to the objects is     *)
(* proved once, in OperationStep, for an operation that is executed and    *)
(* for one in which the host fails.  What is in which group is used only   *)
(* through Held: as long as nothing is grouped, it stays what it was.      *)
(***************************************************************************)
EXTENDS OperationBatch, TLAPS

-----------------------------------------------------------------------------
(* The invariant.                                                          *)

\* A target of operation j was known when j was validated.
KnownAs(t, j, kinds) ==
  IF t.by = "alias"
  THEN /\ t.ref \in DOMAIN planned /\ planned[t.ref].kind \in kinds
       /\ \E i \in 1 .. j - 1 : plan[i].ref = t.ref
  ELSE seen[t.id].kind \in kinds

TargetsKnown(j) ==
  LET op == plan[j]
  IN /\ op.type \in {"edit_item", "move_item_to_layer"} => KnownAs(op.target, j, PageItemKinds)
     /\ op.type = "move_item_to_layer" => KnownAs(op.layer, j, {"layer"})
     /\ op.type = "create_item" => KnownAs(op.page, j, {"page"})
     /\ op.type = "create_item" /\ op.layer # None => KnownAs(op.layer, j, {"layer"})
     /\ op.type = "create_page" /\ op.after # None => KnownAs(op.after, j, {"page"})

\* The kind and the object that the plan has for the result of operation j.
ResultKnown(j) ==
  LET op == plan[j]
      p == planned[op.ref]
  IN /\ op.type = "ensure_layer" => p.kind = "layer"
     /\ op.type = "define_resource" => p.kind = "resource" /\ p.id = j
     /\ op.type = "create_page" => p.kind = "page" /\ p.id = j
     /\ op.type = "create_item" => p.kind = "item" /\ p.id = j
     /\ op.type = "group_items" => p.kind = "group" /\ p.id = j
     /\ op.type \in {"edit_item", "move_item_to_layer"} =>
          IF op.target.by = "alias"
          THEN p.kind = planned[op.target.ref].kind /\ p.id = planned[op.target.ref].id
          ELSE p.kind = seen[op.target.id].kind /\ p.id = op.target.id

\* What is in the plan and in the document is an item that the caller saw.
RealKnown(x) ==
  ~planned[x].virtual =>
    planned[x].id \in Items /\ planned[x].kind = seen[planned[x].id].kind

\* The names of the operations up to the n-th.
NamesUpTo(n) == {plan[j].ref : j \in 1 .. n} \ {None}

PlanSound ==
  /\ DOMAIN planned = NamesUpTo(Len(plan))
  /\ \A x \in DOMAIN planned : RealKnown(x)
  /\ \A j \in 1 .. Len(plan) :
       /\ TargetsKnown(j)
       /\ plan[j].ref # None => ResultKnown(j)

\* What operations have not made yet is absent and holds nothing; what there
\* was before is there or deleted.
ObjectsSound ==
  /\ \A k \in Current .. MaxOperations :
       /\ object[k] = NoObject
       /\ \A i \in Ids : object[i].container # k
  /\ named # None => named \in 1 .. progress.completed /\ object[named].kind = "layer"
  /\ \A i \in Existing :
       /\ seen[i].kind = KindAtFirst(i)
       /\ object[i].kind \in {seen[i].kind, "absent"}
  /\ object[Layer].kind = "layer"
  /\ \A i \in Ids : object[i].kind = "page" => \E m \in 1 .. Len(pages) : pages[m] = i

\* What a person has changed does not look as it did, unless the batch was
\* told to change it whatever it looks like.
EditShows ==
  edited.noticed =>
    /\ edited.id \in Existing
    /\ phase = "preparing" \/ Protected => ~AsSeen(edited.id)

\* No operation up to the n-th groups anything.
NoGroupUpTo(n) == \A j \in 1 .. n : plan[j].type # "group_items"

\* Without a person and without groups, what is not as the caller saw it has
\* been disturbed by an operation.
Calm ==
  edited = NoEdit /\ NoGroupUpTo(progress.completed) =>
    /\ Held(object) = Held(seen)
    /\ \A i \in Existing :
         /\ object[i].kind = seen[i].kind
         /\ ~AsSeen(i) => \E j \in 1 .. progress.completed : i \in Disturbed(plan[j])

DocumentSound == ObjectsSound /\ EditShows /\ Calm

\* An alias of the batch: an object that is there, or was made by it, and that
\* no person has changed.
AliasSound(x) ==
  LET i == aliases[x].id
  IN /\ i \in Existing \cup 1 .. progress.completed
     /\ Protected => i # edited.id
     /\ object[i].labelled
     /\ Meant(x, i)
     /\ ProxyValid(aliases[x], object)

AliasesSound ==
  /\ DOMAIN aliases = NamesUpTo(progress.completed)
  /\ \A x \in DOMAIN aliases : AliasSound(x)
  /\ progress.aliases = {<<x, aliases[x].id>> : x \in DOMAIN aliases}

\* Before anything is executed.
Untouched ==
  /\ progress.completed = 0 /\ progress.aliases = {}
  /\ ~progress.mutationStarted /\ ~changed
  /\ DOMAIN aliases = {}
  /\ named = None

BatchInv ==
  /\ TypeOK
  /\ phase # "done" =>
       /\ PlanSound /\ DocumentSound
       /\ progress.completed <= Len(plan)
       /\ report.status = "none"
  /\ phase = "preparing" => Untouched
  /\ phase = "executing" => AliasesSound /\ (changed => progress.mutationStarted)
  /\ UnchangedAsReported
  /\ ReportedReferencesHold

-----------------------------------------------------------------------------
(* Types.                                                                  *)

LEMMA ConstantFacts ==
  /\ MaxOperations \in Nat \ {0}
  /\ Existing \cap (1 .. MaxOperations) = {}
  /\ Items \subseteq Existing /\ PageIds \subseteq Existing /\ Layer \in Existing
  /\ Existing \subseteq Ids /\ 1 .. MaxOperations \subseteq Ids
  /\ Layer \notin Items /\ Layer \notin PageIds /\ Items \cap PageIds = {}
  /\ None \notin Ids /\ Spread \notin Ids
  /\ Checks \subseteq BOOLEAN /\ Lockable \subseteq Items \cup {Layer} /\ Groups \subseteq Items
  /\ Pages \in Seq(PageIds)
  BY ConstantsAssumption DEF ConstantsAssumption, Ids, Existing

LEMMA KindFacts ==
  /\ \A i \in Items : KindAtFirst(i) \in PageItemKinds
  /\ \A i \in PageIds : KindAtFirst(i) = "page"
  /\ KindAtFirst(Layer) = "layer"
  /\ \A i \in Existing : KindAtFirst(i) \in Kinds /\ KindAtFirst(i) # "absent"
<1>1. /\ \A i \in Items : i \in Groups \/ i \in Items \ Groups
      /\ \A i \in PageIds : i \notin Groups /\ i \notin Items \ Groups
      /\ Layer \notin Groups /\ Layer \notin Items \ Groups /\ Layer \notin PageIds
  BY ConstantFacts
<1>2. \A i \in Items : KindAtFirst(i) \in PageItemKinds
  BY <1>1, ConstantFacts DEF KindAtFirst, PageItemKinds
<1>3. \A i \in PageIds : KindAtFirst(i) = "page"
  BY <1>1, ConstantFacts DEF KindAtFirst
<1>4. KindAtFirst(Layer) = "layer"
  BY <1>1 DEF KindAtFirst
<1> QED
  BY <1>2, <1>3, <1>4 DEF Existing, PageItemKinds, Kinds

\* Every target an operation can have.
AllTargets == Targets \cup LayerTargets \cup PageTargets

LEMMA TargetFields ==
  ASSUME NEW t \in AllTargets
  PROVE  \/ t.by = "alias" /\ t.ref \in Aliases
         \/ /\ t.by # "alias" /\ t.id \in Existing /\ t.checked \in BOOLEAN
            /\ t \in Targets => t.id \in Items
            /\ t \in PageTargets => t.id \in PageIds
            /\ t \in LayerTargets => t.id = Layer
<1>1. CASE t \in AliasTargets
  BY <1>1 DEF AliasTargets
<1>2. CASE t \notin AliasTargets
  <2>1. \/ t \in ReferencesTo(Items) \/ t \in ReferencesTo(PageIds) \/ t \in ReferencesTo({Layer})
        \/ t \in [by : {"name"}, id : {Layer}, checked : {FALSE}]
    BY <1>2 DEF AllTargets, Targets, LayerTargets, PageTargets
  <2>2. t.by # "alias" /\ t.id \in Existing /\ t.checked \in BOOLEAN
    BY <2>1, ConstantFacts DEF ReferencesTo
  <2>3. t \in Targets => t.id \in Items
    BY <1>2 DEF Targets, ReferencesTo
  <2>4. t \in PageTargets => t.id \in PageIds
    BY <1>2 DEF PageTargets, ReferencesTo
  <2>5. t \in LayerTargets => t.id = Layer
    BY <1>2 DEF LayerTargets, ReferencesTo
  <2> QED
    BY <2>2, <2>3, <2>4, <2>5
<1> QED
  BY <1>1, <1>2

LEMMA OperationFields ==
  ASSUME NEW op \in Operations
  PROVE  /\ op.type \in {"ensure_layer", "define_resource", "create_page", "create_item",
                         "edit_item", "move_item_to_layer", "group_items"}
         /\ op.ref \in Aliases \cup {None}
         /\ op.type = "ensure_layer" =>
              /\ op.known \in BOOLEAN /\ op.locked \in {"keep", "lock", "unlock"}
              /\ op.shows \in {"keep", "change"}
         /\ op.type = "create_page" => op.after \in PageTargets \cup {None}
         /\ op.type = "create_item" =>
              op.page \in PageTargets /\ op.layer \in LayerTargets \cup {None}
         /\ op.type = "edit_item" => op.target \in Targets /\ op.moves \in BOOLEAN
         /\ op.type = "move_item_to_layer" => op.target \in Targets /\ op.layer \in LayerTargets
         /\ op.type = "group_items" =>
              op.first \in Targets /\ op.second \in Targets /\ op.layer \in LayerTargets \cup {None}
  BY DEF Operations

LEMMA OperationTargets ==
  ASSUME NEW op \in Operations
  PROVE  /\ TargetsOf(op) \subseteq AllTargets
         /\ op.type = "create_page" /\ op.after # None => op.after \in TargetsOf(op)
         /\ op.type = "create_item" => op.page \in TargetsOf(op)
         /\ op.type = "create_item" /\ op.layer # None => op.layer \in TargetsOf(op)
         /\ op.type \in {"edit_item", "move_item_to_layer"} => op.target \in TargetsOf(op)
         /\ op.type = "move_item_to_layer" => op.layer \in TargetsOf(op)
         /\ op.type = "group_items" => op.first \in TargetsOf(op) /\ op.second \in TargetsOf(op)
         /\ op.type = "group_items" /\ op.layer # None => op.layer \in TargetsOf(op)
<1>1. None \notin Targets \cup LayerTargets \cup PageTargets
  BY NoneIsNoTarget
<1> QED
  BY <1>1, OperationFields DEF TargetsOf, AllTargets

\* Binding a name changes that name only.
LEMMA BindTable ==
  ASSUME NEW table, NEW ref, NEW x
  PROVE  /\ DOMAIN Bind(table, ref, x) = DOMAIN table \cup ({ref} \ {None})
         /\ ref # None => Bind(table, ref, x)[ref] = x
         /\ \A a \in DOMAIN table : a # ref \/ ref = None => Bind(table, ref, x)[a] = table[a]
  BY DEF Bind

LEMMA ObjectType ==
  ASSUME NEW o \in Objects
  PROVE  /\ o.kind \in Kinds /\ o.locked \in BOOLEAN /\ o.proxy \in Nat
         /\ o.container \in Ids \cup {Spread, None} /\ o.layer \in Ids \cup {None}
         /\ o.labelled \in BOOLEAN
  BY DEF Objects

LEMMA NoObjectType ==
  /\ NoObject \in Objects
  /\ NoObject.kind = "absent" /\ NoObject.container = None /\ ~NoObject.labelled
  BY DEF NoObject, Objects, Kinds

LEMMA ObjectAtFirstType ==
  ASSUME NEW i \in Existing, NEW locked \in BOOLEAN
  PROVE  /\ ObjectAtFirst(i, locked) \in Objects
         /\ ObjectAtFirst(i, locked).kind = KindAtFirst(i)
         /\ ObjectAtFirst(i, locked).container \notin 1 .. MaxOperations
<1> DEFINE c == CHOOSE c \in Groups \cup {Spread} : i \in ToSet(Stacking[c])
           container == IF i \in Items THEN c ELSE None
           layer == IF i \in Items THEN Layer ELSE None
<1>1. i \in Items => c \in Groups \cup {Spread}
  BY ConstantsAssumption DEF ConstantsAssumption
<1>2. container \in Existing \cup {Spread, None}
  BY <1>1, ConstantFacts
<1>3. container \in Ids \cup {Spread, None} /\ container \notin 1 .. MaxOperations
  BY <1>2, ConstantFacts
<1>4. layer \in Ids \cup {None}
  BY ConstantFacts
<1>5. ObjectAtFirst(i, locked)
        = [NoObject EXCEPT !.kind = KindAtFirst(i), !.locked = locked, !.layer = layer,
                           !.container = container]
  BY DEF ObjectAtFirst
<1>6. KindAtFirst(i) \in Kinds
  BY KindFacts
<1> HIDE DEF container, layer
<1>7. ObjectAtFirst(i, locked)
        = [kind |-> KindAtFirst(i), locked |-> locked, container |-> container,
           layer |-> layer, writer |-> "nobody", proxy |-> 0, labelled |-> FALSE]
  BY <1>5 DEF NoObject
<1> HIDE DEF ObjectAtFirst
<1> QED
  BY <1>3, <1>4, <1>6, <1>7 DEF Objects

LEMMA InitSound == Init => BatchInv
<1> SUFFICES ASSUME Init
             PROVE  BatchInv
  OBVIOUS
<1>1. /\ phase = "preparing" /\ plan = <<>> /\ planned = <<>> /\ aliases = <<>>
      /\ named = None /\ edited = NoEdit /\ changed = FALSE
      /\ progress = [mutationStarted |-> FALSE, completed |-> 0, aliases |-> {}]
      /\ report = [status |-> "none", failed |-> 0, completed |-> 0]
      /\ seen = object /\ altered = {} /\ order = Stacking /\ pages = Pages
  BY DEF Init
<1>2. PICK locked \in SUBSET Lockable :
        object = [i \in Ids |-> IF i \in Existing THEN ObjectAtFirst(i, i \in locked) ELSE NoObject]
  BY DEF Init
<1>3. /\ \A i \in Existing : /\ object[i] \in Objects /\ object[i].kind = KindAtFirst(i)
                             /\ object[i].container \notin 1 .. MaxOperations
      /\ \A i \in Ids \ Existing : object[i] = NoObject
  <2>1. ASSUME NEW i \in Existing
        PROVE  /\ object[i] \in Objects /\ object[i].kind = KindAtFirst(i)
               /\ object[i].container \notin 1 .. MaxOperations
    <3> DEFINE l == i \in locked
    <3>1. object[i] = ObjectAtFirst(i, l)
      BY <1>2, ConstantFacts
    <3>2. l \in BOOLEAN
      OBVIOUS
    <3> HIDE DEF l
    <3> QED
      BY <3>1, <3>2, ObjectAtFirstType
  <2> QED
    BY <1>2, <2>1
<1>4. object \in [Ids -> Objects]
  <2>1. \A i \in Ids : object[i] \in Objects
    BY <1>3, NoObjectType
  <2>2. object = [i \in Ids |-> object[i]]
    BY <1>2
  <2> QED
    BY <2>1, <2>2
<1>5. TypeOK
  <2>1. plan \in Seq(Operations) /\ Len(plan) = 0
    BY <1>1
  <2>2. DOMAIN planned = {} /\ DOMAIN aliases = {}
    BY <1>1
  <2>3. report \in Reports
    BY <1>1, ConstantFacts DEF Reports
  <2>4. progress \in [mutationStarted : BOOLEAN, completed : 0 .. MaxOperations,
                      aliases : SUBSET (Aliases \X Ids)]
    BY <1>1, ConstantFacts
  <2>5. DOMAIN order \subseteq Ids \cup {Spread}
    <3>1. DOMAIN Stacking = Groups \cup {Spread}
      BY ConstantsAssumption DEF ConstantsAssumption
    <3> QED
      BY <1>1, <3>1, ConstantFacts
  <2>6. Len(plan) <= MaxOperations
    BY <2>1, ConstantFacts
  <2>7. phase = "preparing" /\ named = None /\ changed = FALSE /\ altered = {}
    BY <1>1
  <2>8. edited \in [id : Existing \cup {None}, noticed : BOOLEAN]
    BY <1>1 DEF NoEdit
  <2>9. pages \in Seq(PageIds \cup 1 .. MaxOperations)
    BY <1>1, ConstantFacts
  <2>10. seen \in [Ids -> Objects]
    BY <1>1, <1>4
  <2> QED
    BY <1>4, <2>1, <2>2, <2>3, <2>4, <2>5, <2>6, <2>7, <2>8, <2>9, <2>10 DEF TypeOK
<1>6. PlanSound
  BY <1>1 DEF PlanSound, NamesUpTo
<1>7. ObjectsSound
  <2>1. Current = 1 /\ named = None
    BY <1>1 DEF Current
  <2>2. \A k \in 1 .. MaxOperations : k \in Ids \ Existing
    BY ConstantFacts
  <2>3. \A i \in Ids : object[i].container \notin 1 .. MaxOperations
    BY <1>3, ConstantFacts, NoObjectType
  <2>4. \A i \in Ids : object[i].kind = "page" => i \in PageIds
    <3>1. \A i \in Ids \ Existing : object[i].kind # "page"
      BY <1>3, NoObjectType
    <3>2. \A i \in Existing : KindAtFirst(i) = "page" => i \in PageIds
      BY KindFacts DEF Existing, PageItemKinds
    <3> QED
      BY <1>3, <3>1, <3>2
  <2>5. \A i \in PageIds : \E m \in 1 .. Len(pages) : pages[m] = i
    BY <1>1, ConstantFacts DEF PageIds, ToSet
  <2>6. object[Layer].kind = "layer"
    BY <1>3, ConstantFacts, KindFacts
  <2> QED
    BY <1>1, <1>3, <2>1, <2>2, <2>3, <2>4, <2>5, <2>6 DEF ObjectsSound
<1>8. EditShows /\ Calm
  BY <1>1, ConstantFacts DEF EditShows, Calm, NoEdit, AsSeen
<1> QED
  BY <1>1, <1>5, <1>6, <1>7, <1>8
  DEF BatchInv, DocumentSound, Untouched, UnchangedAsReported, ReportedReferencesHold

-----------------------------------------------------------------------------
(* What the operation that is next finds and does.                         *)

LEMMA Running ==
  ASSUME BatchInv, phase = "executing", Current <= Len(plan)
  PROVE  /\ TypeOK /\ PlanSound /\ ObjectsSound /\ EditShows /\ Calm /\ AliasesSound
         /\ progress.completed \in Nat /\ Current = progress.completed + 1
         /\ Current \in 1 .. MaxOperations /\ Current \in 1 .. Len(plan) /\ Len(plan) \in Nat
         /\ plan[Current] \in Operations
         /\ Current \in Ids /\ Current \notin Existing
         /\ object[Current] = NoObject
<1>1. TypeOK /\ PlanSound /\ ObjectsSound /\ EditShows /\ Calm /\ AliasesSound
  BY DEF BatchInv, DocumentSound
<1>2. progress.completed \in 0 .. MaxOperations /\ plan \in Seq(Operations)
      /\ Len(plan) <= MaxOperations
  BY <1>1 DEF TypeOK
<1>3. Current \in 1 .. MaxOperations /\ Current \in 1 .. Len(plan)
      /\ Current = progress.completed + 1 /\ progress.completed \in Nat
  BY <1>2, ConstantFacts DEF Current
<1>4. plan[Current] \in Operations
  BY <1>2, <1>3
<1>5. Current \in Ids /\ Current \notin Existing
  BY <1>3, ConstantFacts
<1>6. object[Current] = NoObject
  <2>1. Current \in Current .. MaxOperations
    BY <1>3, ConstantFacts
  <2> QED
    BY <1>1, <2>1 DEF ObjectsSound
<1> QED
  BY <1>1, <1>2, <1>3, <1>4, <1>5, <1>6

\* What a target is resolved to is there, and nobody else has changed it.
LEMMA Resolving ==
  ASSUME BatchInv, phase = "executing", Current <= Len(plan),
         NEW t \in TargetsOf(plan[Current]), NEW kinds, "absent" \notin kinds,
         Resolves(t, kinds)
  PROVE  /\ Resolved(t) \in Existing \cup 1 .. progress.completed
         /\ Resolved(t) \in Ids /\ Resolved(t) # Current
         /\ object[Resolved(t)].kind \in kinds
         /\ Protected => Resolved(t) # edited.id
<1>1. t \in AllTargets
  BY Running, OperationTargets
<1>2. /\ Resolved(t) \in Existing \cup 1 .. progress.completed
      /\ object[Resolved(t)].kind \in kinds
      /\ Protected => Resolved(t) # edited.id
  <2>1. CASE t.by = "alias"
    <3>1. t.ref \in DOMAIN aliases /\ object[aliases[t.ref].id].kind \in kinds
      BY <2>1 DEF Resolves
    <3>2. AliasSound(t.ref)
      BY <3>1, Running DEF AliasesSound
    <3> QED
      BY <2>1, <3>1, <3>2 DEF AliasSound, Resolved
  <2>2. CASE t.by # "alias"
    <3>1. t.id \in Existing /\ t.checked \in BOOLEAN /\ Resolved(t) = t.id
      BY <1>1, <2>2, TargetFields DEF Resolved
    <3>2. object[t.id].kind \in kinds /\ (t.checked => AsSeen(t.id))
      BY <2>2 DEF Resolves
    <3>3. ASSUME Protected, t.id = edited.id
          PROVE  FALSE
      <4>1. ~AsSeen(t.id)
        BY <3>3, Running DEF EditShows, Protected
      <4>2. t.checked = FALSE
        BY <3>1, <3>2, <4>1
      <4>3. t.id \in Names(plan[Current], FALSE)
        BY <2>2, <4>2 DEF Names
      <4> QED
        BY <3>3, <4>3, Running DEF Protected
    <3> QED
      BY <3>1, <3>2, <3>3
  <2> QED
    BY <2>1, <2>2
<1>3. Resolved(t) \in Ids /\ Resolved(t) # Current
  BY <1>2, Running, ConstantFacts
<1> QED
  BY <1>2, <1>3

LEMMA LayerResolving ==
  ASSUME BatchInv, phase = "executing", Current <= Len(plan),
         NEW t \in TargetsOf(plan[Current]) \cup {None}, LayerResolves(t)
  PROVE  LayerOf(t) \in Ids
<1>1. CASE t = None
  BY <1>1, ConstantFacts DEF LayerOf
<1>2. CASE t # None
  <2>1. t \in TargetsOf(plan[Current]) /\ Resolves(t, {"layer"})
    BY <1>2 DEF LayerResolves
  <2>2. Resolved(t) \in Ids
    BY <2>1, Resolving
  <2> QED
    BY <1>2, <2>2 DEF LayerOf
<1> QED
  BY <1>1, <1>2

LEMMA NamingLayer ==
  ASSUME BatchInv, phase = "executing", Current <= Len(plan),
         plan[Current].type = "ensure_layer", NamedLayer(plan[Current]) # None
  PROVE  LET l == NamedLayer(plan[Current])
         IN /\ l \in Existing \cup 1 .. progress.completed
            /\ object[l].kind = "layer"
            /\ l \in Existing => plan[Current].known /\ l = Layer
            /\ Protected => l # edited.id
<1> DEFINE op == plan[Current]
<1>1. CASE op.known
  <2>1. NamedLayer(op) = Layer
    BY <1>1 DEF NamedLayer
  <2>2. Layer \in Names(op, FALSE)
    BY <1>1 DEF Names
  <2>3. Protected => Layer # edited.id
    BY <2>2, Running DEF Protected
  <2> QED
    BY <1>1, <2>1, <2>3, Running, ConstantFacts DEF ObjectsSound
<1>2. CASE ~op.known
  <2>1. NamedLayer(op) = named
    BY <1>2 DEF NamedLayer
  <2>2. named \in 1 .. progress.completed /\ object[named].kind = "layer"
    BY <2>1, Running DEF ObjectsSound
  <2>3. named \notin Existing
    BY <2>2, Running, ConstantFacts
  <2>4. Protected => edited.id \in Existing
    BY Running DEF EditShows, Protected
  <2> QED
    BY <2>1, <2>2, <2>3, <2>4
<1> QED
  BY <1>1, <1>2

NewOnes == {"define_resource", "create_page", "create_item", "group_items"}

\* The object that an operation returns.
LEMMA Returning ==
  ASSUME BatchInv, phase = "executing", Current <= Len(plan), Executable(plan[Current])
  PROVE  LET op == plan[Current]
             r == ResultOf(op, Current)
         IN /\ r \in Existing \cup 1 .. Current
            /\ r \in Ids
            /\ Protected => r # edited.id
            /\ op.type \in NewOnes => r = Current
            /\ op.type = "ensure_layer" =>
                 \/ r = Current
                 \/ object[r].kind = "layer" /\ (r \in Existing => op.known /\ r = Layer)
            /\ op.type \in {"edit_item", "move_item_to_layer"} =>
                 /\ r = Resolved(op.target) /\ r # Current
                 /\ object[r].kind \in PageItemKinds
<1> DEFINE op == plan[Current]
           r == ResultOf(op, Current)
<1>0. /\ Current \in 1 .. Current
      /\ Protected => edited.id \in Existing
      /\ \A i \in 1 .. progress.completed : i \in 1 .. Current
  <2>1. Protected => edited.id \in Existing
    BY Running DEF EditShows, Protected
  <2>2. Current \in Nat \ {0} /\ Current = progress.completed + 1 /\ progress.completed \in Nat
    BY Running
  <2> QED
    BY <2>1, <2>2
<1>1. CASE op.type \in NewOnes
  <2>1. r = Current
    BY <1>1 DEF ResultOf, NewOnes
  <2> QED
    BY <1>0, <1>1, <2>1, Running DEF NewOnes
<1>2. CASE op.type = "ensure_layer"
  <2>1. r = Current \/ (NamedLayer(op) # None /\ r = NamedLayer(op))
    BY <1>2 DEF ResultOf
  <2>2. CASE r = Current
    BY <1>0, <1>2, <2>2, Running DEF NewOnes
  <2>3. CASE NamedLayer(op) # None /\ r = NamedLayer(op)
    <3>1. /\ r \in Existing \cup 1 .. progress.completed
          /\ object[r].kind = "layer"
          /\ r \in Existing => op.known /\ r = Layer
          /\ Protected => r # edited.id
      BY <1>2, <2>3, NamingLayer
    <3>2. r \in Ids
      BY <3>1, Running, ConstantFacts
    <3> HIDE DEF r
    <3> QED
      BY <1>0, <1>2, <3>1, <3>2 DEF NewOnes, r
  <2> QED
    BY <2>1, <2>2, <2>3
<1>3. CASE op.type \in {"edit_item", "move_item_to_layer"}
  <2>1. op.target \in TargetsOf(op) /\ Resolves(op.target, PageItemKinds)
    BY <1>3, Running, OperationTargets DEF Executable
  <2>2. r = Resolved(op.target)
    BY <1>3 DEF ResultOf
  <2>3. "absent" \notin PageItemKinds
    BY DEF PageItemKinds
  <2>4. /\ r \in Existing \cup 1 .. progress.completed
        /\ r \in Ids /\ r # Current
        /\ object[r].kind \in PageItemKinds
        /\ Protected => r # edited.id
    BY <2>1, <2>2, <2>3, Resolving
  <2>5. r \in Existing \cup 1 .. Current
    BY <1>0, <2>4
  <2> QED
    BY <1>3, <2>2, <2>4, <2>5 DEF NewOnes
<1> QED
  BY <1>1, <1>2, <1>3, Running, OperationFields DEF NewOnes

-----------------------------------------------------------------------------
(* What an operation does to the objects.                                  *)

\* Objects that may follow on those of the document in the operation that is
\* next.
Follows(objects) ==
  /\ objects \in [Ids -> Objects]
  /\ \A i \in Ids \ {Current} :
       /\ objects[i].kind = object[i].kind
       /\ object[i].labelled => objects[i].labelled
  /\ \A j \in Current + 1 .. MaxOperations :
       /\ objects[j] = NoObject
       /\ \A i \in Ids : objects[i].container # j
  /\ \A i \in Existing :
       objects[i].locked = object[i].locked \/ i \in Disturbed(plan[Current])
  /\ plan[Current].type # "group_items" => Held(objects) = Held(object)
  /\ Protected => objects[edited.id] = object[edited.id]

\* Who is in which group depends on the containers only.
LEMMA SameHeld ==
  ASSUME NEW before, NEW after,
         \A i \in Ids : \/ after[i].container = before[i].container
                        \/ after[i].container \notin Ids /\ before[i].container \notin Ids
  PROVE  Held(after) = Held(before)
<1>1. {j \in Ids : after[j].container \in Ids} = {j \in Ids : before[j].container \in Ids}
  OBVIOUS
<1> QED
  BY <1>1 DEF Held

\* Of the objects after the next one none is there before or after.
LEMMA LaterObjects ==
  ASSUME BatchInv, phase = "executing", Current <= Len(plan)
  PROVE  /\ \A j \in Current .. MaxOperations :
              /\ j \in Ids /\ j \notin Existing /\ object[j] = NoObject
              /\ \A i \in Ids : object[i].container # j
         /\ \A j \in Current + 1 .. MaxOperations : j \in Current .. MaxOperations /\ j # Current
<1>1. \A j \in Current .. MaxOperations : j \in 1 .. MaxOperations
  BY Running, ConstantFacts
<1>2. \A j \in Current + 1 .. MaxOperations : j \in Current .. MaxOperations /\ j # Current
  BY Running, ConstantFacts
<1> QED
  BY <1>1, <1>2, Running, ConstantFacts DEF ObjectsSound

\* A change of one object, or the creation of the one that is new.
LEMMA OneChanged ==
  ASSUME BatchInv, phase = "executing", Current <= Len(plan),
         NEW r \in Existing \cup 1 .. Current, r \in Ids,
         Protected => r # edited.id, NEW o \in Objects,
         r # Current => o.kind = object[r].kind,
         o.labelled = object[r].labelled \/ r = Current,
         r \in Existing => o.locked = object[r].locked \/ r \in Disturbed(plan[Current]),
         \/ o.container = object[r].container
         \/ o.container \notin Ids /\ object[r].container \notin Ids
  PROVE  Follows([object EXCEPT ![r] = o])
<1> DEFINE objects == [object EXCEPT ![r] = o]
<1>1. object \in [Ids -> Objects] /\ Existing \subseteq Ids
  BY Running, ConstantFacts DEF TypeOK
<1>2. \A i \in Ids : objects[i] = IF i = r THEN o ELSE object[i]
  BY <1>1
<1>3. objects \in [Ids -> Objects]
  BY <1>1
<1>4. Protected => edited.id \in Ids
  BY <1>1, Running DEF EditShows, Protected
<1> HIDE DEF objects
<1>5. \A i \in Ids : \/ objects[i].container = object[i].container
                     \/ objects[i].container \notin Ids /\ object[i].container \notin Ids
  BY <1>2
<1>6. Held(objects) = Held(object)
  BY <1>5, SameHeld
<1>7. ASSUME NEW j \in Current + 1 .. MaxOperations
      PROVE  objects[j] = NoObject /\ \A i \in Ids : objects[i].container # j
  <2>1. /\ j \in Ids /\ j \notin Existing /\ object[j] = NoObject
        /\ \A i \in Ids : object[i].container # j
    BY <1>7, LaterObjects
  <2>2. j # r
    BY <1>7, <2>1, Running, ConstantFacts
  <2> QED
    BY <1>2, <1>5, <2>1, <2>2
<1> QED
  BY <1>1, <1>2, <1>3, <1>4, <1>6, <1>7 DEF Follows, objects

\* The object that is returned gets its label.
LEMMA Labelling ==
  ASSUME NEW objects, NEW r \in Existing \cup 1 .. Current, r \in Ids,
         Protected => r # edited.id, Follows(objects),
         \A j \in Current + 1 .. MaxOperations : j # r
  PROVE  LET after == [objects EXCEPT ![r].labelled = TRUE]
         IN /\ Follows(after) /\ after[r].labelled /\ after[r].kind = objects[r].kind
            /\ \A i \in Ids : /\ after[i].kind = objects[i].kind
                              /\ after[i].container = objects[i].container
<1> DEFINE after == [objects EXCEPT ![r].labelled = TRUE]
<1>1. objects \in [Ids -> Objects]
  BY DEF Follows
<1>2. [objects[r] EXCEPT !.labelled = TRUE] \in Objects
  BY <1>1 DEF Objects
<1>3. \A i \in Ids : after[i] = IF i = r THEN [objects[r] EXCEPT !.labelled = TRUE] ELSE objects[i]
  BY <1>1
<1>4. after \in [Ids -> Objects]
  BY <1>1, <1>2
<1>5. \A i \in Ids : /\ after[i].kind = objects[i].kind
                     /\ after[i].container = objects[i].container
                     /\ after[i].locked = objects[i].locked
                     /\ objects[i].labelled => after[i].labelled
                     /\ i = r => after[i].labelled
  <2> SUFFICES ASSUME NEW i \in Ids
               PROVE  /\ after[i].kind = objects[i].kind
                      /\ after[i].container = objects[i].container
                      /\ after[i].locked = objects[i].locked
                      /\ objects[i].labelled => after[i].labelled
                      /\ i = r => after[i].labelled
    OBVIOUS
  <2>1. objects[i] \in Objects
    BY <1>1
  <2> HIDE DEF after
  <2> QED
    BY <1>3, <2>1 DEF Objects
<1> HIDE DEF after
<1>6. Held(after) = Held(objects)
  BY <1>5, SameHeld
<1>7. \A j \in Current + 1 .. MaxOperations :
        after[j] = NoObject /\ \A i \in Ids : after[i].container # j
  <2> SUFFICES ASSUME NEW j \in Current + 1 .. MaxOperations
               PROVE  after[j] = NoObject /\ \A i \in Ids : after[i].container # j
    OBVIOUS
  <2>1. objects[j] = NoObject /\ (\A i \in Ids : objects[i].container # j) /\ j # r
    BY DEF Follows
  <2>2. after[j] = objects[j]
    BY <1>1, <2>1 DEF after
  <2> QED
    BY <1>5, <2>1, <2>2
<1>8. Protected => after[edited.id] = object[edited.id]
  <2>1. Protected => objects[edited.id] = object[edited.id]
    BY DEF Follows
  <2>2. Protected => after[edited.id] = objects[edited.id]
    BY <1>1 DEF after
  <2> QED
    BY <2>1, <2>2
<1>9. Existing \subseteq Ids
  BY ConstantFacts
<1>10. Follows(after)
  BY <1>4, <1>5, <1>6, <1>7, <1>8, <1>9 DEF Follows
<1> QED
  BY <1>5, <1>10 DEF after

\* What the lemmas about the operations need of the next one.
LEMMA NextOperation ==
  ASSUME BatchInv, phase = "executing", Current <= Len(plan), Executable(plan[Current])
  PROVE  LET op == plan[Current]
             r == ResultOf(op, Current)
         IN /\ r \in Existing \cup 1 .. Current /\ r \in Ids
            /\ Protected => r # edited.id
            /\ object \in [Ids -> Objects] /\ object[r] \in Objects
  BY Returning, Running DEF TypeOK

LEMMA EnsureLayer ==
  ASSUME BatchInv, phase = "executing", Current <= Len(plan), Executable(plan[Current]),
         plan[Current].type = "ensure_layer"
  PROVE  LET op == plan[Current]
         IN /\ Follows(ObjectsChanged(op, Current))
            /\ ObjectsChanged(op, Current)[ResultOf(op, Current)].kind = "layer"
<1> DEFINE op == plan[Current]
           r == ResultOf(op, Current)
           o == [object[r] EXCEPT !.kind = "layer",
                   !.locked = IF op.locked = "keep" THEN @ ELSE op.locked = "lock"]
<1>1. /\ r \in Existing \cup 1 .. Current /\ r \in Ids
      /\ Protected => r # edited.id
      /\ object \in [Ids -> Objects] /\ object[r] \in Objects
  BY NextOperation
<1>2. ObjectsChanged(op, Current) = [object EXCEPT ![r] = o]
  <2>1. ObjectsChanged(op, Current)
          = [object EXCEPT ![r].kind = "layer",
                           ![r].locked = IF op.locked = "keep" THEN @ ELSE op.locked = "lock"]
    BY DEF ObjectsChanged
  <2> HIDE DEF op, r
  <2> QED
    BY <1>1, <2>1 DEF Objects
<1>3. r # Current => object[r].kind = "layer"
  BY Returning
<1>4. r \in Existing /\ op.locked # "keep" => r \in Disturbed(op)
  <2>1. r \in Existing => op.known /\ r = Layer
    BY Returning, Running
  <2>2. op.known /\ op.locked # "keep" => Layer \in Disturbed(op)
    BY DEF Disturbed
  <2> QED
    BY <2>1, <2>2
<1> HIDE DEF r, op
<1>5. /\ o \in Objects /\ o.kind = "layer" /\ o.labelled = object[r].labelled
      /\ o.container = object[r].container
      /\ op.locked = "keep" => o.locked = object[r].locked
  BY <1>1 DEF Objects, Kinds
<1> HIDE DEF o
<1>6. r \in Existing => o.locked = object[r].locked \/ r \in Disturbed(plan[Current])
  BY <1>4, <1>5 DEF op
<1>7. Follows([object EXCEPT ![r] = o])
  BY <1>1, <1>3, <1>5, <1>6, OneChanged
<1>8. [object EXCEPT ![r] = o][r].kind = "layer"
  BY <1>1, <1>5
<1> QED
  BY <1>2, <1>7, <1>8 DEF r, op

\* The operations whose result is one new object.
LEMMA CreateOne ==
  ASSUME BatchInv, phase = "executing", Current <= Len(plan),
         NEW o \in Objects, o.container \notin Ids
  PROVE  /\ Follows([object EXCEPT ![Current] = o])
         /\ [object EXCEPT ![Current] = o][Current] = o
<1>1. /\ Current \in 1 .. Current /\ Current \in Ids /\ Current \notin Existing
      /\ object \in [Ids -> Objects]
  BY Running DEF TypeOK
<1>2. object[Current].container \notin Ids
  BY Running, ConstantFacts, NoObjectType
<1>3. Protected => edited.id # Current
  BY <1>1, Running DEF EditShows, Protected
<1>4. Follows([object EXCEPT ![Current] = o])
  BY <1>1, <1>2, <1>3, OneChanged
<1> QED
  BY <1>1, <1>4

LEMMA CreateObject ==
  ASSUME BatchInv, phase = "executing", Current <= Len(plan), Executable(plan[Current]),
         plan[Current].type \in {"define_resource", "create_page"}
  PROVE  LET op == plan[Current]
             after == ObjectsChanged(op, Current)
         IN /\ Follows(after)
            /\ op.type = "define_resource" => after[ResultOf(op, Current)].kind = "resource"
            /\ op.type = "create_page" => after[ResultOf(op, Current)].kind = "page"
<1> DEFINE op == plan[Current]
           kind == IF op.type = "define_resource" THEN "resource" ELSE "page"
           o == [NoObject EXCEPT !.kind = kind]
<1>1. ResultOf(op, Current) = Current
  BY DEF ResultOf
<1>2. object[Current] = NoObject
  BY Running
<1>3. ObjectsChanged(op, Current) = [object EXCEPT ![Current] = [object[Current] EXCEPT !.kind = kind]]
  BY <1>1 DEF ObjectsChanged
<1>4. o \in Objects /\ o.kind = kind /\ o.container \notin Ids
  BY ConstantFacts DEF Objects, Kinds, NoObject
<1> HIDE DEF o
<1>5. Follows([object EXCEPT ![Current] = o]) /\ [object EXCEPT ![Current] = o][Current] = o
  BY <1>4, CreateOne
<1> QED
  BY <1>1, <1>2, <1>3, <1>4, <1>5 DEF o

LEMMA CreateItem ==
  ASSUME BatchInv, phase = "executing", Current <= Len(plan), Executable(plan[Current]),
         plan[Current].type = "create_item"
  PROVE  LET op == plan[Current]
         IN /\ Follows(ObjectsChanged(op, Current))
            /\ ObjectsChanged(op, Current)[ResultOf(op, Current)].kind = "item"
<1> DEFINE op == plan[Current]
           container == ContainerOn(op.page)
           o == [NoObject EXCEPT !.kind = "item", !.layer = LayerOf(op.layer),
                                 !.container = container]
<1>1. ResultOf(op, Current) = Current
  BY DEF ResultOf
<1>2. ObjectsChanged(op, Current) = [object EXCEPT ![Current] = o]
  BY <1>1 DEF ObjectsChanged
<1>3. LayerOf(op.layer) \in Ids
  <2>1. op.layer \in TargetsOf(op) \cup {None} /\ LayerResolves(op.layer)
    BY Running, OperationTargets DEF Executable
  <2> QED
    BY <2>1, LayerResolving
<1>4. container \in {Spread, None}
  BY DEF ContainerOn
<1> HIDE DEF op, container
<1>5. /\ o \in Objects /\ o.kind = "item" /\ o.container \notin Ids
  BY <1>3, <1>4, ConstantFacts DEF Objects, Kinds, NoObject
<1> HIDE DEF o
<1>6. Follows([object EXCEPT ![Current] = o]) /\ [object EXCEPT ![Current] = o][Current] = o
  BY <1>5, CreateOne
<1> QED
  BY <1>1, <1>2, <1>5, <1>6 DEF op

LEMMA ChangeItem ==
  ASSUME BatchInv, phase = "executing", Current <= Len(plan), Executable(plan[Current]),
         plan[Current].type \in {"edit_item", "move_item_to_layer"}
  PROVE  LET op == plan[Current]
             r == ResultOf(op, Current)
         IN /\ Follows(ObjectsChanged(op, Current))
            /\ ObjectsChanged(op, Current)[r].kind = object[r].kind
<1> DEFINE op == plan[Current]
           r == ResultOf(op, Current)
           edit == [object[r] EXCEPT !.writer = "batch"]
           move == [object[r] EXCEPT !.layer = Resolved(op.layer)]
<1>1. /\ r \in Existing \cup 1 .. Current /\ r \in Ids
      /\ Protected => r # edited.id
      /\ object \in [Ids -> Objects] /\ object[r] \in Objects
  BY NextOperation
<1>2. CASE op.type = "edit_item"
  <2>1. ObjectsChanged(op, Current) = [object EXCEPT ![r] = edit]
    BY <1>2 DEF ObjectsChanged
  <2> HIDE DEF r, op
  <2>2. /\ edit \in Objects /\ edit.kind = object[r].kind /\ edit.locked = object[r].locked
        /\ edit.labelled = object[r].labelled /\ edit.container = object[r].container
    BY <1>1 DEF Objects
  <2> HIDE DEF edit
  <2>3. Follows([object EXCEPT ![r] = edit])
    BY <1>1, <2>2, OneChanged
  <2>4. [object EXCEPT ![r] = edit][r].kind = object[r].kind
    BY <1>1, <2>2
  <2> QED
    BY <2>1, <2>3, <2>4 DEF r, op
<1>3. CASE op.type = "move_item_to_layer"
  <2>1. ObjectsChanged(op, Current) = [object EXCEPT ![r] = move]
    BY <1>3 DEF ObjectsChanged
  <2>2. Resolved(op.layer) \in Ids
    <3>1. op.layer \in TargetsOf(op) /\ LayerResolves(op.layer)
      BY <1>3, Running, OperationTargets DEF Executable
    <3>2. op.layer # None
      BY <1>3, Running, OperationFields, NoneIsNoTarget
    <3>3. Resolves(op.layer, {"layer"})
      BY <3>1, <3>2 DEF LayerResolves
    <3> QED
      BY <3>1, <3>3, Resolving
  <2> HIDE DEF r, op
  <2>3. /\ move \in Objects /\ move.kind = object[r].kind /\ move.locked = object[r].locked
        /\ move.labelled = object[r].labelled /\ move.container = object[r].container
    BY <1>1, <2>2 DEF Objects
  <2> HIDE DEF move
  <2>4. Follows([object EXCEPT ![r] = move])
    BY <1>1, <2>3, OneChanged
  <2>5. [object EXCEPT ![r] = move][r].kind = object[r].kind
    BY <1>1, <2>3
  <2> QED
    BY <2>1, <2>4, <2>5 DEF r, op
<1> QED
  BY <1>2, <1>3

\* What is grouped are the two targets, which are there and free.
LEMMA Grouping ==
  ASSUME BatchInv, phase = "executing", Current <= Len(plan), Executable(plan[Current]),
         plan[Current].type = "group_items"
  PROVE  LET op == plan[Current]
             a == Resolved(op.first)
             b == Resolved(op.second)
         IN /\ Members(op) = {a, b}
            /\ \A i \in {a, b} :
                 /\ i \in Ids /\ i # Current /\ (Protected => i # edited.id)
                 /\ ~object[i].locked /\ ~OnLockedLayer(i)
            /\ op.first \in TargetsOf(op) /\ op.second \in TargetsOf(op)
            /\ Resolves(op.first, PageItemKinds) /\ Resolves(op.second, PageItemKinds)
<1> DEFINE op == plan[Current]
           a == Resolved(op.first)
           b == Resolved(op.second)
<1>1. /\ op.first \in TargetsOf(op) /\ op.second \in TargetsOf(op)
      /\ Resolves(op.first, PageItemKinds) /\ Resolves(op.second, PageItemKinds)
      /\ Groupable(op)
  BY Running, OperationTargets DEF Executable
<1>2. "absent" \notin PageItemKinds
  BY DEF PageItemKinds
<1>3. \A i \in {a, b} : i \in Ids /\ i # Current /\ (Protected => i # edited.id)
  BY <1>1, <1>2, Resolving
<1>4. /\ Members(op) = {a, b}
      /\ \A i \in {a, b} : ~object[i].locked /\ ~OnLockedLayer(i)
  BY <1>1 DEF Groupable, ExactRange, Members
<1> QED
  BY <1>1, <1>3, <1>4

LEMMA GroupItems ==
  ASSUME BatchInv, phase = "executing", Current <= Len(plan), Executable(plan[Current]),
         plan[Current].type = "group_items"
  PROVE  LET op == plan[Current]
             objects == ObjectsChanged(op, Current)
         IN /\ Follows(objects)
            /\ objects[Current].kind = "group"
            /\ \A i \in Ids : objects[i].container = Current
                                <=> i \in {Resolved(op.first), Resolved(op.second)}
<1> DEFINE op == plan[Current]
           a == Resolved(op.first)
           b == Resolved(op.second)
           into(i) == [object[i] EXCEPT !.container = Current, !.labelled = TRUE, !.proxy = @ + 1]
           group == [NoObject EXCEPT !.kind = "group", !.layer = LayerOf(op.layer),
                                     !.container = object[a].container]
           objects == ObjectsChanged(op, Current)
<1>1. /\ object \in [Ids -> Objects] /\ Current \in Ids /\ Current \notin Existing
      /\ Current \in 1 .. MaxOperations
      /\ \A j \in Current .. MaxOperations : \A i \in Ids : object[i].container # j
  BY Running, LaterObjects DEF TypeOK
<1>2. \A i \in {a, b} : i \in Ids /\ i # Current /\ (Protected => i # edited.id)
  BY Grouping
<1>3. objects = [i \in Ids |-> CASE i \in {a, b} -> into(i)
                                [] i = Current -> group
                                [] OTHER -> object[i]]
  BY Grouping DEF ObjectsChanged
<1>4. LayerOf(op.layer) \in Ids
  <2>1. op.layer \in TargetsOf(op) \cup {None} /\ LayerResolves(op.layer)
    BY Running, OperationTargets DEF Executable
  <2> QED
    BY <2>1, LayerResolving
<1>5. \A i \in Ids : /\ object[i] \in Objects
                     /\ i \in {a, b} => objects[i] = into(i)
                     /\ i = Current => objects[i] = group
                     /\ i \notin {a, b, Current} => objects[i] = object[i]
  BY <1>1, <1>2, <1>3
<1> HIDE DEF op, a, b, objects
<1>6. \A i \in Ids : /\ into(i) \in Objects /\ into(i).kind = object[i].kind /\ into(i).labelled
                     /\ into(i).container = Current /\ into(i).locked = object[i].locked
  <2> TAKE i \in Ids
  <2>1. object[i] \in Objects
    BY <1>5
  <2>2. object[i].proxy + 1 \in Nat
    BY <2>1 DEF Objects
  <2> QED
    BY <1>1, <2>1, <2>2 DEF Objects
<1>7. object[a] \in Objects
  BY <1>2, <1>5
<1>8. group \in Objects /\ group.kind = "group" /\ group.container = object[a].container
  BY <1>4, <1>7 DEF Objects, NoObject, Kinds
<1>9. group.container \notin Current .. MaxOperations
  BY <1>1, <1>2, <1>8
<1> HIDE DEF into, group
<1>10. objects \in [Ids -> Objects]
  <2>1. \A i \in Ids : objects[i] \in Objects
    BY <1>5, <1>6, <1>8
  <2>2. objects = [i \in Ids |-> objects[i]]
    BY <1>3
  <2> QED
    BY <2>1, <2>2
<1>11. \A i \in Ids \ {Current} :
         /\ objects[i].kind = object[i].kind
         /\ object[i].labelled => objects[i].labelled
         /\ objects[i].locked = object[i].locked
  BY <1>5, <1>6
<1>12. \A i \in Ids : /\ i \in {a, b} => objects[i].container = Current
                      /\ i \notin {a, b} => objects[i].container \notin Current .. MaxOperations
  <2> TAKE i \in Ids
  <2>1. CASE i \in {a, b}
    BY <1>5, <1>6, <2>1
  <2>2. CASE i = Current
    BY <1>2, <1>5, <1>9, <2>2
  <2>3. CASE i \notin {a, b, Current}
    BY <1>1, <1>5, <2>3
  <2> QED
    BY <2>1, <2>2, <2>3
<1>13. Protected => objects[edited.id] = object[edited.id]
  <2> SUFFICES ASSUME Protected
               PROVE  objects[edited.id] = object[edited.id]
    OBVIOUS
  <2>1. edited.id \in Existing
    BY Running DEF EditShows, Protected
  <2>2. edited.id \in Ids /\ edited.id \notin {a, b, Current}
    BY <1>1, <1>2, <2>1, ConstantFacts
  <2> QED
    BY <1>5, <2>2
<1>14. Follows(objects)
  <2>1. ASSUME NEW j \in Current + 1 .. MaxOperations
        PROVE  objects[j] = NoObject /\ \A i \in Ids : objects[i].container # j
    <3>1. j \in Current .. MaxOperations /\ j # Current
      BY <2>1, LaterObjects
    <3>2. j \in Ids /\ object[j] = NoObject
      BY <3>1, LaterObjects
    <3>3. j \notin {a, b}
      <4>1. \A i \in {a, b} : object[i].kind # "absent"
        BY Resolving, Grouping DEF PageItemKinds, a, b, op
      <4> QED
        BY <3>2, <4>1, NoObjectType
    <3>4. objects[j] = NoObject
      BY <1>5, <3>1, <3>2, <3>3
    <3> QED
      BY <1>12, <3>1, <3>4
  <2>2. Existing \subseteq Ids \ {Current}
    BY <1>1, ConstantFacts
  <2> QED
    BY <1>1, <1>10, <1>11, <1>13, <2>1, <2>2 DEF Follows
<1>15. Current \in Current .. MaxOperations
  BY <1>1
<1> QED
  BY <1>1, <1>5, <1>8, <1>12, <1>14, <1>15 DEF op, a, b, objects

\* Whatever the next operation is.
LEMMA OperationStep ==
  ASSUME BatchInv, phase = "executing", Current <= Len(plan), Executable(plan[Current])
  PROVE  LET op == plan[Current]
             r == ResultOf(op, Current)
             objects == ObjectsChanged(op, Current)
             after == ObjectsAfter(op, Current)
         IN /\ Follows(objects) /\ Follows(after) /\ after[r].labelled
            /\ after[r].kind = objects[r].kind
            /\ op.type = "ensure_layer" => after[r].kind = "layer"
            /\ op.type = "define_resource" => after[r].kind = "resource"
            /\ op.type = "create_page" => after[r].kind = "page"
            /\ op.type = "create_item" => after[r].kind = "item"
            /\ op.type = "group_items" => after[r].kind = "group"
            /\ op.type \in {"edit_item", "move_item_to_layer"} =>
                 after[r].kind = object[r].kind
            /\ \A i \in Ids : /\ after[i].kind = objects[i].kind
                              /\ after[i].container = objects[i].container
<1> DEFINE op == plan[Current]
           r == ResultOf(op, Current)
           objects == ObjectsChanged(op, Current)
           after == ObjectsAfter(op, Current)
<1>1. /\ r \in Existing \cup 1 .. Current /\ r \in Ids /\ (Protected => r # edited.id)
      /\ op.type = "group_items" => r = Current
  BY Returning DEF NewOnes
<1>2. op.type \in {"ensure_layer", "define_resource", "create_page", "create_item", "edit_item",
                   "move_item_to_layer", "group_items"}
  BY Running, OperationFields
<1>3. Follows(objects)
  BY <1>2, EnsureLayer, CreateObject, CreateItem, ChangeItem, GroupItems
<1>4. /\ op.type = "ensure_layer" => objects[r].kind = "layer"
      /\ op.type = "define_resource" => objects[r].kind = "resource"
      /\ op.type = "create_page" => objects[r].kind = "page"
      /\ op.type = "create_item" => objects[r].kind = "item"
      /\ op.type = "group_items" => objects[r].kind = "group"
      /\ op.type \in {"edit_item", "move_item_to_layer"} => objects[r].kind = object[r].kind
  BY <1>1, EnsureLayer, CreateObject, CreateItem, ChangeItem, GroupItems
<1>5. after = [objects EXCEPT ![r].labelled = TRUE]
  BY DEF ObjectsAfter
<1>6. \A j \in Current + 1 .. MaxOperations : j # r
  <2> SUFFICES ASSUME NEW j \in Current + 1 .. MaxOperations, j = r
               PROVE  FALSE
    OBVIOUS
  <2>1. j \notin Existing
    BY LaterObjects
  <2> HIDE DEF r
  <2> QED
    BY <1>1, <2>1, Running, ConstantFacts
<1> HIDE DEF r, objects, after, op
<1>7. /\ Follows(after) /\ after[r].labelled /\ after[r].kind = objects[r].kind
      /\ \A i \in Ids : /\ after[i].kind = objects[i].kind
                        /\ after[i].container = objects[i].container
  <2> DEFINE labelled == [objects EXCEPT ![r].labelled = TRUE]
  <2>1. /\ Follows(labelled) /\ labelled[r].labelled /\ labelled[r].kind = objects[r].kind
        /\ \A i \in Ids : /\ labelled[i].kind = objects[i].kind
                          /\ labelled[i].container = objects[i].container
    BY <1>1, <1>3, <1>6, Labelling
  <2>2. after = labelled
    BY <1>5
  <2> HIDE DEF labelled
  <2> QED
    BY <2>1, <2>2
<1> QED
  BY <1>3, <1>4, <1>7 DEF r, objects, after, op

\* Sequence t has k and all that s has.
Has(t, s, k) ==
  /\ \E l \in 1 .. Len(t) : t[l] = k
  /\ \A m \in 1 .. Len(s) : \E l \in 1 .. Len(t) : t[l] = s[m]

\* A page that is put after another leaves the others where they are.
LEMMA InsertedAfter ==
  ASSUME NEW S, NEW s \in Seq(S), NEW n \in 1 .. Len(s), NEW k \in S, NEW p, p = n + 1
  PROVE  InsertAt(s, p, k) \in Seq(S) /\ Has(InsertAt(s, p, k), s, k)
<1> DEFINE front == SubSeq(s, 1, n)
           back == SubSeq(s, n + 1, Len(s))
           t == InsertAt(s, p, k)
<1>1. /\ front \in Seq(S) /\ Len(front) = n /\ \A l \in 1 .. n : front[l] = s[l]
  OBVIOUS
<1>2. /\ back \in Seq(S) /\ Len(back) = Len(s) - n
      /\ \A l \in 1 .. Len(s) - n : back[l] = s[n + l]
  OBVIOUS
<1>3. t = front \o <<k>> \o back
  <2>1. p - 1 = n
    OBVIOUS
  <2> QED
    BY <2>1 DEF InsertAt
<1> HIDE DEF front, back, t
<1>4. /\ t \in Seq(S) /\ Len(t) = Len(s) + 1
      /\ \A l \in 1 .. n : t[l] = front[l]
      /\ t[n + 1] = k
      /\ \A l \in 1 .. Len(s) - n : t[n + 1 + l] = back[l]
  <2> DEFINE u == front \o <<k>>
  <2>1. u \in Seq(S) /\ Len(u) = n + 1 /\ u[n + 1] = k /\ \A l \in 1 .. n : u[l] = front[l]
    BY <1>1
  <2>2. t = u \o back
    BY <1>3
  <2> HIDE DEF u
  <2>0. u \in Seq(S) /\ back \in Seq(S)
    BY <1>2, <2>1
  <2>3. t \in Seq(S)
    BY <2>0, <2>2
  <2>4. Len(t) = Len(u) + Len(back)
    BY <2>0, <2>2
  <2>5. \A l \in 1 .. n + 1 : t[l] = u[l]
    BY <1>2, <2>1, <2>2
  <2>6. \A l \in 1 .. Len(back) : t[Len(u) + l] = back[l]
    BY <1>2, <2>1, <2>2
  <2>7. (\A l \in 1 .. n : l \in 1 .. n + 1) /\ n + 1 \in 1 .. n + 1
    OBVIOUS
  <2>8. Len(t) = Len(s) + 1
    BY <1>2, <2>1, <2>4
  <2>9. t[n + 1] = k /\ \A l \in 1 .. n : t[l] = front[l]
    BY <2>1, <2>5, <2>7
  <2>10. \A l \in 1 .. Len(s) - n : t[n + 1 + l] = back[l]
    BY <1>2, <2>1, <2>6
  <2> QED
    BY <2>3, <2>8, <2>9, <2>10
<1>5. \A m \in 1 .. Len(s) : \E l \in 1 .. Len(t) : t[l] = s[m]
  <2> TAKE m \in 1 .. Len(s)
  <2>1. CASE m <= n
    BY <1>1, <1>4, <2>1
  <2>2. CASE m > n
    <3>1. m - n \in 1 .. Len(s) - n /\ m + 1 \in 1 .. Len(t)
      BY <1>4, <2>2
    <3>2. t[n + 1 + (m - n)] = back[m - n] /\ back[m - n] = s[n + (m - n)]
      BY <1>2, <1>4, <3>1
    <3>3. n + 1 + (m - n) = m + 1 /\ n + (m - n) = m
      OBVIOUS
    <3> QED
      BY <3>1, <3>2, <3>3
  <2> QED
    BY <2>1, <2>2
<1>6. n + 1 \in 1 .. Len(t)
  BY <1>4
<1> QED
  BY <1>4, <1>5, <1>6 DEF t, Has

\* The pages after an operation.
LEMMA PagesStep ==
  ASSUME BatchInv, phase = "executing", Current <= Len(plan), Executable(plan[Current])
  PROVE  LET new == PagesAfter(plan[Current], Current)
         IN /\ new \in Seq(PageIds \cup 1 .. MaxOperations)
            /\ \A m \in 1 .. Len(pages) : \E l \in 1 .. Len(new) : new[l] = pages[m]
            /\ plan[Current].type = "create_page" => \E l \in 1 .. Len(new) : new[l] = Current
<1> DEFINE op == plan[Current]
           new == PagesAfter(op, Current)
<1>1. pages \in Seq(PageIds \cup 1 .. MaxOperations) /\ Current \in PageIds \cup 1 .. MaxOperations
  BY Running DEF TypeOK
<1>2. CASE op.type # "create_page"
  <2>1. new = pages
    BY <1>2 DEF PagesAfter
  <2> QED
    BY <1>1, <1>2, <2>1
<1>3. CASE op.type = "create_page" /\ op.after = None
  <2>1. new = Append(pages, Current)
    BY <1>3 DEF PagesAfter
  <2> HIDE DEF new, op
  <2>2. /\ new \in Seq(PageIds \cup 1 .. MaxOperations) /\ Len(new) = Len(pages) + 1
        /\ new[Len(pages) + 1] = Current /\ \A m \in 1 .. Len(pages) : new[m] = pages[m]
    BY <1>1, <2>1
  <2>3. /\ \A m \in 1 .. Len(pages) : m \in 1 .. Len(new)
        /\ Len(pages) + 1 \in 1 .. Len(new)
    BY <1>1, <2>2
  <2> QED
    BY <2>2, <2>3 DEF new, op
<1>4. CASE op.type = "create_page" /\ op.after # None
  <2> DEFINE n == CHOOSE m \in 1 .. Len(pages) : pages[m] = Resolved(op.after)
  <2>1. op.after \in TargetsOf(op) /\ Resolves(op.after, {"page"})
    BY <1>4, Running, OperationTargets DEF Executable
  <2>2. Resolved(op.after) \in Ids /\ object[Resolved(op.after)].kind = "page"
    BY <2>1, Resolving
  <2>3. n \in 1 .. Len(pages)
    BY <2>2, Running DEF ObjectsSound
  <2>4. new = InsertAt(pages, n + 1, Current)
    BY <1>4 DEF PagesAfter
  <2> DEFINE S == PageIds \cup 1 .. MaxOperations
             p == n + 1
  <2> HIDE DEF n, S
  <2>5. InsertAt(pages, p, Current) \in Seq(S) /\ Has(InsertAt(pages, p, Current), pages, Current)
    <3>1. pages \in Seq(S) /\ Current \in S
      BY <1>1 DEF S
    <3>2. p = n + 1
      OBVIOUS
    <3> HIDE DEF p
    <3> QED
      BY <2>3, <3>1, <3>2, InsertedAfter
  <2> QED
    BY <1>4, <2>4, <2>5 DEF S, Has
<1> QED
  BY <1>2, <1>3, <1>4

\* The document after an operation, whole or broken off before the label.
LEMMA DocumentAfter ==
  ASSUME BatchInv, phase = "executing", Current <= Len(plan), Executable(plan[Current]),
         NEW objects, Follows(objects), Changes(plan[Current], Current, objects)
  PROVE  /\ object' \in [Ids -> Objects] /\ object' = objects
         /\ seen' \in [Ids -> Objects] /\ seen' = seen
         /\ altered' \subseteq Ids
         /\ pages' \in Seq(PageIds \cup 1 .. MaxOperations)
         /\ DOMAIN order' \subseteq Ids \cup {Spread}
         /\ named' \in Ids \cup {None}
         /\ changed' = TRUE /\ edited' = edited
<1> DEFINE op == plan[Current]
<1>1. /\ object' = objects /\ changed' = TRUE /\ seen' = seen /\ edited' = edited
      /\ named' = NamedAfter(op, Current) /\ pages' = PagesAfter(op, Current)
      /\ order' = OrderAfter(op, Current)
      /\ \E touched \in SUBSET Alongside(op) : altered' = altered \cup Alters(op, Current) \cup touched
  BY DEF Changes
<1>2. object' \in [Ids -> Objects] /\ seen \in [Ids -> Objects]
  BY <1>1, Running DEF Follows, TypeOK
<1>3. DOMAIN order' \subseteq Ids \cup {Spread}
  <2>1. DOMAIN order \subseteq Ids \cup {Spread} /\ Current \in Ids
    BY Running DEF TypeOK
  <2>2. DOMAIN OrderAfter(op, Current) \subseteq DOMAIN order \cup {Current}
    <3>1. CASE op.type = "create_item"
      BY <3>1 DEF OrderAfter
    <3>2. CASE op.type = "group_items"
      BY <3>2 DEF OrderAfter
    <3>3. CASE op.type \notin {"create_item", "group_items"}
      BY <3>3 DEF OrderAfter
    <3> QED
      BY <3>1, <3>2, <3>3
  <2> QED
    BY <1>1, <2>1, <2>2
<1>4. named' \in Ids \cup {None}
  BY <1>1, Returning, Running DEF NamedAfter, TypeOK
<1>5. Alters(op, Current) \subseteq Ids
  BY Returning DEF Alters
<1>6. Alongside(op) \subseteq Ids
  <2>1. Kin(Held(object), Resolved(op.target)) \subseteq Ids
    BY DEF Kin
  <2>2. Behind(Resolved(op.after)) \subseteq Ids
    <3>1. \A m \in 1 .. Len(pages) : pages[m] \in Ids
      BY Running, ConstantFacts DEF TypeOK
    <3> QED
      BY <3>1 DEF Behind
  <2> QED
    BY <2>1, <2>2 DEF Alongside
<1>7. altered' \subseteq Ids
  BY <1>1, <1>5, <1>6, Running DEF TypeOK
<1> QED
  BY <1>1, <1>2, <1>3, <1>4, <1>7, PagesStep

-----------------------------------------------------------------------------
(* Validation.                                                             *)

LEMMA PlanTypes ==
  ASSUME NEW p \in Plans
  PROVE  /\ p.id \in Ids /\ p.kind \in Kinds /\ p.locked \in BOOLEAN /\ p.layerLocked \in BOOLEAN
         /\ p.virtual \in BOOLEAN /\ p.container \in Ids \cup {Spread, None}
  BY DEF Plans

LEMMA RealType ==
  ASSUME TypeOK, NEW i \in Ids
  PROVE  Real(i) \in Plans
<1> DEFINE layerLocked == object[i].layer # None /\ object[object[i].layer].locked
<1>1. object[i] \in Objects
  BY DEF TypeOK
<1>2. layerLocked \in BOOLEAN
  OBVIOUS
<1>3. /\ object[i].kind \in Kinds /\ object[i].container \in Ids \cup {Spread, None}
      /\ object[i].locked \in BOOLEAN
  BY <1>1, ObjectType
<1>4. Real(i) = [virtual |-> FALSE, id |-> i, kind |-> object[i].kind,
                 container |-> object[i].container, locked |-> object[i].locked,
                 layerLocked |-> layerLocked]
  BY DEF Real
<1> HIDE DEF layerLocked
<1> QED
  BY <1>2, <1>3, <1>4 DEF Plans

LEMMA ForeseeType ==
  ASSUME TypeOK, NEW t \in AllTargets, Foreseen(t)
  PROVE  Foresee(t) \in Plans
<1>1. CASE t.by = "alias"
  <2>1. planned[t.ref] \in Plans
    BY <1>1 DEF Foreseen, TypeOK
  <2>2. Real(planned[t.ref].id) \in Plans
    BY <2>1, PlanTypes, RealType
  <2> QED
    BY <1>1, <2>1, <2>2 DEF Foresee
<1>2. CASE t.by # "alias"
  <2>1. t.id \in Ids
    BY <1>2, TargetFields, ConstantFacts
  <2> QED
    BY <1>2, <2>1, RealType DEF Foresee
<1> QED
  BY <1>1, <1>2

LEMMA LayerLockedType ==
  ASSUME TypeOK, NEW t \in AllTargets \cup {None}, LayerValid(t)
  PROVE  LayerLocked(t) \in BOOLEAN
<1>1. t # None => Foresee(t).locked \in BOOLEAN
  <2> SUFFICES ASSUME t # None
               PROVE  Foresee(t).locked \in BOOLEAN
    OBVIOUS
  <2>1. t \in AllTargets /\ Foreseen(t)
    BY DEF LayerValid, TargetValid
  <2> QED
    BY <2>1, ForeseeType, PlanTypes
<1> QED
  BY <1>1 DEF LayerLocked

LEMMA ProducedType ==
  ASSUME BatchInv, phase = "preparing", NEW op \in Operations, OperationValid(op),
         NEW k \in 1 .. MaxOperations
  PROVE  Produced(op, k) \in Plans
<1>1. TypeOK /\ Layer \in Ids /\ k \in Ids /\ named \in Ids \cup {None}
  BY ConstantFacts DEF BatchInv, TypeOK
<1>2. \A kind \in Kinds : Virtual(k, kind) \in Plans
  BY <1>1 DEF Virtual, Plans
<1>3. CASE op.type = "ensure_layer"
  <2> DEFINE l == NamedLayer(op)
             locked == \/ op.locked = "lock"
                       \/ op.locked = "keep" /\ l # None /\ object[l].locked
  <2>1. locked \in BOOLEAN
    OBVIOUS
  <2>2. Produced(op, k) = [Virtual(k, "layer") EXCEPT !.locked = locked]
    BY <1>3 DEF Produced
  <2> HIDE DEF locked
  <2> QED
    BY <1>1, <2>1, <2>2 DEF Virtual, Plans, Kinds
<1>4. CASE op.type \in {"define_resource", "create_page"}
  BY <1>2, <1>4 DEF Produced, Kinds
<1>5. CASE op.type = "create_item"
  <2> DEFINE container == IF Foresee(op.page).virtual THEN None ELSE Spread
             locked == LayerLocked(op.layer)
  <2>1. locked \in BOOLEAN
    BY <1>1, <1>5, OperationFields, LayerLockedType DEF OperationValid, AllTargets
  <2>2. Produced(op, k) = [Virtual(k, "item") EXCEPT !.container = container,
                                                     !.layerLocked = locked]
    BY <1>5 DEF Produced
  <2>3. container \in {Spread, None}
    OBVIOUS
  <2> HIDE DEF container, locked
  <2> QED
    BY <1>1, <2>1, <2>2, <2>3 DEF Virtual, Plans, Kinds
<1>6. CASE op.type \in {"edit_item", "move_item_to_layer"}
  <2>1. op.target \in AllTargets /\ Foreseen(op.target)
    BY <1>6, OperationFields DEF OperationValid, TargetValid, AllTargets
  <2> QED
    BY <1>1, <1>6, <2>1, ForeseeType DEF Produced
<1>7. CASE op.type = "group_items"
  <2> DEFINE container == Foresee(op.first).container
             locked == LayerLocked(op.layer)
  <2>1. locked \in BOOLEAN
    BY <1>1, <1>7, OperationFields, LayerLockedType DEF OperationValid, AllTargets
  <2>2. op.first \in AllTargets /\ Foreseen(op.first)
    BY <1>7, OperationFields DEF OperationValid, TargetValid, AllTargets
  <2>3. container \in Ids \cup {Spread, None}
    BY <1>1, <2>2, ForeseeType, PlanTypes
  <2>4. Produced(op, k) = [Virtual(k, "group") EXCEPT !.container = container,
                                                      !.layerLocked = locked]
    BY <1>7 DEF Produced
  <2> HIDE DEF container, locked
  <2> QED
    BY <1>1, <2>1, <2>3, <2>4 DEF Virtual, Plans, Kinds
<1> QED
  BY <1>3, <1>4, <1>5, <1>6, <1>7, OperationFields

\* A target that is valid was there at first, or was named by one of the
\* operations before.
LEMMA ValidIsKnown ==
  ASSUME BatchInv, phase = "preparing", NEW t \in AllTargets,
         NEW kinds, "absent" \notin kinds, TargetValid(t, kinds)
  PROVE  IF t.by = "alias"
         THEN /\ t.ref \in DOMAIN planned
              /\ Foresee(t).kind = planned[t.ref].kind /\ planned[t.ref].kind \in kinds
              /\ Foresee(t).id = planned[t.ref].id
              /\ ~Foresee(t).virtual =>
                   Foresee(t).id \in Items /\ Foresee(t).kind = seen[Foresee(t).id].kind
              /\ \E i \in 1 .. Len(plan) : plan[i].ref = t.ref
         ELSE /\ Foresee(t).kind = seen[t.id].kind /\ seen[t.id].kind \in kinds
              /\ Foresee(t).id = t.id /\ ~Foresee(t).virtual
<1>1. PlanSound /\ ObjectsSound
  BY DEF BatchInv, DocumentSound
<1>2. \A i \in Existing : object[i].kind \in kinds => object[i].kind = seen[i].kind
  BY <1>1 DEF ObjectsSound
<1>3. \A i : Real(i).kind = object[i].kind /\ Real(i).id = i /\ ~Real(i).virtual
  BY DEF Real
<1>4. CASE t.by = "alias"
  <2> DEFINE p == planned[t.ref]
  <2>1. t.ref \in DOMAIN planned /\ RealKnown(t.ref)
    BY <1>1, <1>4 DEF TargetValid, Foreseen, PlanSound
  <2>2. \E i \in 1 .. Len(plan) : plan[i].ref = t.ref
    BY <1>1, <2>1 DEF PlanSound, NamesUpTo
  <2>3. CASE p.virtual
    <3>1. Foresee(t) = p
      BY <1>4, <2>3 DEF Foresee
    <3> QED
      BY <1>4, <2>1, <2>2, <2>3, <3>1 DEF TargetValid
  <2>4. CASE ~p.virtual
    <3>1. Foresee(t) = Real(p.id)
      BY <1>4, <2>4 DEF Foresee
    <3>2. p.id \in Items /\ p.kind = seen[p.id].kind
      BY <2>1, <2>4 DEF RealKnown
    <3>3. object[p.id].kind \in kinds
      BY <1>3, <3>1 DEF TargetValid
    <3>4. object[p.id].kind = seen[p.id].kind
      BY <1>2, <3>2, <3>3, ConstantFacts
    <3> QED
      BY <1>3, <1>4, <2>1, <2>2, <3>1, <3>2, <3>3, <3>4
  <2> QED
    BY <2>3, <2>4
<1>5. CASE t.by # "alias"
  <2>1. Foresee(t) = Real(t.id) /\ t.id \in Existing
    BY <1>5, TargetFields DEF Foresee
  <2>2. object[t.id].kind \in kinds
    BY <1>3, <2>1 DEF TargetValid
  <2> QED
    BY <1>2, <1>3, <1>5, <2>1, <2>2
<1> QED
  BY <1>4, <1>5

\* What the validation of an operation learns of its result.
LEMMA ProducedKnown ==
  ASSUME BatchInv, phase = "preparing", NEW op \in Operations, OperationValid(op), NEW k
  PROVE  LET p == Produced(op, k)
         IN /\ op.type = "ensure_layer" => p.kind = "layer"
            /\ op.type = "define_resource" => p.kind = "resource" /\ p.id = k
            /\ op.type = "create_page" => p.kind = "page" /\ p.id = k
            /\ op.type = "create_item" => p.kind = "item" /\ p.id = k
            /\ op.type = "group_items" => p.kind = "group" /\ p.id = k
            /\ op.type \in {"edit_item", "move_item_to_layer"} =>
                 IF op.target.by = "alias"
                 THEN p.kind = planned[op.target.ref].kind /\ p.id = planned[op.target.ref].id
                 ELSE p.kind = seen[op.target.id].kind /\ p.id = op.target.id
            /\ ~p.virtual => p.id \in Items /\ p.kind = seen[p.id].kind
<1>1. CASE op.type \in {"ensure_layer", "define_resource", "create_page", "create_item", "group_items"}
  <2>1. LET p == Produced(op, k)
        IN /\ op.type = "ensure_layer" => p.kind = "layer"
           /\ op.type = "define_resource" => p.kind = "resource" /\ p.id = k
           /\ op.type = "create_page" => p.kind = "page" /\ p.id = k
           /\ op.type = "create_item" => p.kind = "item" /\ p.id = k
           /\ op.type = "group_items" => p.kind = "group" /\ p.id = k
           /\ p.virtual
    BY <1>1 DEF Produced, Virtual
  <2> QED
    BY <1>1, <2>1
<1>2. CASE op.type \in {"edit_item", "move_item_to_layer"}
  <2>1. op.target \in Targets /\ op.target \in AllTargets /\ TargetValid(op.target, PageItemKinds)
    BY <1>2, OperationFields DEF OperationValid, AllTargets
  <2>2. Produced(op, k) = Foresee(op.target)
    BY <1>2 DEF Produced
  <2>3. op.target.by # "alias" => op.target.id \in Items
    BY <2>1, TargetFields
  <2>4. "absent" \notin PageItemKinds
    BY DEF PageItemKinds
  <2>5. CASE op.target.by = "alias"
    BY <1>2, <2>1, <2>2, <2>4, <2>5, ValidIsKnown
  <2>6. CASE op.target.by # "alias"
    BY <1>2, <2>1, <2>2, <2>3, <2>4, <2>6, ValidIsKnown
  <2> QED
    BY <2>5, <2>6
<1> QED
  BY <1>1, <1>2, OperationFields

LEMMA PlanGrows ==
  ASSUME BatchInv, phase = "preparing", NEW op \in Operations,
         OperationValid(op), AliasFree(op), seen' = seen,
         plan' = Append(plan, op),
         planned' = Bind(planned, op.ref, Produced(op, Len(plan) + 1))
  PROVE  PlanSound'
<1>0. PICK n \in Nat : n = Len(plan)
  BY DEF BatchInv, TypeOK
<1>1. PlanSound /\ plan \in Seq(Operations) /\ n \in Nat /\ n = Len(plan)
  BY <1>0 DEF BatchInv, TypeOK
<1>2. Len(plan') = n + 1 /\ plan'[n + 1] = op /\ \A j \in 1 .. n : plan'[j] = plan[j]
  BY <1>1
<1>3. /\ DOMAIN planned' = DOMAIN planned \cup ({op.ref} \ {None})
      /\ op.ref # None => planned'[op.ref] = Produced(op, n + 1)
      /\ \A a \in DOMAIN planned : a # op.ref \/ op.ref = None => planned'[a] = planned[a]
  <2> DEFINE x == Produced(op, n + 1)
  <2>1. planned' = Bind(planned, op.ref, x)
    BY <1>1
  <2> HIDE DEF x
  <2>2. /\ DOMAIN Bind(planned, op.ref, x) = DOMAIN planned \cup ({op.ref} \ {None})
        /\ op.ref # None => Bind(planned, op.ref, x)[op.ref] = x
        /\ \A a \in DOMAIN planned : a # op.ref \/ op.ref = None
              => Bind(planned, op.ref, x)[a] = planned[a]
    BY DEF Bind
  <2> QED
    BY <2>1, <2>2 DEF x
<1>4. \A a \in DOMAIN planned : planned'[a] = planned[a]
  BY <1>3 DEF AliasFree
<1>5. DOMAIN planned' = NamesUpTo(Len(plan))'
  <2>1. {plan'[j].ref : j \in 1 .. n + 1} = {plan[j].ref : j \in 1 .. n} \cup {op.ref}
    <3>1. \A j \in 1 .. n + 1 : j \in 1 .. n \/ j = n + 1
      BY <1>1
    <3>2. \A j \in 1 .. n : j \in 1 .. n + 1
      BY <1>1
    <3>3. n + 1 \in 1 .. n + 1
      BY <1>1
    <3> QED
      BY <1>2, <3>1, <3>2, <3>3
  <2>2. DOMAIN planned = {plan[j].ref : j \in 1 .. n} \ {None}
    BY <1>1 DEF PlanSound, NamesUpTo
  <2> QED
    BY <1>2, <1>3, <2>1, <2>2 DEF NamesUpTo
<1>6. ASSUME NEW j \in 1 .. n
      PROVE  TargetsKnown(j)' /\ (plan'[j].ref # None => ResultKnown(j)')
  <2>1. TargetsKnown(j) /\ (plan[j].ref # None => ResultKnown(j)) /\ plan'[j] = plan[j]
    BY <1>1, <1>2, <1>6 DEF PlanSound
  <2>2. ASSUME NEW t, NEW kinds, KnownAs(t, j, kinds)
        PROVE  KnownAs(t, j, kinds)'
    <3>1. CASE t.by = "alias"
      <4>1. \A i \in 1 .. j - 1 : i \in 1 .. n
        BY <1>1
      <4> QED
        BY <1>2, <1>3, <1>4, <2>2, <3>1, <4>1 DEF KnownAs
    <3>2. CASE t.by # "alias"
      BY <2>2, <3>2 DEF KnownAs
    <3> QED
      BY <3>1, <3>2
  <2>3. TargetsKnown(j)'
    BY <2>1, <2>2 DEF TargetsKnown
  <2>4. ASSUME plan[j].ref # None
        PROVE  ResultKnown(j)'
    <3>1. plan[j].ref \in DOMAIN planned
      BY <1>1, <1>6, <2>4 DEF PlanSound, NamesUpTo
    <3>2. planned'[plan[j].ref] = planned[plan[j].ref]
      BY <1>4, <3>1
    <3>3. plan[j].type \in {"edit_item", "move_item_to_layer"} /\ plan[j].target.by = "alias"
            => planned'[plan[j].target.ref] = planned[plan[j].target.ref]
      BY <1>4, <2>1 DEF TargetsKnown, KnownAs
    <3>4. ResultKnown(j)
      BY <2>1, <2>4
    <3> QED
      BY <2>1, <3>2, <3>3, <3>4 DEF ResultKnown
  <2> QED
    BY <2>1, <2>3, <2>4
<1>7. TargetsKnown(n + 1)'
  <2>1. ASSUME NEW t \in AllTargets, NEW kinds, "absent" \notin kinds, TargetValid(t, kinds)
        PROVE  KnownAs(t, n + 1, kinds)'
    <3>1. CASE t.by = "alias"
      <4>1. /\ t.ref \in DOMAIN planned /\ planned[t.ref].kind \in kinds
            /\ \E i \in 1 .. n : plan[i].ref = t.ref
        BY <1>1, <2>1, <3>1, ValidIsKnown
      <4>2. 1 .. (n + 1) - 1 = 1 .. n
        BY <1>1
      <4> QED
        BY <1>2, <1>3, <1>4, <3>1, <4>1, <4>2 DEF KnownAs
    <3>2. CASE t.by # "alias"
      <4>1. seen[t.id].kind \in kinds
        BY <2>1, <3>2, ValidIsKnown
      <4> QED
        BY <3>2, <4>1 DEF KnownAs
    <3> QED
      BY <3>1, <3>2
  <2>2. /\ op.type \in {"edit_item", "move_item_to_layer"} =>
             op.target \in AllTargets /\ TargetValid(op.target, PageItemKinds)
        /\ op.type = "move_item_to_layer" =>
             op.layer \in AllTargets /\ TargetValid(op.layer, {"layer"})
        /\ op.type = "create_item" => op.page \in AllTargets /\ TargetValid(op.page, {"page"})
        /\ op.type = "create_item" /\ op.layer # None =>
             op.layer \in AllTargets /\ TargetValid(op.layer, {"layer"})
        /\ op.type = "create_page" /\ op.after # None =>
             op.after \in AllTargets /\ TargetValid(op.after, {"page"})
    BY OperationFields, NoneIsNoTarget DEF OperationValid, LayerValid, AllTargets
  <2>3. "absent" \notin PageItemKinds /\ "absent" \notin {"layer"} /\ "absent" \notin {"page"}
    BY DEF PageItemKinds
  <2> QED
    BY <1>2, <2>1, <2>2, <2>3 DEF TargetsKnown
<1>8. ASSUME op.ref # None
      PROVE  ResultKnown(n + 1)' /\ RealKnown(op.ref)'
  <2>1. planned'[op.ref] = Produced(op, n + 1)
    BY <1>3, <1>8
  <2>2. op.type \in {"edit_item", "move_item_to_layer"} /\ op.target.by = "alias"
          => planned'[op.target.ref] = planned[op.target.ref]
    <3> SUFFICES ASSUME op.type \in {"edit_item", "move_item_to_layer"}, op.target.by = "alias"
                 PROVE  planned'[op.target.ref] = planned[op.target.ref]
      OBVIOUS
    <3>1. TargetValid(op.target, PageItemKinds)
      BY DEF OperationValid
    <3> QED
      BY <1>4, <3>1 DEF TargetValid, Foreseen
  <2>3. ResultKnown(n + 1)'
    BY <1>2, <2>1, <2>2, ProducedKnown DEF ResultKnown
  <2>4. RealKnown(op.ref)'
    BY <2>1, ProducedKnown DEF RealKnown
  <2> QED
    BY <2>3, <2>4
<1>9. \A j \in 1 .. n + 1 : j \in 1 .. n \/ j = n + 1
  BY <1>1
<1>10. \A x \in DOMAIN planned' : RealKnown(x)'
  <2> SUFFICES ASSUME NEW x \in DOMAIN planned'
               PROVE  RealKnown(x)'
    OBVIOUS
  <2>1. x \in DOMAIN planned \/ (op.ref # None /\ x = op.ref)
    BY <1>3
  <2>2. x \in DOMAIN planned => RealKnown(x) /\ planned'[x] = planned[x]
    BY <1>1, <1>4 DEF PlanSound
  <2> QED
    BY <1>8, <2>1, <2>2 DEF RealKnown
<1> QED
  BY <1>2, <1>5, <1>6, <1>7, <1>8, <1>9, <1>10 DEF PlanSound

LEMMA SamePlan ==
  ASSUME PlanSound, UNCHANGED <<plan, planned, seen>>
  PROVE  PlanSound'
<1>1. ASSUME NEW t, NEW j, NEW kinds
      PROVE  KnownAs(t, j, kinds)' <=> KnownAs(t, j, kinds)
  BY DEF KnownAs
<1>2. ASSUME NEW j
      PROVE  /\ TargetsKnown(j)' <=> TargetsKnown(j)
             /\ ResultKnown(j)' <=> ResultKnown(j)
             /\ RealKnown(j)' <=> RealKnown(j)
  BY <1>1 DEF TargetsKnown, ResultKnown, RealKnown
<1> QED
  BY <1>2 DEF PlanSound, NamesUpTo

\* Before anything is executed the document is as the caller saw it, except
\* for what a person has changed.
LEMMA CalmAtFirst ==
  ASSUME BatchInv, phase = "preparing", edited = NoEdit
  PROVE  /\ Held(object) = Held(seen)
         /\ \A i \in Existing : object[i].kind = seen[i].kind /\ AsSeen(i)
<1>1. Calm /\ progress.completed = 0
  BY DEF BatchInv, DocumentSound, Untouched
<1>2. NoGroupUpTo(0) /\ 1 .. 0 = {}
  BY DEF NoGroupUpTo
<1> QED
  BY <1>1, <1>2 DEF Calm

LEMMA SameDocument ==
  ASSUME BatchInv, phase = "preparing", UNCHANGED <<docVars, progress>>
  PROVE  DocumentSound'
<1>1. ObjectsSound /\ EditShows /\ progress.completed = 0
  BY DEF BatchInv, DocumentSound, Untouched
<1>2. ObjectsSound'
  BY <1>1 DEF ObjectsSound, Current, docVars
<1>3. \A i : AsSeen(i)' <=> AsSeen(i)
  BY DEF AsSeen, docVars
<1>4. EditShows'
  BY <1>1, <1>3 DEF EditShows, docVars
<1>5. Calm'
  <2>1. edited' = edited /\ Held(object)' = Held(object) /\ Held(seen)' = Held(seen)
        /\ object' = object /\ seen' = seen
    BY DEF docVars, Held
  <2> QED
    BY <1>3, <2>1, CalmAtFirst DEF Calm
<1> QED
  BY <1>2, <1>4, <1>5 DEF DocumentSound

LEMMA ValidateStep ==
  ASSUME BatchInv, NEW op \in Operations, Validate(op)
  PROVE  BatchInv'
<1>1. /\ phase = "preparing" /\ Untouched /\ TypeOK /\ PlanSound
      /\ report.status = "none"
      /\ plan \in Seq(Operations) /\ Len(plan) < MaxOperations /\ Len(plan) \in Nat
      /\ UNCHANGED <<docVars, aliases, progress>>
  BY DEF Validate, BatchInv, TypeOK
<1>2. CASE AliasFree(op) /\ OperationValid(op)
  <2>1. /\ plan' = Append(plan, op)
        /\ planned' = Bind(planned, op.ref, Produced(op, Len(plan) + 1))
        /\ UNCHANGED <<phase, report>>
    BY <1>2 DEF Validate
  <2>2. PlanSound'
    BY <1>1, <1>2, <2>1, PlanGrows DEF docVars
  <2>3. Produced(op, Len(plan) + 1) \in Plans
    <3>1. Len(plan) + 1 \in 1 .. MaxOperations
      BY <1>1, ConstantFacts
    <3> QED
      BY <1>1, <1>2, <3>1, ProducedType
  <2>4. /\ DOMAIN planned' \subseteq Aliases
        /\ \A x \in DOMAIN planned' : planned'[x] \in Plans
    <3>1. DOMAIN planned \subseteq Aliases /\ \A x \in DOMAIN planned : planned[x] \in Plans
      BY <1>1 DEF TypeOK
    <3>2. op.ref \in Aliases \cup {None}
      BY OperationFields
    <3> HIDE DEF Produced
    <3> QED
      BY <2>1, <2>3, <3>1, <3>2 DEF Bind
  <2>5. plan' \in Seq(Operations) /\ Len(plan') = Len(plan) + 1
    BY <1>1, <2>1
  <2>6. TypeOK'
    BY <1>1, <2>1, <2>4, <2>5, ConstantFacts DEF TypeOK, docVars
  <2>7. DocumentSound'
    BY <1>1, SameDocument
  <2>8. Untouched'
    BY <1>1 DEF Untouched, docVars
  <2>9. progress'.completed <= Len(plan')
    BY <1>1, <2>5 DEF Untouched
  <2> QED
    BY <1>1, <2>1, <2>2, <2>6, <2>7, <2>8, <2>9
    DEF BatchInv, UnchangedAsReported, ReportedReferencesHold
<1>3. CASE ~(AliasFree(op) /\ OperationValid(op))
  <2>1. /\ phase' = "done" /\ UNCHANGED <<plan, planned>>
        /\ report' = [report EXCEPT !.status = "refused"]
    BY <1>3 DEF Validate
  <2>2. report \in Reports
    BY <1>1 DEF TypeOK
  <2>3. report'.status = "refused" /\ report' \in Reports
    BY <2>1, <2>2 DEF Reports
  <2>4. TypeOK'
    BY <1>1, <2>1, <2>3 DEF TypeOK, docVars
  <2>5. ~changed'
    BY <1>1 DEF Untouched, docVars
  <2> QED
    BY <2>1, <2>3, <2>4, <2>5 DEF BatchInv, UnchangedAsReported, ReportedReferencesHold
<1> QED
  BY <1>2, <1>3

\* A person changes objects that the caller saw, or deletes items; what shows
\* in the fingerprint makes the object another than the caller saw.
EditOf(i) ==
  /\ i \in Existing /\ edited'.id = i
  /\ edited' \in [id : Existing \cup {None}, noticed : BOOLEAN]
  /\ object' \in [Ids -> Objects]
  /\ \A j \in Ids : \/ j \in Items /\ object'[j] = NoObject
                    \/ object'[j].kind = object[j].kind /\ object'[j].container = object[j].container
  /\ \A j \in Ids \ Existing : object'[j] = object[j]
  /\ altered' \subseteq Ids /\ DOMAIN order' = DOMAIN order
  /\ edited'.noticed => ~AsSeen(i)'

LEMMA EditKinds ==
  ASSUME BatchInv, UserEdit
  PROVE  \E i \in Existing : EditOf(i)
<1>1. /\ TypeOK /\ seen' = seen /\ altered \subseteq Ids
      /\ object \in [Ids -> Objects] /\ Existing \subseteq Ids /\ Items \subseteq Existing
      /\ PageIds \subseteq Existing /\ Layer \in Existing /\ Lockable \subseteq Existing
      /\ Editable \subseteq Existing
  BY ConstantFacts, ConstantsAssumption DEF ConstantsAssumption, UserEdit, BatchInv, TypeOK
<1>2. \A i \in Existing : AsSeen(i)
  BY CalmAtFirst DEF UserEdit
<1>3. ASSUME NEW i \in Lockable \cap Editable, object' = [object EXCEPT ![i].locked = ~@],
             edited' = [id |-> i, noticed |-> TRUE], UNCHANGED <<altered, order>>
      PROVE  EditOf(i)
  <2> DEFINE o == [object[i] EXCEPT !.locked = ~@]
  <2>1. /\ o \in Objects /\ o.kind = object[i].kind /\ o.container = object[i].container
        /\ o.locked # object[i].locked
    BY <1>1 DEF Objects
  <2>2. object' = [object EXCEPT ![i] = o]
    BY <1>3
  <2> HIDE DEF o
  <2>3. \A j \in Ids : object'[j] = IF j = i THEN o ELSE object[j]
    BY <1>1, <2>2
  <2>4. object' \in [Ids -> Objects]
    BY <1>1, <2>1, <2>2
  <2>5. object'[i].locked # seen'[i].locked
    BY <1>1, <1>2, <2>1, <2>3 DEF AsSeen
  <2>6. ~AsSeen(i)'
    BY <2>5 DEF AsSeen
  <2> QED
    BY <1>1, <1>3, <2>1, <2>3, <2>4, <2>6 DEF EditOf
<1>4. ASSUME NEW i \in Editable, object' = [object EXCEPT ![i].writer = "person"],
             NEW b \in BOOLEAN, edited' = [id |-> i, noticed |-> b],
             NEW more \in SUBSET Ids, altered' = altered \cup more, b => i \in more,
             order' = order
      PROVE  EditOf(i)
  <2> DEFINE o == [object[i] EXCEPT !.writer = "person"]
  <2>1. /\ o \in Objects /\ o.kind = object[i].kind /\ o.container = object[i].container
    BY <1>1 DEF Objects
  <2>2. object' = [object EXCEPT ![i] = o]
    BY <1>4
  <2> HIDE DEF o
  <2>3. \A j \in Ids : object'[j] = IF j = i THEN o ELSE object[j]
    BY <1>1, <2>2
  <2>4. object' \in [Ids -> Objects]
    BY <1>1, <2>1, <2>2
  <2>5. b => ~AsSeen(i)'
    BY <1>4 DEF AsSeen
  <2> QED
    BY <1>1, <1>4, <2>1, <2>3, <2>4, <2>5 DEF EditOf
<1>5. ASSUME NEW i \in Items \cap Editable, NEW gone \in SUBSET Items, i \in gone,
             object' = [j \in Ids |-> IF j \in gone THEN NoObject ELSE object[j]],
             edited' = [id |-> i, noticed |-> TRUE], altered' = altered,
             DOMAIN order' = DOMAIN order
      PROVE  EditOf(i)
  <2>1. \A j \in Ids : object'[j] = IF j \in gone THEN NoObject ELSE object[j]
    BY <1>5
  <2>2. object' \in [Ids -> Objects]
    <3>1. \A j \in Ids : object'[j] \in Objects
      BY <1>1, <2>1, NoObjectType
    <3> QED
      BY <1>5, <3>1
  <2>3. object'[i].kind = "absent"
    BY <1>1, <1>5, <2>1, NoObjectType
  <2>4. seen[i].kind # "absent"
    BY <1>1, KindFacts DEF BatchInv, DocumentSound, ObjectsSound, UserEdit
  <2>5. ~AsSeen(i)'
    BY <1>1, <2>3, <2>4 DEF AsSeen
  <2> QED
    BY <1>1, <1>5, <2>1, <2>2, <2>5 DEF EditOf
<1>6. CASE \E i \in Lockable \cap Editable :
             /\ object' = [object EXCEPT ![i].locked = ~@]
             /\ edited' = [id |-> i, noticed |-> TRUE]
             /\ UNCHANGED <<altered, order>>
  BY <1>1, <1>3, <1>6
<1>7. CASE \E i \in Editable :
             LET others == IF i \in PageIds THEN PageIds \ {i} ELSE Kin(Held(object), i)
             IN /\ object' = [object EXCEPT ![i].writer = "person"]
                /\ \E along \in SUBSET others : altered' = altered \cup {i} \cup along
                /\ edited' = [id |-> i, noticed |-> TRUE]
                /\ UNCHANGED order
  <2> PICK i \in Editable :
             LET others == IF i \in PageIds THEN PageIds \ {i} ELSE Kin(Held(object), i)
             IN /\ object' = [object EXCEPT ![i].writer = "person"]
                /\ \E along \in SUBSET others : altered' = altered \cup {i} \cup along
                /\ edited' = [id |-> i, noticed |-> TRUE]
                /\ UNCHANGED order
    BY <1>7
  <2> DEFINE others == IF i \in PageIds THEN PageIds \ {i} ELSE Kin(Held(object), i)
  <2>1. others \subseteq Ids
    BY <1>1 DEF Kin
  <2>2. PICK along \in SUBSET others : altered' = altered \cup {i} \cup along
    OBVIOUS
  <2>3. {i} \cup along \in SUBSET Ids
    BY <1>1, <2>1, <2>2
  <2>4. altered' = altered \cup ({i} \cup along) /\ i \in {i} \cup along
    BY <2>2
  <2> HIDE DEF others
  <2>5. EditOf(i)
    BY <1>4, <2>3, <2>4
  <2> QED
    BY <1>1, <2>5
<1>8. CASE \E i \in Items \cap Editable :
             /\ object' = [object EXCEPT ![i].writer = "person"]
             /\ edited' = [id |-> i, noticed |-> FALSE]
             /\ UNCHANGED <<altered, order>>
  <2> PICK i \in Items \cap Editable :
             /\ object' = [object EXCEPT ![i].writer = "person"]
             /\ edited' = [id |-> i, noticed |-> FALSE]
             /\ UNCHANGED <<altered, order>>
    BY <1>8
  <2>1. {} \in SUBSET Ids /\ altered' = altered \cup {} /\ order' = order
    OBVIOUS
  <2>2. EditOf(i)
    BY <1>4, <2>1
  <2> QED
    BY <1>1, <2>2
<1>9. CASE \E i \in {j \in Items \cap Editable : object[j].container = Spread} :
             LET gone == {j \in Items : j = i \/ i \in Around(Held(object), j)}
             IN /\ object' = [j \in Ids |-> IF j \in gone THEN NoObject ELSE object[j]]
                /\ order' = [order EXCEPT ![Spread] = SelectSeq(@, LAMBDA x : x # i)]
                /\ edited' = [id |-> i, noticed |-> TRUE]
                /\ UNCHANGED altered
  <2> PICK i \in {j \in Items \cap Editable : object[j].container = Spread} :
             LET gone == {j \in Items : j = i \/ i \in Around(Held(object), j)}
             IN /\ object' = [j \in Ids |-> IF j \in gone THEN NoObject ELSE object[j]]
                /\ order' = [order EXCEPT ![Spread] = SelectSeq(@, LAMBDA x : x # i)]
                /\ edited' = [id |-> i, noticed |-> TRUE]
                /\ UNCHANGED altered
    BY <1>9
  <2> DEFINE gone == {j \in Items : j = i \/ i \in Around(Held(object), j)}
  <2>1. gone \in SUBSET Items /\ i \in gone /\ DOMAIN order' = DOMAIN order
        /\ object' = [j \in Ids |-> IF j \in gone THEN NoObject ELSE object[j]]
    OBVIOUS
  <2> HIDE DEF gone
  <2>2. EditOf(i)
    BY <1>5, <2>1
  <2> QED
    BY <1>1, <2>2
<1> QED
  BY <1>6, <1>7, <1>8, <1>9 DEF UserEdit

LEMMA UserEditStep ==
  ASSUME BatchInv, UserEdit
  PROVE  BatchInv'
<1>1. /\ phase = "preparing"
      /\ Untouched /\ TypeOK /\ ObjectsSound /\ PlanSound
      /\ progress.completed <= Len(plan) /\ report.status = "none"
      /\ UNCHANGED <<phase, plan, planned, seen, pages, named, aliases, progress, report, changed>>
  BY DEF UserEdit, BatchInv, DocumentSound
<1>2. PICK i \in Existing : EditOf(i)
  BY EditKinds
<1>3. TypeOK'
  BY <1>1, <1>2 DEF TypeOK, EditOf
<1>4. PlanSound'
  BY <1>1, SamePlan
<1>5. ObjectsSound'
  <2>1. \A k \in Current .. MaxOperations : k \in Ids \ Existing /\ k # None
    BY <1>1, ConstantFacts DEF Current, Untouched
  <2>2. \A k \in Current .. MaxOperations :
          object'[k] = NoObject /\ \A j \in Ids : object'[j].container # k
    <3>1. \A k \in Current .. MaxOperations :
            object[k] = NoObject /\ \A j \in Ids : object[j].container # k
      BY <1>1 DEF ObjectsSound
    <3> QED
      BY <1>2, <2>1, <3>1, NoObjectType DEF EditOf
  <2>3. \A j \in Existing : j \in Ids /\ object'[j].kind \in {object[j].kind, "absent"}
    BY <1>2, ConstantFacts, NoObjectType DEF EditOf
  <2>4. object'[Layer].kind = "layer"
    BY <1>1, <1>2, ConstantFacts DEF EditOf, ObjectsSound
  <2>5. \A j \in Ids : object'[j].kind = "page" => object[j].kind = "page"
    BY <1>2, NoObjectType DEF EditOf
  <2>6. Current' = Current /\ named = None
    BY <1>1 DEF Current, Untouched
  <2>7. \A j \in Existing : /\ seen'[j].kind = KindAtFirst(j)
                            /\ object'[j].kind \in {seen'[j].kind, "absent"}
    BY <1>1, <2>3 DEF ObjectsSound
  <2>8. \A j \in Ids : object'[j].kind = "page" => \E m \in 1 .. Len(pages') : pages'[m] = j
    BY <1>1, <2>5 DEF ObjectsSound
  <2>9. named' = None
    BY <1>1, <2>6
  <2> QED
    BY <2>2, <2>4, <2>6, <2>7, <2>8, <2>9 DEF ObjectsSound
<1>6. EditShows'
  BY <1>2 DEF EditShows, EditOf
<1>7. Calm'
  <2>1. edited' # NoEdit
    BY <1>2, ConstantFacts DEF EditOf, NoEdit
  <2> QED
    BY <2>1 DEF Calm, NoEdit
<1> QED
  BY <1>1, <1>3, <1>4, <1>5, <1>6, <1>7
  DEF BatchInv, DocumentSound, Untouched, UnchangedAsReported, ReportedReferencesHold

LEMMA EndDryRunStep ==
  ASSUME BatchInv, EndDryRun
  PROVE  BatchInv'
<1>1. /\ TypeOK /\ Untouched /\ phase' = "done"
      /\ report' = [report EXCEPT !.status = "dryRun"]
      /\ UNCHANGED <<plan, planned, docVars, aliases, progress>>
  BY DEF EndDryRun, BatchInv
<1>2. report' \in Reports /\ report'.status = "dryRun"
  BY <1>1 DEF TypeOK, Reports
<1>3. TypeOK'
  BY <1>1, <1>2 DEF TypeOK, docVars
<1> QED
  BY <1>1, <1>2, <1>3
  DEF BatchInv, Untouched, UnchangedAsReported, ReportedReferencesHold, docVars

LEMMA StartExecutionStep ==
  ASSUME BatchInv, StartExecution
  PROVE  BatchInv'
<1>1. /\ TypeOK /\ Untouched /\ PlanSound /\ phase = "preparing" /\ phase' = "executing"
      /\ progress.completed <= Len(plan) /\ report.status = "none"
      /\ UNCHANGED <<plan, planned, docVars, aliases, progress, report>>
  BY DEF StartExecution, BatchInv
<1>2. TypeOK'
  BY <1>1 DEF TypeOK, docVars
<1>3. PlanSound'
  BY <1>1, SamePlan DEF docVars
<1>4. DocumentSound'
  BY <1>1, SameDocument
<1>5. AliasesSound'
  <2>1. NamesUpTo(0)' = {}
    BY DEF NamesUpTo
  <2> QED
    BY <1>1, <2>1 DEF AliasesSound, Untouched
<1> QED
  BY <1>1, <1>2, <1>3, <1>4, <1>5
  DEF BatchInv, Untouched, UnchangedAsReported, ReportedReferencesHold, docVars

-----------------------------------------------------------------------------
(* Execution.                                                              *)

\* An operation leaves an alias the object that the plan means, and its label.
LEMMA AliasKept ==
  ASSUME BatchInv, phase = "executing", Current <= Len(plan),
         NEW objects, Follows(objects), NEW x \in DOMAIN aliases
  PROVE  LET i == aliases[x].id
         IN /\ objects[i].labelled
            /\ objects[i].kind = planned[x].kind
            /\ planned[x].kind # "layer" => i = planned[x].id
<1>1. AliasSound(x) /\ aliases[x].id \in Ids
  BY Running DEF AliasesSound, TypeOK
<1>2. aliases[x].id # Current
  BY <1>1, Running, ConstantFacts DEF AliasSound
<1> QED
  BY <1>1, <1>2 DEF AliasSound, Meant, Follows

\* The report of a batch that stops after an operation has changed objects.
LEMMA PartialHolds ==
  ASSUME BatchInv, phase = "executing", Current <= Len(plan),
         Follows(object') \/ object' = object,
         UNCHANGED planned, progress'.aliases = progress.aliases
  PROVE  \A a \in progress'.aliases : object'[a[2]].labelled /\ Meant(a[1], a[2])'
<1> SUFFICES ASSUME NEW x \in DOMAIN aliases
             PROVE  LET i == aliases[x].id
                    IN /\ object'[i].labelled
                       /\ object'[i].kind = planned[x].kind
                       /\ planned[x].kind # "layer" => i = planned[x].id
  BY Running DEF AliasesSound, Meant
<1>1. CASE Follows(object')
  BY <1>1, AliasKept
<1>2. CASE object' = object
  BY <1>2, Running DEF AliasesSound, AliasSound, Meant
<1> QED
  BY <1>1, <1>2

LEMMA FailureType ==
  ASSUME NEW started \in BOOLEAN, NEW completed \in 0 .. MaxOperations,
         NEW k \in 1 .. MaxOperations
  PROVE  /\ Failure(started, completed, k) \in Reports
         /\ Failure(started, completed, k).status = IF started THEN "partial" ELSE "error"
<1>1. k \in 0 .. MaxOperations
  BY ConstantFacts
<1> QED
  BY <1>1 DEF Failure, Reports

LEMMA RefuseStep ==
  ASSUME BatchInv, Refuse
  PROVE  BatchInv'
<1>1. /\ phase = "executing" /\ Current <= Len(plan) /\ phase' = "done"
      /\ report' = Failure(progress.mutationStarted, progress.completed, Current)
      /\ UNCHANGED <<plan, planned, docVars, aliases, progress>>
  BY DEF Refuse, Refused
<1>2. TypeOK /\ (changed => progress.mutationStarted) /\ Current \in 1 .. MaxOperations
  BY <1>1, Running DEF BatchInv
<1>3. progress.mutationStarted \in BOOLEAN /\ progress.completed \in 0 .. MaxOperations
  BY <1>2 DEF TypeOK
<1>4. /\ report' \in Reports
      /\ report'.status = IF progress.mutationStarted THEN "partial" ELSE "error"
  BY <1>1, <1>2, <1>3, FailureType
<1>5. TypeOK'
  BY <1>1, <1>2, <1>4 DEF TypeOK, docVars
<1>6. UnchangedAsReported'
  BY <1>1, <1>2, <1>4 DEF UnchangedAsReported, docVars
<1>7. ReportedReferencesHold'
  BY <1>1, PartialHolds DEF ReportedReferencesHold, docVars
<1> QED
  BY <1>1, <1>5, <1>6, <1>7 DEF BatchInv

LEMMA FinishStep ==
  ASSUME BatchInv, Finish
  PROVE  BatchInv'
<1>1. /\ phase = "executing" /\ phase' = "done"
      /\ report' = [report EXCEPT !.status = "success", !.completed = progress.completed]
      /\ UNCHANGED <<plan, planned, docVars, aliases, progress>>
  BY DEF Finish
<1>2. TypeOK /\ AliasesSound
  BY <1>1 DEF BatchInv
<1>3. report' \in Reports /\ report'.status = "success"
  BY <1>1, <1>2 DEF TypeOK, Reports
<1>4. TypeOK'
  BY <1>1, <1>2, <1>3 DEF TypeOK, docVars
<1>5. ReportedReferencesHold'
  BY <1>1, <1>2 DEF ReportedReferencesHold, AliasesSound, AliasSound, Meant, docVars
<1> QED
  BY <1>1, <1>3, <1>4, <1>5 DEF BatchInv, UnchangedAsReported

LEMMA HostFailsStep ==
  ASSUME BatchInv, HostFails
  PROVE  BatchInv'
<1>1. /\ phase = "executing" /\ Current <= Len(plan) /\ Executable(plan[Current])
      /\ phase' = "done" /\ UNCHANGED <<plan, planned, aliases>>
  BY DEF HostFails
<1>2. TypeOK /\ (changed => progress.mutationStarted) /\ Current \in 1 .. MaxOperations
  BY <1>1, Running DEF BatchInv
<1>3. /\ progress.mutationStarted \in BOOLEAN /\ progress.completed \in 0 .. MaxOperations
      /\ progress \in [mutationStarted : BOOLEAN, completed : 0 .. MaxOperations,
                       aliases : SUBSET (Aliases \X Ids)]
      /\ Current \in 0 .. MaxOperations
  BY <1>2, ConstantFacts DEF TypeOK
<1>4. CASE report' = Refused(Current) /\ UNCHANGED <<progress, docVars>>
  <2>1. /\ report' \in Reports
        /\ report'.status = IF progress.mutationStarted THEN "partial" ELSE "error"
    BY <1>2, <1>3, <1>4, FailureType DEF Refused
  <2>2. TypeOK'
    BY <1>1, <1>2, <1>4, <2>1 DEF TypeOK, docVars
  <2>3. UnchangedAsReported'
    BY <1>2, <1>4, <2>1 DEF UnchangedAsReported, docVars
  <2>4. ReportedReferencesHold'
    BY <1>1, <1>4, PartialHolds DEF ReportedReferencesHold, docVars
  <2> QED
    BY <1>1, <2>2, <2>3, <2>4 DEF BatchInv
<1>5. ASSUME NEW done \in {progress.completed, Current},
             progress' = [progress EXCEPT !.mutationStarted = Marked, !.completed = done],
             report' = Failure(progress'.mutationStarted, done, Current),
             \/ UNCHANGED docVars
             \/ \E objects : Follows(objects) /\ Changes(plan[Current], Current, objects)
      PROVE  BatchInv'
  <2>1. /\ progress'.mutationStarted = TRUE /\ progress'.aliases = progress.aliases
        /\ progress' \in [mutationStarted : BOOLEAN, completed : 0 .. MaxOperations,
                          aliases : SUBSET (Aliases \X Ids)]
    BY <1>3, <1>5 DEF Marked
  <2>2. report' \in Reports /\ report'.status = "partial"
    BY <1>2, <1>3, <1>5, <2>1, FailureType
  <2>3. /\ object' \in [Ids -> Objects] /\ seen' \in [Ids -> Objects] /\ altered' \subseteq Ids
        /\ pages' \in Seq(PageIds \cup 1 .. MaxOperations)
        /\ DOMAIN order' \subseteq Ids \cup {Spread}
        /\ named' \in Ids \cup {None} /\ changed' \in BOOLEAN /\ edited' = edited
        /\ Follows(object') \/ object' = object
    <3>1. CASE UNCHANGED docVars
      <4>1. UNCHANGED <<seen, object, altered, order, pages, named, changed, edited>>
        BY <3>1 DEF docVars
      <4>2. /\ object \in [Ids -> Objects] /\ seen \in [Ids -> Objects] /\ altered \subseteq Ids
            /\ pages \in Seq(PageIds \cup 1 .. MaxOperations)
            /\ DOMAIN order \subseteq Ids \cup {Spread}
            /\ named \in Ids \cup {None} /\ changed \in BOOLEAN
        BY <1>2 DEF TypeOK
      <4> QED
        BY <4>1, <4>2
    <3>2. CASE \E objects : Follows(objects) /\ Changes(plan[Current], Current, objects)
      <4> PICK objects : Follows(objects) /\ Changes(plan[Current], Current, objects)
        BY <3>2
      <4>1. /\ object' \in [Ids -> Objects] /\ object' = objects
            /\ seen' \in [Ids -> Objects]
            /\ altered' \subseteq Ids
            /\ pages' \in Seq(PageIds \cup 1 .. MaxOperations)
            /\ DOMAIN order' \subseteq Ids \cup {Spread}
            /\ named' \in Ids \cup {None}
            /\ changed' = TRUE /\ edited' = edited
        BY <1>1, DocumentAfter
      <4>2. Follows(object')
        BY <4>1
      <4> QED
        BY <4>1, <4>2
    <3> QED
      BY <1>5, <3>1, <3>2
  <2>4. TypeOK'
    BY <1>1, <1>2, <2>1, <2>2, <2>3 DEF TypeOK
  <2>5. \A a \in progress'.aliases : object'[a[2]].labelled /\ Meant(a[1], a[2])'
    BY <1>1, <2>1, <2>3, PartialHolds
  <2> QED
    BY <1>1, <2>2, <2>4, <2>5 DEF BatchInv, UnchangedAsReported, ReportedReferencesHold
<1>6. /\ Follows(ObjectsChanged(plan[Current], Current))
      /\ Follows(ObjectsAfter(plan[Current], Current))
  BY <1>1, OperationStep
<1>7. \/ report' = Refused(Current) /\ UNCHANGED <<progress, docVars>>
      \/ \E done \in {progress.completed, Current} :
           /\ progress' = [progress EXCEPT !.mutationStarted = Marked, !.completed = done]
           /\ report' = Failure(progress'.mutationStarted, done, Current)
           /\ \/ UNCHANGED docVars
              \/ Changes(plan[Current], Current, ObjectsChanged(plan[Current], Current))
              \/ Changes(plan[Current], Current, ObjectsAfter(plan[Current], Current))
  BY DEF HostFails
<1> QED
  BY <1>4, <1>5, <1>6, <1>7

\* What the plan means by a target is what it is resolved to.
LEMMA TargetMeant ==
  ASSUME BatchInv, phase = "executing", Current <= Len(plan),
         NEW t, NEW kinds, "layer" \notin kinds, Resolves(t, kinds)
  PROVE  Resolved(t) = Meaning(t)
<1>1. CASE t.by = "alias"
  <2>1. t.ref \in DOMAIN aliases /\ object[aliases[t.ref].id].kind \in kinds
    BY <1>1 DEF Resolves
  <2>2. AliasSound(t.ref)
    BY <2>1, Running DEF AliasesSound
  <2>3. aliases[t.ref].id = planned[t.ref].id
    BY <2>1, <2>2 DEF AliasSound, Meant
  <2> QED
    BY <1>1, <2>3 DEF Resolved, Meaning
<1>2. CASE t.by # "alias"
  BY <1>2 DEF Resolved, Meaning
<1> QED
  BY <1>1, <1>2

\* What an operation returns is what the plan means by its name.
LEMMA ResultMeant ==
  ASSUME BatchInv, phase = "executing", Current <= Len(plan), Executable(plan[Current]),
         plan[Current].ref # None
  PROVE  LET op == plan[Current]
             r == ResultOf(op, Current)
             after == ObjectsAfter(op, Current)
         IN /\ after[r].kind = planned[op.ref].kind
            /\ planned[op.ref].kind # "layer" => r = planned[op.ref].id
<1> DEFINE op == plan[Current]
           r == ResultOf(op, Current)
           after == ObjectsAfter(op, Current)
<1>0. op.type \in {"ensure_layer", "edit_item", "move_item_to_layer"} \cup NewOnes
  BY Running, OperationFields DEF NewOnes
<1>1. ResultKnown(Current)
  BY Running DEF PlanSound
<1>2. CASE op.type \in {"ensure_layer"} \cup NewOnes
  <2>1. /\ op.type = "ensure_layer" => after[r].kind = "layer"
        /\ op.type = "define_resource" => after[r].kind = "resource" /\ r = Current
        /\ op.type = "create_page" => after[r].kind = "page" /\ r = Current
        /\ op.type = "create_item" => after[r].kind = "item" /\ r = Current
        /\ op.type = "group_items" => after[r].kind = "group" /\ r = Current
    BY OperationStep, Returning DEF NewOnes
  <2> QED
    BY <1>1, <1>2, <2>1 DEF ResultKnown, NewOnes
<1>3. CASE op.type \in {"edit_item", "move_item_to_layer"}
  <2>1. /\ r = Resolved(op.target) /\ after[r].kind = object[r].kind
        /\ object[r].kind \in PageItemKinds
    BY <1>3, Returning, OperationStep
  <2>2. op.target \in Targets /\ Resolves(op.target, PageItemKinds)
    BY <1>3, Running, OperationFields DEF Executable
  <2>3. CASE op.target.by = "alias"
    <3>1. op.target.ref \in DOMAIN aliases /\ r = aliases[op.target.ref].id
      BY <2>1, <2>2, <2>3 DEF Resolves, Resolved
    <3>2. AliasSound(op.target.ref)
      BY <3>1, Running DEF AliasesSound
    <3>3. /\ object[r].kind = planned[op.target.ref].kind
          /\ planned[op.target.ref].kind # "layer" => r = planned[op.target.ref].id
      BY <3>1, <3>2 DEF AliasSound, Meant
    <3> HIDE DEF r, after
    <3> QED
      BY <1>1, <1>3, <2>1, <2>3, <3>3 DEF ResultKnown, r, after
  <2>4. CASE op.target.by # "alias"
    <3>1. op.target.id \in Existing /\ r = op.target.id
      BY <2>1, <2>2, <2>4, TargetFields DEF Resolved, AllTargets
    <3>2. object[r].kind \in {seen[r].kind, "absent"}
      BY <3>1, Running DEF ObjectsSound
    <3>3. object[r].kind = seen[r].kind
      BY <2>1, <3>2 DEF PageItemKinds
    <3> HIDE DEF r, after
    <3> QED
      BY <1>1, <1>3, <2>1, <2>4, <3>1, <3>3 DEF ResultKnown, r, after
  <2> QED
    BY <2>3, <2>4
<1> QED
  BY <1>0, <1>2, <1>3

\* An operation that returns another object makes none.
LEMMA NothingNew ==
  ASSUME BatchInv, phase = "executing", Current <= Len(plan), Executable(plan[Current]),
         ResultOf(plan[Current], Current) # Current
  PROVE  ObjectsAfter(plan[Current], Current)[Current].kind = "absent"
<1> DEFINE op == plan[Current]
           r == ResultOf(op, Current)
           objects == ObjectsChanged(op, Current)
<1>1. /\ r \in Ids /\ Current \in Ids /\ object \in [Ids -> Objects]
      /\ object[Current].kind = "absent"
  BY Running, Returning, NoObjectType DEF TypeOK
<1>2. op.type \in {"ensure_layer", "edit_item", "move_item_to_layer"}
  BY Running, OperationFields, Returning DEF NewOnes
<1>3. DOMAIN objects = Ids /\ objects[Current] = object[Current]
  BY <1>1, <1>2 DEF ObjectsChanged
<1>4. ObjectsAfter(op, Current) = [objects EXCEPT ![r].labelled = TRUE]
  BY DEF ObjectsAfter
<1> HIDE DEF objects, r
<1>5. ObjectsAfter(op, Current)[Current] = objects[Current]
  BY <1>1, <1>3, <1>4 DEF r
<1> QED
  BY <1>1, <1>3, <1>5

\* What has happened when an operation has been executed.
Done ==
  LET op == plan[Current]
  IN /\ phase = "executing" /\ Current <= Len(plan) /\ Executable(op)
     /\ Changes(op, Current, ObjectsAfter(op, Current))
     /\ aliases' = AliasesAfter(op, Current, object')
     /\ progress'.completed = Current
     /\ phase' = "executing"
     /\ UNCHANGED <<plan, planned>>

LEMMA ObjectsStep ==
  ASSUME BatchInv, Done
  PROVE  ObjectsSound'
<1> DEFINE op == plan[Current]
           r == ResultOf(op, Current)
           n == progress.completed
<1>1. /\ phase = "executing" /\ Current <= Len(plan) /\ Executable(op)
      /\ object' = ObjectsAfter(op, Current) /\ named' = NamedAfter(op, Current)
      /\ pages' = PagesAfter(op, Current)
      /\ seen' = seen /\ n \in Nat /\ progress'.completed = n + 1
      /\ Current = n + 1 /\ Current' = Current + 1 /\ Current \in 1 .. MaxOperations
  BY Running DEF Done, Changes, Current
<1>2. /\ ObjectsSound /\ TypeOK /\ Existing \subseteq Ids \ {Current} /\ Layer \in Existing
      /\ Current \in Ids
  BY <1>1, Running, ConstantFacts
<1>3. Follows(object')
  BY <1>1, OperationStep
<1>4. \A k \in Current + 1 .. MaxOperations :
        object'[k] = NoObject /\ \A i \in Ids : object'[i].container # k
  BY <1>3 DEF Follows
<1>5. \A i \in Ids \ {Current} : object'[i].kind = object[i].kind
  BY <1>3 DEF Follows
<1>6. \A i \in Existing : /\ seen'[i].kind = KindAtFirst(i)
                          /\ object'[i].kind \in {seen'[i].kind, "absent"}
  BY <1>1, <1>2, <1>5 DEF ObjectsSound
<1>7. object'[Layer].kind = "layer"
  BY <1>2, <1>5 DEF ObjectsSound
<1>8. named' # None => named' \in 1 .. n + 1 /\ object'[named'].kind = "layer"
  <2>1. CASE op.type = "ensure_layer" /\ ~op.known
    <3>1. named' = r /\ object'[r].kind = "layer"
      BY <1>1, <2>1, OperationStep DEF NamedAfter
    <3>2. r = IF named = None THEN Current ELSE named
      BY <2>1 DEF ResultOf, NamedLayer
    <3>3. named # None => named \in 1 .. n
      BY <1>2 DEF ObjectsSound
    <3> HIDE DEF r
    <3> QED
      BY <1>1, <3>1, <3>2, <3>3
  <2>2. CASE ~(op.type = "ensure_layer" /\ ~op.known)
    <3>1. named' = named
      BY <1>1, <2>2 DEF NamedAfter
    <3>2. named # None => named \in 1 .. n /\ object[named].kind = "layer"
      BY <1>2 DEF ObjectsSound
    <3>3. named # None => named \in Ids \ {Current}
      BY <1>1, <1>2, <3>2 DEF TypeOK
    <3> QED
      BY <1>1, <1>5, <3>1, <3>2, <3>3
  <2> QED
    BY <2>1, <2>2
<1>9. \A i \in Ids : object'[i].kind = "page" => \E m \in 1 .. Len(pages') : pages'[m] = i
  <2> SUFFICES ASSUME NEW i \in Ids, object'[i].kind = "page"
               PROVE  \E m \in 1 .. Len(pages') : pages'[m] = i
    OBVIOUS
  <2>1. CASE i = Current
    <3>1. r = Current
      BY <1>1, <2>1, NothingNew
    <3>2. op.type \notin {"edit_item", "move_item_to_layer"}
      BY <1>1, <3>1, Returning
    <3>3. op.type = "create_page"
      BY <1>1, <2>1, <3>1, <3>2, OperationStep, Running, OperationFields
    <3> QED
      BY <1>1, <2>1, <3>3, PagesStep
  <2>2. CASE i # Current
    <3>1. \E m \in 1 .. Len(pages) : pages[m] = i
      BY <1>2, <1>5, <2>2 DEF ObjectsSound
    <3>2. \A m \in 1 .. Len(pages) : \E l \in 1 .. Len(pages') : pages'[l] = pages[m]
      BY <1>1, PagesStep
    <3> QED
      BY <3>1, <3>2
  <2> QED
    BY <2>1, <2>2
<1>10. named' # None => named' \in 1 .. progress'.completed /\ object'[named'].kind = "layer"
  BY <1>1, <1>8
<1>11. Current' = Current + 1
  BY <1>1
<1> HIDE DEF op, r, n
<1> QED
  BY <1>4, <1>6, <1>7, <1>9, <1>10, <1>11 DEF ObjectsSound

LEMMA EditStep ==
  ASSUME BatchInv, Done
  PROVE  EditShows'
<1> SUFFICES ASSUME edited'.noticed
             PROVE  /\ edited'.id \in Existing
                    /\ phase' = "preparing" \/ Protected' => ~AsSeen(edited.id)'
  BY DEF EditShows
<1>1. /\ phase = "executing" /\ Current <= Len(plan) /\ Executable(plan[Current])
      /\ object' = ObjectsAfter(plan[Current], Current) /\ altered \subseteq altered'
      /\ UNCHANGED <<seen, edited, plan>> /\ phase' = "executing"
  BY DEF Done, Changes
<1>2. EditShows
  BY <1>1, Running
<1>3. Protected' <=> Protected
  BY <1>1 DEF Protected, Names
<1>4. edited.id \in Existing /\ (Protected => ~AsSeen(edited.id))
  BY <1>1, <1>2 DEF EditShows
<1>5. ASSUME Protected
      PROVE  ~AsSeen(edited.id)'
  <2>1. Follows(object')
    BY <1>1, OperationStep
  <2>2. object'[edited.id] = object[edited.id]
    BY <1>5, <2>1 DEF Follows
  <2> QED
    BY <1>1, <1>4, <1>5, <2>2 DEF AsSeen
<1> QED
  BY <1>1, <1>3, <1>4, <1>5

\* What looks different after an operation has been disturbed by it.
LEMMA AlteredMeant ==
  ASSUME BatchInv, phase = "executing", Current <= Len(plan), Executable(plan[Current]),
         Held(object) = Held(seen),
         NEW i \in Existing, i \in Alters(plan[Current], Current) \cup Alongside(plan[Current])
  PROVE  i \in Disturbed(plan[Current])
<1> DEFINE op == plan[Current]
           r == ResultOf(op, Current)
<1>0. "layer" \notin PageItemKinds /\ "layer" \notin {"page"}
  BY DEF PageItemKinds
<1>1. CASE op.type = "edit_item" /\ op.moves
  <2>1. Resolved(op.target) = Meaning(op.target)
    BY <1>0, <1>1, TargetMeant DEF Executable
  <2>2. r = Resolved(op.target)
    BY <1>1 DEF ResultOf
  <2>3. Alters(op, Current) = {r} /\ Alongside(op) = Kin(Held(object), Resolved(op.target))
    BY <1>1 DEF Alters, Alongside
  <2>4. Disturbed(op) = {Meaning(op.target)} \cup Kin(Held(seen), Meaning(op.target))
    BY <1>1 DEF Disturbed
  <2> QED
    BY <2>1, <2>2, <2>3, <2>4
<1>2. CASE op.type = "ensure_layer" /\ op.shows = "change"
  <2>1. Alters(op, Current) = {r} /\ Alongside(op) = {}
    BY <1>2 DEF Alters, Alongside
  <2>2. i = r
    BY <2>1
  <2>3. op.known /\ r = Layer
    BY <1>2, <2>2, Returning, Running
  <2>4. Disturbed(op) = {Layer}
    BY <1>2, <2>3 DEF Disturbed
  <2> QED
    BY <2>2, <2>3, <2>4
<1>3. CASE op.type = "create_page" /\ op.after # None
  <2>1. Resolved(op.after) = Meaning(op.after)
    BY <1>0, <1>3, TargetMeant DEF Executable
  <2>2. Alters(op, Current) = {} /\ Alongside(op) = Behind(Resolved(op.after))
    BY <1>3 DEF Alters, Alongside
  <2>3. \A m \in 1 .. Len(pages) : pages[m] \in PageIds \cup 1 .. MaxOperations
    BY Running DEF TypeOK
  <2>4. i \in PageIds /\ i # Resolved(op.after)
    BY <2>2, <2>3, ConstantFacts DEF Behind
  <2>5. Disturbed(op) = PageIds \ {Meaning(op.after)}
    BY <1>3 DEF Disturbed
  <2> QED
    BY <2>1, <2>4, <2>5
<1>4. CASE ~(op.type = "edit_item" /\ op.moves) /\ ~(op.type = "ensure_layer" /\ op.shows = "change")
           /\ ~(op.type = "create_page" /\ op.after # None)
  <2>1. Alters(op, Current) = {} /\ Alongside(op) = {}
    BY <1>4 DEF Alters, Alongside
  <2> QED
    BY <2>1
<1> QED
  BY <1>1, <1>2, <1>3, <1>4

LEMMA CalmStep ==
  ASSUME BatchInv, Done
  PROVE  Calm'
<1> DEFINE op == plan[Current]
           n == progress.completed
<1>1. /\ phase = "executing" /\ Current <= Len(plan) /\ Executable(op)
      /\ object' = ObjectsAfter(op, Current)
      /\ \E touched \in SUBSET Alongside(op) :
           altered' = altered \cup Alters(op, Current) \cup touched
      /\ UNCHANGED <<seen, edited, plan, planned>>
      /\ n \in Nat /\ progress'.completed = n + 1 /\ Current = n + 1
  BY Running DEF Done, Changes, Current
<1>2. Held(seen)' = Held(seen) /\ Held(object)' = Held(object') /\ NoEdit' = NoEdit
  BY <1>1 DEF Held, NoEdit
<1>3. SUFFICES ASSUME edited = NoEdit, \A j \in 1 .. n + 1 : plan[j].type # "group_items"
               PROVE  /\ Held(object') = Held(seen)
                      /\ \A i \in Existing :
                           /\ object'[i].kind = seen[i].kind
                           /\ ~AsSeen(i)' => \E j \in 1 .. n + 1 : i \in Disturbed(plan[j])'
  BY <1>1, <1>2 DEF Calm, NoGroupUpTo
<1>4. /\ \A j \in 1 .. n : j \in 1 .. n + 1
      /\ n + 1 \in 1 .. n + 1
  BY <1>1
<1>5. NoGroupUpTo(n)
  BY <1>3, <1>4 DEF NoGroupUpTo
<1>6. /\ Held(object) = Held(seen)
      /\ \A i \in Existing :
           /\ object[i].kind = seen[i].kind
           /\ ~AsSeen(i) => \E j \in 1 .. n : i \in Disturbed(plan[j])
  BY <1>1, <1>3, <1>5, Running DEF Calm
<1>7. op.type # "group_items"
  BY <1>1, <1>3, <1>4
<1>8. Follows(object')
  BY <1>1, OperationStep
<1>9. Held(object') = Held(seen)
  BY <1>6, <1>7, <1>8 DEF Follows
<1>10. \A i \in Existing : object'[i].kind = object[i].kind
  BY <1>1, <1>8, Running, ConstantFacts DEF Follows
<1>11. \A j : Disturbed(plan[j])' = Disturbed(plan[j])
  BY <1>1, <1>2 DEF Disturbed, Meaning
<1>12. ASSUME NEW i \in Existing, ~AsSeen(i)'
       PROVE  \E j \in 1 .. n + 1 : i \in Disturbed(plan[j])
  <2>1. CASE ~AsSeen(i)
    BY <1>4, <1>6, <2>1
  <2>2. CASE AsSeen(i) /\ i \in Alters(op, Current) \cup Alongside(op)
    <3>1. i \in Disturbed(op)
      BY <1>1, <1>6, <2>2, AlteredMeant
    <3> QED
      BY <1>1, <1>4, <3>1
  <2>3. CASE AsSeen(i) /\ i \notin Alters(op, Current) \cup Alongside(op)
    <3>1. i \notin altered'
      BY <1>1, <2>3 DEF AsSeen
    <3>2. object'[i].locked # object[i].locked
      BY <1>1, <1>10, <1>12, <2>3, <3>1 DEF AsSeen
    <3>3. i \in Disturbed(op)
      BY <1>8, <3>2 DEF Follows
    <3> QED
      BY <1>1, <1>4, <3>3
  <2> QED
    BY <2>1, <2>2, <2>3
<1> QED
  BY <1>6, <1>9, <1>10, <1>11, <1>12

LEMMA AliasesStep ==
  ASSUME BatchInv, Done, Refreshable(aliases', object'),
         progress'.aliases = {<<x, aliases'[x].id>> : x \in DOMAIN aliases'}
  PROVE  AliasesSound'
<1> DEFINE op == plan[Current]
           r == ResultOf(op, Current)
           n == progress.completed
           kept == Reconciled(op, object')
<1>1. /\ phase = "executing" /\ Current <= Len(plan) /\ Executable(op)
      /\ object' = ObjectsAfter(op, Current)
      /\ UNCHANGED <<plan, planned, edited>>
      /\ n \in Nat /\ progress'.completed = n + 1 /\ Current = n + 1
  BY Running DEF Done, Changes, Current
<1>2. aliases' = Bind(kept, op.ref, [id |-> r, proxy |-> object'[r].proxy])
  BY DEF Done, AliasesAfter
<1>3. DOMAIN kept = DOMAIN aliases /\ \A x \in DOMAIN aliases : kept[x].id = aliases[x].id
  <2>1. DOMAIN kept = DOMAIN aliases
    BY DEF Reconciled
  <2>2. ASSUME NEW x \in DOMAIN aliases
        PROVE  kept[x].id = aliases[x].id
    <3>1. aliases[x] \in [id : Ids, proxy : Nat]
      BY <1>1, Running DEF TypeOK
    <3>2. \A p : [aliases[x] EXCEPT !.proxy = p].id = aliases[x].id
      BY <3>1
    <3>3. kept[x] = aliases[x] \/ \E p : kept[x] = [aliases[x] EXCEPT !.proxy = p]
      BY <2>2 DEF Reconciled
    <3> QED
      BY <3>2, <3>3
  <2> QED
    BY <2>1, <2>2
<1> HIDE DEF kept
<1>4. /\ DOMAIN aliases' = DOMAIN aliases \cup ({op.ref} \ {None})
      /\ op.ref # None => aliases'[op.ref].id = r
      /\ \A x \in DOMAIN aliases : x # op.ref \/ op.ref = None => aliases'[x].id = aliases[x].id
  BY <1>2, <1>3 DEF Bind
<1>5. DOMAIN aliases' = NamesUpTo(progress.completed)'
  <2>1. {plan[j].ref : j \in 1 .. n + 1} = {plan[j].ref : j \in 1 .. n} \cup {op.ref}
    <3>1. \A j \in 1 .. n + 1 : j \in 1 .. n \/ j = n + 1
      BY <1>1
    <3>2. (\A j \in 1 .. n : j \in 1 .. n + 1) /\ n + 1 \in 1 .. n + 1
      BY <1>1
    <3> QED
      BY <1>1, <3>1, <3>2
  <2>2. DOMAIN aliases = {plan[j].ref : j \in 1 .. n} \ {None}
    BY <1>1, Running DEF AliasesSound, NamesUpTo
  <2>3. NamesUpTo(progress.completed)' = {plan[j].ref : j \in 1 .. n + 1} \ {None}
    BY <1>1 DEF NamesUpTo
  <2> HIDE DEF op, n
  <2> QED
    BY <1>4, <2>1, <2>2, <2>3
<1>6. r \in Existing \cup 1 .. n + 1 /\ (Protected => r # edited.id)
  BY <1>1, Returning
<1>7. Follows(object') /\ object'[r].labelled
  BY <1>1, OperationStep
<1>8. op.ref # None => /\ object'[r].kind = planned[op.ref].kind
                       /\ planned[op.ref].kind # "layer" => r = planned[op.ref].id
  BY <1>1, ResultMeant
<1>9. Protected' <=> Protected
  BY <1>1 DEF Protected, Names
<1>10. ASSUME NEW x \in DOMAIN aliases'
       PROVE  AliasSound(x)'
  <2>1. ProxyValid(aliases[x], object)'
    <3>1. ProxyValid(aliases'[x], object')
      BY <1>10 DEF Refreshable
    <3> QED
      BY <3>1 DEF ProxyValid
  <2>2. CASE x = op.ref /\ op.ref # None
    <3>1. aliases'[x].id = r
      BY <1>4, <2>2
    <3>2. /\ object'[r].kind = planned[x].kind
          /\ planned[x].kind # "layer" => r = planned[x].id
      BY <1>8, <2>2
    <3> HIDE DEF r, op, n
    <3> QED
      BY <1>1, <1>6, <1>7, <1>9, <2>1, <3>1, <3>2 DEF AliasSound, Meant
  <2>3. CASE x # op.ref \/ op.ref = None
    <3>1. x \in DOMAIN aliases /\ aliases'[x].id = aliases[x].id
      BY <1>4, <1>10, <2>3
    <3>2. /\ object'[aliases[x].id].labelled
          /\ object'[aliases[x].id].kind = planned[x].kind
          /\ planned[x].kind # "layer" => aliases[x].id = planned[x].id
      BY <1>1, <1>7, <3>1, AliasKept
    <3>3. /\ aliases[x].id \in Existing \cup 1 .. n
          /\ Protected => aliases[x].id # edited.id
      BY <1>1, <3>1, Running DEF AliasesSound, AliasSound
    <3>4. aliases[x].id \in Existing \cup 1 .. n + 1
      BY <1>1, <3>3
    <3> HIDE DEF r, op, n
    <3> QED
      BY <1>1, <1>9, <2>1, <3>1, <3>2, <3>3, <3>4 DEF AliasSound, Meant
  <2> QED
    BY <2>2, <2>3
<1> QED
  BY <1>5, <1>10 DEF AliasesSound

LEMMA ExecuteStep ==
  ASSUME BatchInv, Execute
  PROVE  BatchInv'
<1> DEFINE op == plan[Current]
           r == ResultOf(op, Current)
<1>1. /\ phase = "executing" /\ Current <= Len(plan) /\ Executable(op)
      /\ Changes(op, Current, ObjectsAfter(op, Current))
      /\ aliases' = AliasesAfter(op, Current, object')
      /\ UNCHANGED <<plan, planned>>
  BY DEF Execute
<1>2. /\ TypeOK /\ PlanSound /\ Current \in 1 .. MaxOperations /\ Current \in 0 .. MaxOperations
      /\ Current \in Nat /\ op \in Operations /\ r \in Ids
      /\ Len(plan) \in Nat /\ report.status = "none"
  BY <1>1, Running, Returning, ConstantFacts DEF BatchInv
<1>3. /\ object' \in [Ids -> Objects] /\ Follows(object')
      /\ seen' \in [Ids -> Objects] /\ seen' = seen
      /\ altered' \subseteq Ids
      /\ pages' \in Seq(PageIds \cup 1 .. MaxOperations)
      /\ DOMAIN order' \subseteq Ids \cup {Spread}
      /\ named' \in Ids \cup {None}
      /\ changed' = TRUE /\ edited' = edited
  <2> DEFINE objects == ObjectsAfter(op, Current)
  <2>1. Follows(objects)
    BY <1>1, OperationStep
  <2>2. Changes(op, Current, objects)
    BY <1>1
  <2>3. object' = objects
    BY <2>2 DEF Changes
  <2> HIDE DEF objects
  <2> QED
    BY <1>1, <2>1, <2>2, <2>3, DocumentAfter
<1>4. /\ DOMAIN aliases' \subseteq Aliases
      /\ \A x \in DOMAIN aliases' : aliases'[x] \in [id : Ids, proxy : Nat]
  <2> DEFINE kept == Reconciled(op, object')
             new == [id |-> r, proxy |-> object'[r].proxy]
  <2>1. \A i \in Ids : object'[i].proxy \in Nat
    BY <1>3, ObjectType
  <2>2. DOMAIN aliases \subseteq Aliases
        /\ \A x \in DOMAIN aliases : aliases[x] \in [id : Ids, proxy : Nat]
    BY <1>2 DEF TypeOK
  <2>3. DOMAIN kept = DOMAIN aliases
        /\ \A x \in DOMAIN aliases : kept[x] \in [id : Ids, proxy : Nat]
    <3>1. DOMAIN kept = DOMAIN aliases
      BY DEF Reconciled
    <3>2. ASSUME NEW x \in DOMAIN aliases
          PROVE  kept[x] \in [id : Ids, proxy : Nat]
      <4>1. aliases[x] \in [id : Ids, proxy : Nat]
        BY <2>2
      <4>2. [aliases[x] EXCEPT !.proxy = object'[aliases[x].id].proxy] \in [id : Ids, proxy : Nat]
        BY <2>1, <4>1
      <4>3. \/ kept[x] = aliases[x]
            \/ kept[x] = [aliases[x] EXCEPT !.proxy = object'[aliases[x].id].proxy]
        BY <3>2 DEF Reconciled
      <4> QED
        BY <4>1, <4>2, <4>3
    <3> QED
      BY <3>1, <3>2
  <2>4. new \in [id : Ids, proxy : Nat]
    BY <1>2, <2>1
  <2>5. aliases' = Bind(kept, op.ref, new)
    BY <1>1 DEF AliasesAfter
  <2>6. op.ref \in Aliases \cup {None}
    BY <1>2, OperationFields
  <2> HIDE DEF kept, new, op
  <2> QED
    BY <2>2, <2>3, <2>4, <2>5, <2>6 DEF Bind
<1>5. progress \in [mutationStarted : BOOLEAN, completed : 0 .. MaxOperations,
                    aliases : SUBSET (Aliases \X Ids)]
  BY <1>2 DEF TypeOK
<1>6. CASE Refreshable(aliases', object')
  <2>1. /\ progress' = [mutationStarted |-> TRUE, completed |-> Current,
                        aliases |-> {<<x, aliases'[x].id>> : x \in DOMAIN aliases'}]
        /\ UNCHANGED <<phase, report>>
    BY <1>6 DEF Execute
  <2>2. Done
    BY <1>1, <2>1 DEF Done
  <2>3. DocumentSound'
    BY <2>2, ObjectsStep, EditStep, CalmStep DEF DocumentSound
  <2>4. AliasesSound'
    BY <1>6, <2>1, <2>2, AliasesStep
  <2>5. PlanSound'
    BY <1>1, <1>2, <1>3, SamePlan
  <2>6. {<<x, aliases'[x].id>> : x \in DOMAIN aliases'} \in SUBSET (Aliases \X Ids)
    BY <1>4
  <2>7. progress' \in [mutationStarted : BOOLEAN, completed : 0 .. MaxOperations,
                       aliases : SUBSET (Aliases \X Ids)]
    BY <1>2, <2>1, <2>6
  <2>8. TypeOK'
    BY <1>1, <1>2, <1>3, <1>4, <2>1, <2>7 DEF TypeOK
  <2>9. progress'.mutationStarted /\ progress'.completed <= Len(plan')
    BY <1>1, <2>1
  <2> QED
    BY <1>1, <1>2, <2>1, <2>3, <2>4, <2>5, <2>8, <2>9
    DEF BatchInv, UnchangedAsReported, ReportedReferencesHold
<1>7. CASE ~Refreshable(aliases', object')
  <2>1. /\ progress' = [progress EXCEPT !.mutationStarted = TRUE, !.completed = Current]
        /\ phase' = "done"
        /\ report' = Failure(TRUE, Current, Current)
    BY <1>7 DEF Execute
  <2>2. report' \in Reports /\ report'.status = "partial"
    BY <1>2, <2>1, FailureType
  <2>3. /\ progress' \in [mutationStarted : BOOLEAN, completed : 0 .. MaxOperations,
                          aliases : SUBSET (Aliases \X Ids)]
        /\ progress'.aliases = progress.aliases
    BY <1>2, <1>5, <2>1
  <2>4. TypeOK'
    BY <1>1, <1>2, <1>3, <1>4, <2>1, <2>2, <2>3 DEF TypeOK
  <2>5. \A a \in progress'.aliases : object'[a[2]].labelled /\ Meant(a[1], a[2])'
    BY <1>1, <1>3, <2>3, PartialHolds
  <2> QED
    BY <2>1, <2>2, <2>4, <2>5 DEF BatchInv, UnchangedAsReported, ReportedReferencesHold
<1> QED
  BY <1>6, <1>7

-----------------------------------------------------------------------------
(* The invariant and the theorems.                                         *)

LEMMA StutterStep ==
  ASSUME BatchInv, UNCHANGED vars
  PROVE  BatchInv'
<1>1. UNCHANGED <<phase, plan, planned, seen, object, altered, order, pages, named, aliases,
                  progress, report, changed, edited>>
  BY DEF vars, docVars
<1>2. PlanSound => PlanSound'
  BY <1>1, SamePlan
<1>3. (\A i : AsSeen(i)' <=> AsSeen(i)) /\ (Protected' <=> Protected)
  BY <1>1 DEF AsSeen, Protected, Names
<1>4. ObjectsSound => ObjectsSound'
  BY <1>1 DEF ObjectsSound, Current
<1>5. EditShows => EditShows'
  BY <1>1, <1>3 DEF EditShows
<1>6. Calm => Calm'
  <2>1. \A j : Disturbed(plan[j])' = Disturbed(plan[j])
    BY <1>1 DEF Disturbed, Meaning, Held
  <2>2. Held(object)' = Held(object) /\ Held(seen)' = Held(seen)
    BY <1>1 DEF Held
  <2>3. NoGroupUpTo(progress.completed)' <=> NoGroupUpTo(progress.completed)
    BY <1>1 DEF NoGroupUpTo
  <2> QED
    BY <1>1, <1>3, <2>1, <2>2, <2>3 DEF Calm
<1>7. \A x : AliasSound(x)' <=> AliasSound(x)
  BY <1>1, <1>3 DEF AliasSound, Meant, ProxyValid
<1>8. AliasesSound => AliasesSound'
  BY <1>1, <1>7 DEF AliasesSound, NamesUpTo
<1>9. TypeOK => TypeOK'
  BY <1>1 DEF TypeOK
<1>10. Untouched => Untouched'
  BY <1>1 DEF Untouched
<1> QED
  BY <1>1, <1>2, <1>4, <1>5, <1>6, <1>8, <1>9, <1>10
  DEF BatchInv, DocumentSound, UnchangedAsReported, ReportedReferencesHold, Meant

LEMMA NextStep ==
  ASSUME BatchInv, [Next]_vars
  PROVE  BatchInv'
<1>1. CASE UNCHANGED vars
  BY <1>1, StutterStep
<1>2. CASE \E op \in Operations : Validate(op)
  BY <1>2, ValidateStep
<1>3. CASE UserEdit
  BY <1>3, UserEditStep
<1>4. CASE EndDryRun
  BY <1>4, EndDryRunStep
<1>5. CASE StartExecution
  BY <1>5, StartExecutionStep
<1>6. CASE Refuse
  BY <1>6, RefuseStep
<1>7. CASE HostFails
  BY <1>7, HostFailsStep
<1>8. CASE Execute
  BY <1>8, ExecuteStep
<1>9. CASE Finish
  BY <1>9, FinishStep
<1> QED
  BY <1>1, <1>2, <1>3, <1>4, <1>5, <1>6, <1>7, <1>8, <1>9 DEF Next

\* What the validation has learned, the objects of the document and the names
\* of a batch belong together, whichever operations it has, whatever a person
\* edits before it is executed and wherever the host fails.
THEOREM BatchInvariant == Spec => []BatchInv
<1>1. Init => BatchInv
  BY InitSound
<1>2. BatchInv /\ [Next]_vars => BatchInv'
  BY NextStep
<1> QED
  BY <1>1, <1>2, PTL DEF Spec

\* Type correctness of a batch.
THEOREM BatchTypes == Spec => []TypeOK
<1>1. BatchInv => TypeOK
  BY DEF BatchInv
<1> QED
  BY <1>1, BatchInvariant, PTL

\* A refusal, a dry run and an error without partial changes leave the document
\* as it was, in whichever operation and before whichever of its steps the
\* batch has stopped.
THEOREM UnchangedIsTrue == Spec => []UnchangedAsReported
<1>1. BatchInv => UnchangedAsReported
  BY DEF BatchInv
<1> QED
  BY <1>1, BatchInvariant, PTL

\* As long as a batch runs, each of its names stands for the object that the
\* validation meant, through a proxy that can be used.
THEOREM AliasesAreKept == Spec => []AliasesHold
<1>1. BatchInv => AliasesHold
  BY DEF BatchInv, AliasesSound, AliasSound, AliasesHold
<1> QED
  BY <1>1, BatchInvariant, PTL

\* The references in the report of a batch, complete or partial, are to objects
\* that are there, carry their label and are those that the plan means.
THEOREM ReferencesAreKept == Spec => []ReportedReferencesHold
<1>1. BatchInv => ReportedReferencesHold
  BY DEF BatchInv
<1> QED
  BY <1>1, BatchInvariant, PTL

\* What a person has changed so that its fingerprint shows it, or has deleted,
\* is not touched by a batch that names it nowhere without a fingerprint: none
\* of its aliases has come to denote it.
THEOREM NoticedEditsStand == Spec => NoticedEditUntouched
<1>1. ASSUME BatchInv, [Next]_vars, phase = "executing", Protected
      PROVE  object'[edited.id] = object[edited.id]
  <2>1. CASE object' = object
    BY <2>1
  <2>2. CASE object' # object
    <3>1. /\ Current <= Len(plan) /\ Executable(plan[Current])
          /\ \/ object' = ObjectsAfter(plan[Current], Current)
             \/ object' = ObjectsChanged(plan[Current], Current)
      BY <1>1, <2>2
      DEF Next, vars, Validate, UserEdit, EndDryRun, StartExecution, Refuse, HostFails, Execute,
          Finish, Changes, docVars
    <3>2. Follows(object')
      BY <1>1, <3>1, OperationStep
    <3> QED
      BY <1>1, <3>2 DEF Follows
  <2> QED
    BY <2>1, <2>2
<1>2. BatchInv /\ [Next]_vars
        => [phase = "executing" /\ Protected => object'[edited.id] = object[edited.id]]_vars
  BY <1>1
<1> QED
  BY <1>2, BatchInvariant, PTL DEF Spec, NoticedEditUntouched

\* Only group_items makes a group, and it makes one.
LEMMA GroupMade ==
  ASSUME BatchInv, phase = "executing", Current <= Len(plan), Executable(plan[Current]),
         NEW k \in 1 .. MaxOperations,
         \/ object' = ObjectsAfter(plan[Current], Current)
         \/ object' = ObjectsChanged(plan[Current], Current),
         object[k].kind # "group", object'[k].kind = "group"
  PROVE  k = Current /\ plan[Current].type = "group_items"
<1> DEFINE op == plan[Current]
           r == ResultOf(op, Current)
           after == ObjectsAfter(op, Current)
<1>1. k \in Ids /\ Current \in Ids
  BY Running, ConstantFacts
<1>2. Follows(object') /\ after[k].kind = object'[k].kind
  BY <1>1, OperationStep
<1>3. k = Current
  BY <1>1, <1>2 DEF Follows
<1>4. r = Current /\ after[r].kind = "group"
  BY <1>2, <1>3, NothingNew
<1> HIDE DEF after, r
<1>5. op.type = "group_items"
  BY <1>4, Running, OperationFields, OperationStep, Returning DEF after, r
<1> QED
  BY <1>3, <1>5

\* A group holds the two targets that the plan names and nothing else, and none
\* of them was locked, although other operations of the batch have created,
\* locked, moved and grouped objects since the plan was validated.
THEOREM GroupsHoldTheirTargets == Spec => GroupsAreExact
<1> DEFINE Exact(k) ==
             LET op == plan[k]
                 members == {i \in Ids : object'[i].container = k}
             IN /\ members = {Meaning(op.first), Meaning(op.second)}
                /\ \A i \in members : ~object[i].locked /\ ~OnLockedLayer(i)
<1>1. ASSUME BatchInv, [Next]_vars, NEW k \in 1 .. MaxOperations,
             object[k].kind # "group", object'[k].kind = "group"
      PROVE  Exact(k)
  <2>1. \/ object' = object
        \/ UserEdit
        \/ /\ phase = "executing" /\ Current <= Len(plan) /\ Executable(plan[Current])
           /\ \/ object' = ObjectsAfter(plan[Current], Current)
              \/ object' = ObjectsChanged(plan[Current], Current)
    BY <1>1
    DEF Next, vars, Validate, EndDryRun, StartExecution, Refuse, HostFails, Execute, Finish,
        Changes, docVars
  <2>2. CASE object' = object
    BY <1>1, <2>2
  <2>3. CASE UserEdit
    <3>1. k \in Ids /\ k \notin Existing
      BY ConstantFacts
    <3>2. PICK i \in Existing : EditOf(i)
      BY <1>1, <2>3, EditKinds
    <3>3. object'[k] = object[k]
      BY <3>1, <3>2 DEF EditOf
    <3> QED
      BY <1>1, <3>3
  <2>4. CASE /\ phase = "executing" /\ Current <= Len(plan) /\ Executable(plan[Current])
             /\ \/ object' = ObjectsAfter(plan[Current], Current)
                \/ object' = ObjectsChanged(plan[Current], Current)
    <3> DEFINE op == plan[Current]
               a == Resolved(op.first)
               b == Resolved(op.second)
               objects == ObjectsChanged(op, Current)
    <3>1. k = Current /\ op.type = "group_items"
      BY <1>1, <2>4, GroupMade
    <3>2. /\ \A i \in {a, b} : i \in Ids /\ ~object[i].locked /\ ~OnLockedLayer(i)
          /\ Resolves(op.first, PageItemKinds) /\ Resolves(op.second, PageItemKinds)
      BY <1>1, <2>4, <3>1, Grouping
    <3>3. \A i \in Ids : objects[i].container = Current <=> i \in {a, b}
      BY <1>1, <2>4, <3>1, GroupItems
    <3>4. \A i \in Ids : object'[i].container = objects[i].container
      BY <1>1, <2>4, OperationStep
    <3>5. "layer" \notin PageItemKinds
      BY DEF PageItemKinds
    <3>6. a = Meaning(op.first) /\ b = Meaning(op.second)
      BY <1>1, <2>4, <3>2, <3>5, TargetMeant
    <3> HIDE DEF objects, a, b
    <3>7. {i \in Ids : object'[i].container = k} = {a, b}
      BY <3>1, <3>2, <3>3, <3>4
    <3> QED
      BY <3>1, <3>2, <3>6, <3>7
  <2> QED
    BY <2>1, <2>2, <2>3, <2>4
<1>2. BatchInv /\ [Next]_vars
        => [\A k \in 1 .. MaxOperations :
              object[k].kind # "group" /\ object'[k].kind = "group" => Exact(k)]_vars
  BY <1>1
<1> QED
  BY <1>2, BatchInvariant, PTL DEF Spec, GroupsAreExact

\* If no operation of a validated plan groups anything or names with a
\* fingerprint what an operation before it disturbs, and no person interferes,
\* then the next operation is not refused: what those before it have done to
\* layers, pages, proxies and fingerprints does not stand in its way.
THEOREM CarefulPlansRun == Spec => []CarefulPlanRuns
<1>1. ASSUME BatchInv, phase = "executing", Current <= Len(plan), edited = NoEdit, Careful
      PROVE  Executable(plan[Current])
  <2> DEFINE op == plan[Current]
  <2>1. /\ op \in Operations /\ op.type # "group_items" /\ TargetsKnown(Current)
        /\ progress.completed \in Nat /\ Current = progress.completed + 1
        /\ Current \in 1 .. Len(plan)
        /\ \A j \in 1 .. progress.completed : j \in 1 .. Len(plan) /\ j < Current
    BY <1>1, Running DEF Careful, PlanSound
  <2>2. NoGroupUpTo(progress.completed)
    BY <1>1, <2>1 DEF NoGroupUpTo, Careful
  <2>3. \A i \in Existing :
          /\ object[i].kind = seen[i].kind
          /\ ~AsSeen(i) => \E j \in 1 .. progress.completed : i \in Disturbed(plan[j])
    BY <1>1, <2>2, Running DEF Calm
  <2>4. ASSUME NEW t \in TargetsOf(op), NEW kinds, KnownAs(t, Current, kinds)
        PROVE  Resolves(t, kinds)
    <3>1. CASE t.by = "alias"
      <4>1. PICK i \in 1 .. Current - 1 : plan[i].ref = t.ref
        BY <2>4, <3>1 DEF KnownAs
      <4>2. i \in 1 .. progress.completed
        BY <2>1
      <4>3. t.ref # None
        BY <1>1, <2>4, <3>1, Running DEF KnownAs, PlanSound, NamesUpTo
      <4>4. t.ref \in NamesUpTo(progress.completed)
        BY <4>1, <4>2, <4>3 DEF NamesUpTo
      <4>5. t.ref \in DOMAIN aliases /\ AliasSound(t.ref)
        BY <1>1, <4>4, Running DEF AliasesSound
      <4>6. /\ ProxyValid(aliases[t.ref], object)
            /\ object[aliases[t.ref].id].kind \in kinds
        BY <2>4, <3>1, <4>5 DEF AliasSound, Meant, KnownAs
      <4> QED
        BY <3>1, <4>5, <4>6 DEF Resolves
    <3>2. CASE t.by # "alias"
      <4>1. t.id \in Existing /\ t.checked \in BOOLEAN
        BY <2>1, <2>4, <3>2, OperationTargets, TargetFields
      <4>2. object[t.id].kind \in kinds
        BY <2>3, <2>4, <3>2, <4>1 DEF KnownAs
      <4>3. ASSUME t.checked, ~AsSeen(t.id)
            PROVE  FALSE
        <5>1. PICK j \in 1 .. progress.completed : t.id \in Disturbed(plan[j])
          BY <2>3, <4>1, <4>3
        <5>2. t.checked = TRUE
          BY <4>1, <4>3
        <5>3. t.id \in Names(op, TRUE)
          BY <2>4, <3>2, <5>2 DEF Names
        <5>4. Disturbed(plan[j]) \cap Names(plan[Current], TRUE) = {}
          BY <1>1, <2>1 DEF Careful
        <5> QED
          BY <5>1, <5>3, <5>4
      <4> QED
        BY <3>2, <4>2, <4>3 DEF Resolves
    <3> QED
      BY <3>1, <3>2
  <2>5. CASE op.type \in {"ensure_layer", "define_resource"}
    BY <2>5 DEF Executable
  <2>6. CASE op.type = "create_page"
    <3>1. op.after # None => Resolves(op.after, {"page"})
      BY <2>1, <2>4, <2>6, OperationTargets DEF TargetsKnown
    <3> QED
      BY <2>6, <3>1 DEF Executable
  <2>7. CASE op.type = "create_item"
    <3>1. Resolves(op.page, {"page"}) /\ (op.layer # None => Resolves(op.layer, {"layer"}))
      BY <2>1, <2>4, <2>7, OperationTargets DEF TargetsKnown
    <3> QED
      BY <2>7, <3>1 DEF Executable, LayerResolves
  <2>8. CASE op.type = "edit_item"
    <3>1. Resolves(op.target, PageItemKinds)
      BY <2>1, <2>4, <2>8, OperationTargets DEF TargetsKnown
    <3> QED
      BY <2>8, <3>1 DEF Executable
  <2>9. CASE op.type = "move_item_to_layer"
    <3>1. Resolves(op.target, PageItemKinds) /\ Resolves(op.layer, {"layer"})
      BY <2>1, <2>4, <2>9, OperationTargets DEF TargetsKnown
    <3> QED
      BY <2>9, <3>1 DEF Executable, LayerResolves
  <2> QED
    BY <2>1, <2>5, <2>6, <2>7, <2>8, <2>9, OperationFields
<1>2. BatchInv => CarefulPlanRuns
  BY <1>1 DEF CarefulPlanRuns
<1> QED
  BY <1>2, BatchInvariant, PTL
=============================================================================
