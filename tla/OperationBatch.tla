--------------------------- MODULE OperationBatch ---------------------------
(***************************************************************************)
(* A batch of operations on a document, from its validation to its report. *)
(*                                                                         *)
(* prepareOperations validates operation by operation against the document *)
(* as it is, with a table that stands in for the objects that operations   *)
(* of the batch will create.  executePreparedOperations then resolves and  *)
(* checks everything again while it executes, against the document as the  *)
(* batch has changed it.  The host may fail in any operation, and a person *)
(* may edit the document after the caller has looked at it, also while the *)
(* validation awaits a file.                                               *)
(*                                                                         *)
(* The objects are page items, groups, layers, pages and named resources   *)
(* (colors, styles).  An object that operation k creates is object k.  The *)
(* operations that change one item in place are one, edit_item, which may  *)
(* move its bounds; those that define a color or a style, whose fingerprint*)
(* is its name, are define_resource.                                       *)
(*                                                                         *)
(* Of a fingerprint the model has the kind, whether the object is locked,  *)
(* and whether its name, its bounds or its visibility have changed since   *)
(* the caller saw it; if they have, they do not become again what they     *)
(* were.  Text, fill, style and layer are not part of a fingerprint.       *)
(***************************************************************************)
EXTENDS Integers, Sequences, FiniteSets, SequencesExt

CONSTANTS
  Items,          \* Page items of the document, its groups included.
  Groups,         \* Those that are groups.
  Stacking,       \* What is on the spread and in each group, in order.
  Pages,          \* Pages of the document, a sequence; they are one spread.
  Layer,          \* The layer of the document.
  Lockable,       \* Items and layer that may be locked.
  Spread,         \* The container of what is in no group.
  Aliases,        \* Names an operation can give to its result.
  None,           \* No alias, no layer, no page.
  MaxOperations,  \* Operations in a batch; the code allows 100.
  Checks,         \* Do references have a fingerprint: TRUE, FALSE or either.
  KeepsProxies,   \* TRUE if proxies of items stay valid when they are grouped.
  HostFaults,     \* TRUE if the host may fail.
  Editable,       \* What a person may edit, once, before the execution.
  BothTroubles    \* TRUE if the host may fail after a person has edited.

PageIds == ToSet(Pages)

\* What the caller can have seen.
Existing == Items \cup PageIds \cup {Layer}

ASSUME ConstantsAssumption ==
  /\ MaxOperations \in Nat \ {0}
  /\ Existing \cap (1 .. MaxOperations) = {}
  /\ Groups \subseteq Items
  /\ Stacking \in [Groups \cup {Spread} -> Seq(Items)]
  /\ \A i \in Items : \E c \in Groups \cup {Spread} : i \in ToSet(Stacking[c])
  /\ Pages \in Seq(PageIds)
  /\ Items \cap PageIds = {} /\ Layer \notin Items \cup PageIds
  /\ Lockable \subseteq Items \cup {Layer} /\ Editable \subseteq Existing
  /\ {None, Spread} \cap (Existing \cup 1 .. MaxOperations) = {}
  /\ Checks \subseteq BOOLEAN

VARIABLES
  phase,     \* Where the batch is.
  plan,      \* The operations validated so far.
  planned,   \* aliases of prepareOperations: what validation knows of them.
  seen,      \* The objects as the caller has seen them.
  object,    \* Document: every object.
  altered,   \* Document: those whose name, bounds or visibility have changed.
  order,     \* Document: the page items of every container, in order.
  pages,     \* Document: its pages, in order.
  named,     \* Document: the layer with the second name, or None.
  aliases,   \* aliases of executePreparedOperations: proxies of objects.
  progress,  \* ExecutionProgress.
  report,    \* What the caller is told.
  changed,   \* History: the document has been changed by the batch.
  edited     \* History: what a person has changed, and whether it shows.

docVars == <<seen, object, altered, order, pages, named, changed, edited>>

vars == <<phase, plan, planned, aliases, progress, report, docVars>>

-----------------------------------------------------------------------------
(* Types.                                                                  *)

Ids == Existing \cup 1 .. MaxOperations

Kinds == {"absent", "item", "group", "layer", "page", "resource"}

PageItemKinds == {"item", "group"}

\* writer is who has changed it since the caller saw it; proxy stands for the
\* proxies handed out so far.
Objects ==
  [kind : Kinds, locked : BOOLEAN, container : Ids \cup {Spread, None},
   layer : Ids \cup {None}, writer : {"nobody", "person", "batch"}, proxy : Nat,
   labelled : BOOLEAN]

\* ObjectTarget and ResourceTarget: an alias, or an objectRef that may have a
\* fingerprint; a layer may also be named, and the name of Layer is known.
AliasTargets == [by : {"alias"}, ref : Aliases]
ReferencesTo(ids) == [by : {"object"}, id : ids, checked : Checks]
Targets == AliasTargets \cup ReferencesTo(Items)
PageTargets == AliasTargets \cup ReferencesTo(PageIds)
LayerTargets ==
  AliasTargets \cup ReferencesTo({Layer}) \cup [by : {"name"}, id : {Layer}, checked : {FALSE}]

ASSUME NoneIsNoTarget == None \notin Targets \cup LayerTargets \cup PageTargets

Operations ==
  LET ref == Aliases \cup {None}
      layer == LayerTargets \cup {None}
  IN [type : {"ensure_layer"}, ref : ref, known : BOOLEAN,
      locked : {"keep", "lock", "unlock"}, shows : {"keep", "change"}]
     \cup [type : {"define_resource"}, ref : ref]
     \cup [type : {"create_page"}, ref : ref, after : PageTargets \cup {None}]
     \cup [type : {"create_item"}, ref : ref, page : PageTargets, layer : layer]
     \cup [type : {"edit_item"}, ref : ref, target : Targets, moves : BOOLEAN]
     \cup [type : {"move_item_to_layer"}, ref : ref, target : Targets, layer : LayerTargets]
     \cup [type : {"group_items"}, ref : ref, first : Targets, second : Targets, layer : layer]

\* The targets of an operation.
TargetsOf(op) ==
  CASE op.type = "create_page" -> {op.after} \ {None}
    [] op.type = "create_item" -> {op.page, op.layer} \ {None}
    [] op.type = "edit_item" -> {op.target}
    [] op.type = "move_item_to_layer" -> {op.target, op.layer}
    [] op.type = "group_items" -> {op.first, op.second, op.layer} \ {None}
    [] OTHER -> {}

\* virtual(...): what stands for an object in the plan.
Plans ==
  [virtual : BOOLEAN, id : Ids, kind : Kinds, container : Ids \cup {Spread, None},
   locked : BOOLEAN, layerLocked : BOOLEAN]

Reports ==
  [status : {"none", "refused", "dryRun", "success", "error", "partial"},
   failed : 0 .. MaxOperations, completed : 0 .. MaxOperations]

TypeOK ==
  /\ phase \in {"preparing", "executing", "done"}
  /\ plan \in Seq(Operations) /\ Len(plan) <= MaxOperations
  /\ DOMAIN planned \subseteq Aliases /\ \A x \in DOMAIN planned : planned[x] \in Plans
  /\ seen \in [Ids -> Objects] /\ object \in [Ids -> Objects] /\ altered \subseteq Ids
  /\ pages \in Seq(PageIds \cup 1 .. MaxOperations)
  /\ DOMAIN order \subseteq Ids \cup {Spread}
  /\ named \in Ids \cup {None}
  /\ DOMAIN aliases \subseteq Aliases
  /\ \A x \in DOMAIN aliases : aliases[x] \in [id : Ids, proxy : Nat]
  /\ progress \in [mutationStarted : BOOLEAN, completed : 0 .. MaxOperations,
                   aliases : SUBSET (Aliases \X Ids)]
  /\ report \in Reports
  /\ changed \in BOOLEAN
  /\ edited \in [id : Existing \cup {None}, noticed : BOOLEAN]

NoObject ==
  [kind |-> "absent", locked |-> FALSE, container |-> None, layer |-> None,
   writer |-> "nobody", proxy |-> 0, labelled |-> FALSE]

KindAtFirst(i) ==
  CASE i \in Groups -> "group"
    [] i \in Items \ Groups -> "item"
    [] i \in PageIds -> "page"
    [] i = Layer -> "layer"

\* An object that exists before the batch.
ObjectAtFirst(i, locked) ==
  [NoObject EXCEPT
     !.kind = KindAtFirst(i),
     !.locked = locked,
     !.layer = IF i \in Items THEN Layer ELSE None,
     !.container = IF i \in Items
                   THEN CHOOSE c \in Groups \cup {Spread} : i \in ToSet(Stacking[c]) ELSE None]

NoEdit == [id |-> None, noticed |-> FALSE]

Init ==
  /\ phase = "preparing"
  /\ plan = <<>> /\ planned = <<>>
  /\ \E locked \in SUBSET Lockable :
       object = [i \in Ids |-> IF i \in Existing THEN ObjectAtFirst(i, i \in locked) ELSE NoObject]
  /\ seen = object /\ altered = {}
  /\ order = Stacking /\ pages = Pages
  /\ named = None
  /\ aliases = <<>>
  /\ progress = [mutationStarted |-> FALSE, completed |-> 0, aliases |-> {}]
  /\ report = [status |-> "none", failed |-> 0, completed |-> 0]
  /\ changed = FALSE /\ edited = NoEdit

\* table with x for the name ref, if there is one.
Bind(table, ref, x) ==
  IF ref = None THEN table
  ELSE [a \in DOMAIN table \cup {ref} |-> IF a = ref THEN x ELSE table[a]]

-----------------------------------------------------------------------------
(* The document.                                                           *)

\* fingerprintObject gives what it gave when the caller saw the object.
AsSeen(i) ==
  object[i].kind = seen[i].kind /\ object[i].locked = seen[i].locked /\ i \notin altered

\* Who is in which group.
Held(objects) ==
  {<<i, objects[i].container>> : i \in {j \in Ids : objects[j].container \in Ids}}

\* Object i and all the groups around it.
Around(held, i) ==
  LET within[n \in 0 .. Cardinality(held)] ==
        IF n = 0 THEN {i}
        ELSE LET inner == within[n - 1]
             IN inner \cup {h[2] : h \in {p \in held : p[1] \in inner}}
  IN within[Cardinality(held)]

\* The groups around object i and all that is in it: when it moves, the
\* bounds of these may change.
Kin(held, i) == {j \in Ids \ {i} : j \in Around(held, i) \/ i \in Around(held, j)}

-----------------------------------------------------------------------------
(* Validation.                                                             *)

Real(i) ==
  [virtual |-> FALSE, id |-> i, kind |-> object[i].kind,
   container |-> object[i].container, locked |-> object[i].locked,
   layerLocked |-> object[i].layer # None /\ object[object[i].layer].locked]

Virtual(k, kind) ==
  [virtual |-> TRUE, id |-> k, kind |-> kind, container |-> None,
   locked |-> FALSE, layerLocked |-> FALSE]

\* resolveTarget and resolveResource find an object, for now or for later.
Foreseen(t) ==
  IF t.by = "alias" THEN t.ref \in DOMAIN planned ELSE t.checked => AsSeen(t.id)

\* What a target stands for in the plan; what is there is looked at anew.
Foresee(t) ==
  IF t.by # "alias" THEN Real(t.id)
  ELSE IF planned[t.ref].virtual THEN planned[t.ref] ELSE Real(planned[t.ref].id)

TargetValid(t, kinds) == Foreseen(t) /\ Foresee(t).kind \in kinds

\* Mutant: anything passes for a layer.
AnythingValid(t) == t # None => Foreseen(t)

LayerValid(t) == t # None => TargetValid(t, {"layer"})

LayerLocked(t) == t # None /\ Foresee(t).locked

\* Two targets are not the same object.
DistinctTargets(op) ==
  LET a == Foresee(op.first)
      b == Foresee(op.second)
  IN <<a.virtual, a.id>> # <<b.virtual, b.id>>

\* assertGroupableTargets on the plan.
GroupingValid(op) ==
  LET both == {Foresee(op.first), Foresee(op.second)}
  IN /\ DistinctTargets(op)
     /\ \A p \in both : ~p.locked /\ ~p.layerLocked
     /\ Foresee(op.first).container = Foresee(op.second).container
     /\ \A p \in both : p.container # None
     /\ ~LayerLocked(op.layer)

\* validateOperation does not throw.
OperationValid(op) ==
  CASE op.type \in {"ensure_layer", "define_resource"} -> TRUE
    [] op.type = "create_page" -> op.after # None => TargetValid(op.after, {"page"})
    [] op.type = "create_item" -> TargetValid(op.page, {"page"}) /\ LayerValid(op.layer)
    [] op.type = "edit_item" -> TargetValid(op.target, PageItemKinds)
    [] op.type = "move_item_to_layer" ->
         TargetValid(op.target, PageItemKinds) /\ LayerValid(op.layer)
    [] op.type = "group_items" ->
         /\ TargetValid(op.first, PageItemKinds) /\ TargetValid(op.second, PageItemKinds)
         /\ LayerValid(op.layer)
         /\ GroupingValid(op)

\* The layer that ensure_layer names, if it is there.
NamedLayer(op) == IF op.known THEN Layer ELSE named

\* What validateOperation returns for operation k.
Produced(op, k) ==
  CASE op.type = "ensure_layer" ->
         [Virtual(k, "layer") EXCEPT !.locked =
            \/ op.locked = "lock"
            \/ op.locked = "keep" /\ NamedLayer(op) # None /\ object[NamedLayer(op)].locked]
    [] op.type = "define_resource" -> Virtual(k, "resource")
    [] op.type = "create_page" -> Virtual(k, "page")
    [] op.type = "create_item" ->
         [Virtual(k, "item") EXCEPT
            !.container = IF Foresee(op.page).virtual THEN None ELSE Spread,
            !.layerLocked = LayerLocked(op.layer)]
    [] op.type \in {"edit_item", "move_item_to_layer"} -> Foresee(op.target)
    [] op.type = "group_items" ->
         [Virtual(k, "group") EXCEPT !.container = Foresee(op.first).container,
                                     !.layerLocked = LayerLocked(op.layer)]

\* An alias that is declared twice is refused.
AliasFree(op) == op.ref # None => op.ref \notin DOMAIN planned

Validate(op) ==
  /\ phase = "preparing"
  /\ Len(plan) < MaxOperations
  /\ IF AliasFree(op) /\ OperationValid(op)
     THEN /\ plan' = Append(plan, op)
          /\ planned' = Bind(planned, op.ref, Produced(op, Len(plan) + 1))
          /\ UNCHANGED <<phase, report>>
     ELSE /\ phase' = "done"
          /\ report' = [report EXCEPT !.status = "refused"]
          /\ UNCHANGED <<plan, planned>>
  /\ UNCHANGED <<docVars, aliases, progress>>

\* A person edits the document before the batch is executed: locks, unlocks,
\* moves or renames something, which shows in its fingerprint and possibly in
\* that of others, changes text, fill, style or layer of an item, which does
\* not, or deletes an item with all that is in it.
UserEdit ==
  /\ edited = NoEdit
  /\ phase = "preparing"
  /\ \/ \E i \in Lockable \cap Editable :
          /\ object' = [object EXCEPT ![i].locked = ~@]
          /\ edited' = [id |-> i, noticed |-> TRUE]
          /\ UNCHANGED <<altered, order>>
     \/ \E i \in Editable :
          LET others == IF i \in PageIds THEN PageIds \ {i} ELSE Kin(Held(object), i)
          IN /\ object' = [object EXCEPT ![i].writer = "person"]
             /\ \E along \in SUBSET others : altered' = altered \cup {i} \cup along
             /\ edited' = [id |-> i, noticed |-> TRUE]
             /\ UNCHANGED order
     \/ \E i \in Items \cap Editable :
          /\ object' = [object EXCEPT ![i].writer = "person"]
          /\ edited' = [id |-> i, noticed |-> FALSE]
          /\ UNCHANGED <<altered, order>>
     \/ \E i \in {j \in Items \cap Editable : object[j].container = Spread} :
          LET gone == {j \in Items : j = i \/ i \in Around(Held(object), j)}
          IN /\ object' = [j \in Ids |-> IF j \in gone THEN NoObject ELSE object[j]]
             /\ order' = [order EXCEPT ![Spread] = SelectSeq(@, LAMBDA x : x # i)]
             /\ edited' = [id |-> i, noticed |-> TRUE]
             /\ UNCHANGED altered
  /\ UNCHANGED <<phase, plan, planned, seen, pages, named, aliases, progress, report, changed>>

\* A dry run ends here, any other batch is executed.
EndDryRun ==
  /\ phase = "preparing"
  /\ plan # <<>>
  /\ phase' = "done"
  /\ report' = [report EXCEPT !.status = "dryRun"]
  /\ UNCHANGED <<plan, planned, docVars, aliases, progress>>

StartExecution ==
  /\ phase = "preparing"
  /\ plan # <<>>
  /\ phase' = "executing"
  /\ UNCHANGED <<plan, planned, docVars, aliases, progress, report>>

-----------------------------------------------------------------------------
(* Execution: what is resolved and checked again.                          *)

\* The number of the operation that is next.
Current == progress.completed + 1

\* A proxy can be used.
ProxyValid(p, objects) == KeepsProxies \/ objects[p.id].proxy = p.proxy

\* Mutant: the fingerprint of a reference is not compared.
ResolvesUnchecked(t, kinds) ==
  IF t.by = "alias"
  THEN /\ t.ref \in DOMAIN aliases
       /\ ProxyValid(aliases[t.ref], object)
       /\ object[aliases[t.ref].id].kind \in kinds
  ELSE object[t.id].kind \in kinds

\* resolveTarget and resolveResource, with resolveObject.
Resolves(t, kinds) ==
  IF t.by = "alias"
  THEN /\ t.ref \in DOMAIN aliases
       /\ ProxyValid(aliases[t.ref], object)
       /\ object[aliases[t.ref].id].kind \in kinds
  ELSE object[t.id].kind \in kinds /\ (t.checked => AsSeen(t.id))

Resolved(t) == IF t.by = "alias" THEN aliases[t.ref].id ELSE t.id

LayerResolves(t) == t # None => Resolves(t, {"layer"})

OnLockedLayer(i) == object[i].layer # None /\ object[object[i].layer].locked

Positions(items, chosen) == {i \in 1 .. Len(items) : items[i] \in chosen}

\* The items from the first to the last that are chosen.
Span(items, chosen) ==
  {items[i] : i \in {n \in 1 .. Len(items) :
     \E p, q \in Positions(items, chosen) : p <= n /\ n <= q}}

\* Mutant: the range may hold other items.
InRange(items, chosen) == chosen \subseteq ToSet(items)

\* documentedGroupingSpecifier: the chosen are one range of their container.
ExactRange(items, chosen) == chosen \subseteq ToSet(items) /\ Span(items, chosen) = chosen

\* assertGroupableTargets and documentedGroupingSpecifier on the document.
Groupable(op) ==
  LET a == Resolved(op.first)
      b == Resolved(op.second)
  IN /\ a # b
     /\ \A i \in {a, b} : ~object[i].locked /\ ~OnLockedLayer(i)
     /\ object[a].container = object[b].container
     /\ op.layer # None => ~object[Resolved(op.layer)].locked
     /\ ExactRange(order[object[a].container], {a, b})

\* executeOperation does not refuse the operation.
Executable(op) ==
  CASE op.type \in {"ensure_layer", "define_resource"} -> TRUE
    [] op.type = "create_page" -> op.after # None => Resolves(op.after, {"page"})
    [] op.type = "create_item" -> Resolves(op.page, {"page"}) /\ LayerResolves(op.layer)
    [] op.type = "edit_item" -> Resolves(op.target, PageItemKinds)
    [] op.type = "move_item_to_layer" ->
         Resolves(op.target, PageItemKinds) /\ LayerResolves(op.layer)
    [] op.type = "group_items" ->
         /\ Resolves(op.first, PageItemKinds) /\ Resolves(op.second, PageItemKinds)
         /\ LayerResolves(op.layer)
         /\ Groupable(op)

-----------------------------------------------------------------------------
(* Execution: what an operation does to the document.                      *)

\* What group_items groups: the range from the one target to the other.
Members(op) ==
  LET a == Resolved(op.first)
  IN Span(order[object[a].container], {a, Resolved(op.second)})

\* The object an operation returns.
ResultOf(op, k) ==
  CASE op.type = "ensure_layer" -> IF NamedLayer(op) = None THEN k ELSE NamedLayer(op)
    [] op.type \in {"edit_item", "move_item_to_layer"} -> Resolved(op.target)
    [] OTHER -> k

\* The layer of something new: the one that is named, or the active one.
LayerOf(t) == IF t = None THEN Layer ELSE Resolved(t)

\* Where something new on a page is; a page of the batch has its own spread.
ContainerOn(page) == IF Resolved(page) \in PageIds THEN Spread ELSE None

\* The objects that operation k has changed.
ObjectsChanged(op, k) ==
  LET r == ResultOf(op, k)
      into(i) == [object[i] EXCEPT !.container = k, !.labelled = TRUE, !.proxy = @ + 1]
  IN CASE op.type = "ensure_layer" ->
            [object EXCEPT ![r].kind = "layer",
                           ![r].locked = IF op.locked = "keep" THEN @ ELSE op.locked = "lock"]
       [] op.type = "define_resource" -> [object EXCEPT ![r].kind = "resource"]
       [] op.type = "create_page" -> [object EXCEPT ![r].kind = "page"]
       [] op.type = "create_item" ->
            [object EXCEPT ![r] = [NoObject EXCEPT !.kind = "item", !.layer = LayerOf(op.layer),
                                                   !.container = ContainerOn(op.page)]]
       [] op.type = "edit_item" -> [object EXCEPT ![r].writer = "batch"]
       [] op.type = "move_item_to_layer" -> [object EXCEPT ![r].layer = Resolved(op.layer)]
       [] op.type = "group_items" ->
            [i \in Ids |->
               CASE i \in Members(op) -> into(i)
                 [] i = k -> [NoObject EXCEPT !.kind = "group", !.layer = LayerOf(op.layer),
                                !.container = object[Resolved(op.first)].container]
                 [] OTHER -> object[i]]

\* The object that an operation returns is given its label.
ObjectsAfter(op, k) == [ObjectsChanged(op, k) EXCEPT ![ResultOf(op, k)].labelled = TRUE]

\* The pages behind a page, which are numbered anew when one is put after it.
Behind(page) ==
  {pages[n] : n \in {m \in 1 .. Len(pages) : \E l \in 1 .. m - 1 : pages[l] = page}} \ {page}

\* What certainly looks different after operation k, and what may.
Alters(op, k) ==
  IF \/ op.type = "edit_item" /\ op.moves
     \/ op.type = "ensure_layer" /\ op.shows = "change"
  THEN {ResultOf(op, k)} ELSE {}

Alongside(op) ==
  CASE op.type = "edit_item" /\ op.moves -> Kin(Held(object), Resolved(op.target))
    [] op.type = "create_page" /\ op.after # None -> Behind(Resolved(op.after))
    [] OTHER -> {}

\* A page is added after another, or at the end.
PagesAfter(op, k) ==
  IF op.type # "create_page" THEN pages
  ELSE IF op.after = None THEN Append(pages, k)
  ELSE LET n == CHOOSE m \in 1 .. Len(pages) : pages[m] = Resolved(op.after)
       IN InsertAt(pages, n + 1, k)

\* A group takes the place of its members.
OrderAfter(op, k) ==
  CASE op.type = "create_item" ->
         IF ContainerOn(op.page) = None THEN order ELSE [order EXCEPT ![Spread] = <<k>> \o @]
    [] op.type = "group_items" ->
         LET a == Resolved(op.first)
             c == object[a].container
         IN [x \in DOMAIN order \cup {k} |->
               CASE x = k -> SelectSeq(order[c], LAMBDA i : i \in Members(op))
                 [] x = c -> SelectSeq([i \in 1 .. Len(order[c]) |->
                                          IF order[c][i] = a THEN k ELSE order[c][i]],
                                       LAMBDA i : i \notin Members(op))
                 [] OTHER -> order[x]]
    [] OTHER -> order

\* The layer with the second name after the operation.
NamedAfter(op, k) ==
  IF op.type = "ensure_layer" /\ ~op.known THEN ResultOf(op, k) ELSE named

\* Mutant: members are taken in the order of the group.
ReconciledInOrder(op, objects) ==
  IF op.type # "group_items" THEN aliases
  ELSE LET members == order'[Current]
           fresh(i) == [id |-> i, proxy |-> objects[i].proxy]
           byName(t) == [by |-> "alias", ref |-> t]
       IN [x \in DOMAIN aliases |->
             CASE op.first = byName(x) -> fresh(members[1])
               [] op.second = byName(x) -> fresh(members[2])
               [] OTHER -> aliases[x]]

\* reconcileGroupedTargetAliases: the aliases by which the members of a group
\* were named get the proxies of those members in the group.
Reconciled(op, objects) ==
  IF op.type # "group_items" THEN aliases
  ELSE [x \in DOMAIN aliases |->
          IF [by |-> "alias", ref |-> x] \in {op.first, op.second}
          THEN [aliases[x] EXCEPT !.proxy = objects[aliases[x].id].proxy] ELSE aliases[x]]

\* The alias table after the operation.
AliasesAfter(op, k, objects) ==
  LET r == ResultOf(op, k)
  IN Bind(Reconciled(op, objects), op.ref, [id |-> r, proxy |-> objects[r].proxy])

-----------------------------------------------------------------------------
(* Execution: the steps.                                                   *)

\* Mutant: the operation is numbered from one.
FailureNumbered(started, completed, k) ==
  [status |-> IF started THEN "partial" ELSE "error", failed |-> k + 1, completed |-> completed]

\* How a batch that stops in operation k is reported.
Failure(started, completed, k) ==
  [status |-> IF started THEN "partial" ELSE "error", failed |-> k, completed |-> completed]

\* The report when operation k is refused.
Refused(k) == Failure(progress.mutationStarted, progress.completed, k)

\* An operation is refused before it does anything.
Refuse ==
  /\ phase = "executing"
  /\ Current <= Len(plan)
  /\ ~Executable(plan[Current])
  /\ phase' = "done"
  /\ report' = Refused(Current)
  /\ UNCHANGED <<plan, planned, docVars, aliases, progress>>

\* Mutant: the flag is raised when the operation has succeeded.
MarkedLate == progress.mutationStarted

\* markMutation comes before the first change of an operation.
Marked == TRUE

\* Operation k changes the document, whose objects it leaves as given.
Changes(op, k, objects) ==
  /\ object' = objects
  /\ \E touched \in SUBSET Alongside(op) : altered' = altered \cup Alters(op, k) \cup touched
  /\ order' = OrderAfter(op, k)
  /\ pages' = PagesAfter(op, k)
  /\ named' = NamedAfter(op, k)
  /\ changed' = TRUE
  /\ UNCHANGED <<seen, edited>>

\* The host fails in an operation: before it is marked, before its change,
\* before its result has a label, or before the operation is counted; or when
\* it has been counted and the references of the aliases are taken anew.
HostFails ==
  LET op == plan[Current]
      k == Current
      stop(done) ==
        /\ progress' = [progress EXCEPT !.mutationStarted = Marked, !.completed = done]
        /\ report' = Failure(progress'.mutationStarted, done, k)
  IN /\ HostFaults /\ (edited = NoEdit \/ BothTroubles)
     /\ phase = "executing"
     /\ k <= Len(plan)
     /\ Executable(op)
     /\ phase' = "done"
     /\ \/ report' = Refused(k) /\ UNCHANGED <<progress, docVars>>
        \/ stop(progress.completed) /\ UNCHANGED docVars
        \/ stop(progress.completed) /\ Changes(op, k, ObjectsChanged(op, k))
        \/ \E done \in {progress.completed, k} : stop(done) /\ Changes(op, k, ObjectsAfter(op, k))
     /\ UNCHANGED <<plan, planned, aliases>>

\* Every alias has a proxy that can be used.
Refreshable(table, objects) == \A x \in DOMAIN table : ProxyValid(table[x], objects)

\* An operation is executed; then the references of all aliases are taken
\* anew, which fails if one of them has lost its proxy.
Execute ==
  LET op == plan[Current]
      k == Current
  IN /\ phase = "executing"
     /\ k <= Len(plan)
     /\ Executable(op)
     /\ Changes(op, k, ObjectsAfter(op, k))
     /\ aliases' = AliasesAfter(op, k, object')
     /\ IF Refreshable(aliases', object')
        THEN /\ progress' = [mutationStarted |-> TRUE, completed |-> k,
                             aliases |-> {<<x, aliases'[x].id>> : x \in DOMAIN aliases'}]
             /\ UNCHANGED <<phase, report>>
        ELSE /\ progress' = [progress EXCEPT !.mutationStarted = TRUE, !.completed = k]
             /\ phase' = "done"
             /\ report' = Failure(TRUE, k, k)
     /\ UNCHANGED <<plan, planned>>

Finish ==
  /\ phase = "executing"
  /\ Current > Len(plan)
  /\ phase' = "done"
  /\ report' = [report EXCEPT !.status = "success", !.completed = progress.completed]
  /\ UNCHANGED <<plan, planned, docVars, aliases, progress>>

-----------------------------------------------------------------------------

Next ==
  \/ \E op \in Operations : Validate(op)
  \/ UserEdit \/ EndDryRun \/ StartExecution
  \/ Refuse \/ HostFails \/ Execute \/ Finish

Spec == Init /\ [][Next]_vars

-----------------------------------------------------------------------------
(* Properties.                                                             *)

\* A caller who is told of a refusal, a dry run or an error without partial
\* changes has the document as it was, wherever the batch stopped.
UnchangedAsReported ==
  report.status \in {"refused", "dryRun", "error"} => ~changed

\* What an alias stands for in the plan.
Meant(x, i) ==
  /\ object[i].kind = planned[x].kind
  /\ planned[x].kind # "layer" => i = planned[x].id

\* An alias denotes what the validated plan means by it, through operations
\* that replace the proxies of its object, as long as the batch runs; and
\* its proxy can be used.
AliasesHold ==
  phase = "executing" =>
    \A x \in DOMAIN aliases : /\ Meant(x, aliases[x].id)
                               /\ ProxyValid(aliases[x], object)

\* Every reference in a report, also that of a batch that stopped, is to an
\* object that is there, has its label, and is the one the plan means.
ReportedReferencesHold ==
  report.status \in {"success", "partial"} =>
    \A r \in progress.aliases : object[r[2]].labelled /\ Meant(r[1], r[2])

\* The objects that an operation names by reference or name, with a
\* fingerprint or without one.
Names(op, checked) ==
  {t.id : t \in {s \in TargetsOf(op) : s.by # "alias" /\ s.checked = checked}}
  \cup (IF op.type = "ensure_layer" /\ op.known /\ ~checked THEN {Layer} ELSE {})

\* A person has changed something that shows in its fingerprint, and the
\* batch names it nowhere without one.
Protected ==
  /\ edited.noticed
  /\ \A j \in 1 .. Len(plan) : edited.id \notin Names(plan[j], FALSE)

\* What a person changed or deleted after the caller saw it is left alone by
\* the batch, by whatever name its operations reach it, if the change shows in
\* the fingerprint and no reference comes without one.  As part of a group or
\* as a page behind a new one it may still move.
NoticedEditUntouched ==
  [][phase = "executing" /\ Protected => object'[edited.id] = object[edited.id]]_vars

\* What a target stands for in a plan that holds.
Meaning(t) == IF t.by = "alias" THEN planned[t.ref].id ELSE t.id

\* A group that is made holds the two targets the plan names and nothing
\* else, although the host is given a range of positions; and none of them
\* was locked or on a locked layer.
GroupsAreExact ==
  [][\A k \in 1 .. MaxOperations :
       object[k].kind # "group" /\ object'[k].kind = "group" =>
         LET op == plan[k]
             members == {i \in Ids : object'[i].container = k}
         IN /\ members = {Meaning(op.first), Meaning(op.second)}
            /\ \A i \in members : ~object[i].locked /\ ~OnLockedLayer(i)]_vars

\* The objects that look different, or may, when an operation has been done.
Disturbed(op) ==
  CASE op.type = "ensure_layer" ->
         IF op.known /\ (op.locked # "keep" \/ op.shows = "change") THEN {Layer} ELSE {}
    [] op.type = "create_page" -> IF op.after = None THEN {} ELSE PageIds \ {Meaning(op.after)}
    [] op.type = "edit_item" /\ op.moves -> {Meaning(op.target)} \cup Kin(Held(seen), Meaning(op.target))
    [] OTHER -> {}

\* A plan without groups in which no operation names, with a fingerprint, what
\* an operation before it disturbs.
Careful ==
  /\ \A i \in 1 .. Len(plan) : plan[i].type # "group_items"
  /\ \A i, j \in 1 .. Len(plan) : i < j => Disturbed(plan[i]) \cap Names(plan[j], TRUE) = {}

\* Unless a person interferes, the next operation of a batch that was
\* validated and is careful can be executed, after all that the operations
\* before it have done to layers, proxies and fingerprints.
CarefulPlanRuns ==
  phase = "executing" /\ Current <= Len(plan) /\ edited = NoEdit /\ Careful
    => Executable(plan[Current])

\* The same of every batch that was validated.
ValidatedPlanRuns ==
  phase = "executing" /\ Current <= Len(plan) /\ edited = NoEdit
    => Executable(plan[Current])

=============================================================================
