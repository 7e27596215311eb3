-------------------------- MODULE TaskBoard_proofs --------------------------
(* Proofs about TaskBoard for every number of agents, kinds, ids and       *)
(* bounds.                                                                 *)
EXTENDS TaskBoard, TLAPS

----------------------------------------------------------------------------
(* Type correctness.                                                       *)

\* A new item is an item, when it is given item fields.
LEMMA NewItemType ==
  ASSUME NEW st \in STATUSES, NEW par \in Id \cup {NoItem},
         NEW ds \in SUBSET Ref, NEW owner \in Owner, NEW traits \in Traits
  PROVE  NewItem(st, par, ds, owner, traits) \in Item
BY BoundsAssumption, InputsAssumption DEF NewItem, Item, Owner, AGES

\* The ids that atomize gives out are not in use.
LEMMA FreshTasksAreNew ==
  ASSUME NEW its, NEW n \in Nat, NEW kids, FreshTasks(its, n, kids),
         "task" \in Kinds
  PROVE  kids \cap DOMAIN its = {}
PROOF
  <1>1. MaxSerial["task"] \in Nat
    BY BoundsAssumption
  <1>2. PICK base \in 0..MaxSerial["task"] :
            /\ LastSerial(its, "task", base)
            /\ base + n <= MaxSerial["task"]
            /\ kids = {<<"task", base + j>> : j \in 1..n}
    BY DEF FreshTasks
  <1>3. ASSUME NEW j \in 1..n, <<"task", base + j>> \in DOMAIN its PROVE FALSE
    <2>1. base + j \in 1..MaxSerial["task"] /\ base + j > base
      BY <1>1, <1>2
    <2> QED
      BY <2>1, <1>1, <1>2, <1>3 DEF LastSerial
  <1> QED
    BY <1>2, <1>3

\* Replacing one item by an item keeps the type.
LEMMA EditType ==
  ASSUME TypeOK, NEW i \in DOMAIN items, NEW it \in Item,
         items' = [items EXCEPT ![i] = it], archive' = archive
  PROVE  TypeOK'
BY DEF TypeOK

\* A cooldown that starts or ends changes one Boolean field of an item.
LEMMA CoolingType ==
  ASSUME NEW it \in Item, NEW b \in BOOLEAN
  PROVE  [it EXCEPT !.cooling = b] \in Item
BY DEF Item

\* A failed validation of an item below the bound leaves an item.
LEMMA FailedType ==
  ASSUME TypeOK, NEW i \in DOMAIN items, NEW who \in Agents,
         items[i].failures < MaxFailures
  PROVE  Failed(items, i, who) \in [DOMAIN items -> Item]
PROOF
  <1> DEFINE st == IF items[i].failures + 1 >= MAX_FAILURES_BEFORE_ESCALATION
                   THEN "escalated" ELSE "pending"
             it == [items[i] EXCEPT !.failures = items[i].failures + 1,
                                    !.validatedBy = who, !.status = st]
  <1>1. items[i].failures + 1 \in 0..MaxFailures
    BY BoundsAssumption DEF TypeOK, Item
  <1>2. st \in STATUSES
    BY DEF STATUSES
  <1>3. it \in Item
    <2>1. items[i] \in Item /\ who \in Owner
      BY DEF TypeOK, Owner
    <2> HIDE DEF st
    <2> QED
      BY <1>1, <1>2, <2>1 DEF Item
  <1>4. Failed(items, i, who) = [items EXCEPT ![i] = it]
    BY DEF Failed
  <1> HIDE DEF it
  <1> QED
    BY <1>3, <1>4 DEF TypeOK

\* A new dependency of link, one less of unlink: the dependencies of one
\* item change.
LEMMA LinksEffect ==
  ASSUME TypeOK, NEW d \in Ref,
         (\E i \in Ref : Link(i, d)) \/ (\E i \in Id : Unlink(i, d))
  PROVE  \E j \in DOMAIN items, ds \in SUBSET Ref :
            /\ ds \subseteq (items[j].deps \cup {d})
            /\ ds \subseteq items[j].deps \/ d[1] \in DOMAIN items
            /\ items' = [items EXCEPT ![j] = [items[j] EXCEPT !.deps = ds]]
            /\ archive' = archive
PROOF
  <1>1. CASE \E i \in Ref : Link(i, d)
    <2>1. PICK i \in Ref : Link(i, d)
      BY <1>1
    <2>2. /\ i[1] \in DOMAIN items /\ d[1] \in DOMAIN items /\ archive' = archive
          /\ items' = [items EXCEPT ![i[1]].deps = items[i[1]].deps \cup {d}]
      BY <2>1 DEF Link
    <2>3. items[i[1]].deps \cup {d} \in SUBSET Ref
      BY <2>2 DEF TypeOK, Item
    <2> DEFINE j == i[1]
               ds == items[j].deps \cup {d}
    <2>4. items' = [items EXCEPT ![j] = [items[j] EXCEPT !.deps = ds]]
      BY <2>2
    <2> QED
      BY <2>2, <2>3, <2>4
  <1>2. CASE \E i \in Id : Unlink(i, d)
    <2>1. PICK i \in Id : Unlink(i, d)
      BY <1>2
    <2> DEFINE ds == items[i].deps \ {d}
    <2>2. /\ i \in DOMAIN items /\ archive' = archive
          /\ items' = [items EXCEPT ![i] = [items[i] EXCEPT !.deps = ds]]
      BY <2>1 DEF Unlink
    <2>3. ds \in SUBSET Ref
      BY <2>2 DEF TypeOK, Item
    <2> QED
      BY <2>2, <2>3
  <1> QED
    BY <1>1, <1>2

\* The same, seen from the links.
LEMMA LinksGraph ==
  ASSUME TypeOK, NEW d \in Ref,
         (\E i \in Ref : Link(i, d)) \/ (\E i \in Id : Unlink(i, d))
  PROVE  /\ DOMAIN items' = DOMAIN items /\ archive' = archive
         /\ \A x \in DOMAIN items :
               /\ items'[x].parent = items[x].parent
               /\ items'[x].children = items[x].children
               /\ items'[x].deps \subseteq (items[x].deps \cup {d})
               /\ items'[x].deps \subseteq items[x].deps \/ d[1] \in DOMAIN items
PROOF
  <1>1. PICK j \in DOMAIN items, ds \in SUBSET Ref :
            /\ ds \subseteq (items[j].deps \cup {d})
            /\ ds \subseteq items[j].deps \/ d[1] \in DOMAIN items
            /\ items' = [items EXCEPT ![j] = [items[j] EXCEPT !.deps = ds]]
            /\ archive' = archive
    BY LinksEffect
  <1>2. \A x \in DOMAIN items : items[x] \in Item
    BY DEF TypeOK
  <1>3. /\ [items[j] EXCEPT !.deps = ds].parent = items[j].parent
        /\ [items[j] EXCEPT !.deps = ds].children = items[j].children
        /\ [items[j] EXCEPT !.deps = ds].deps = ds
    BY <1>2 DEF Item
  <1>4. /\ DOMAIN items' = DOMAIN items
        /\ items'[j] = [items[j] EXCEPT !.deps = ds]
        /\ \A x \in DOMAIN items \ {j} : items'[x] = items[x]
    BY <1>1
  <1> QED
    BY <1>1, <1>3, <1>4

\* Subtasks under an item keep the type.
LEMMA SubtasksType ==
  ASSUME NEW its, DOMAIN its \subseteq Id, its \in [DOMAIN its -> Item],
         NEW i \in DOMAIN its, NEW kids \in SUBSET Id,
         NEW owner \in Owner, NEW traits \in Traits
  PROVE  /\ DOMAIN WithSubtasks(its, i, kids, owner, traits) = DOMAIN its \cup kids
         /\ WithSubtasks(its, i, kids, owner, traits) \in [DOMAIN its \cup kids -> Item]
PROOF
  <1>1. ASSUME NEW x \in kids
        PROVE  NewItem("pending", i, {}, owner, traits) \in Item
    BY NewItemType DEF STATUSES
  <1>2. [its[i] EXCEPT !.children = @ \cup kids] \in Item
    BY DEF Item
  <1> QED
    BY <1>1, <1>2 DEF WithSubtasks

\* Every step keeps the type.
LEMMA TypeStep ==
  ASSUME TypeOK, [Next]_vars
  PROVE  TypeOK'
PROOF
  <1> USE DEF TypeOK
  <1>1. CASE UNCHANGED vars
    BY <1>1 DEF vars
  <1>2. ASSUME NEW k \in Kinds, NEW par \in Id \cup {NoItem}, NEW ds \in SUBSET Ref,
               NEW owner \in Owner, NEW traits \in Traits, NEW st \in InitialStatuses,
               NEW force \in Overrides, Add(k, par, ds, owner, traits, st, force)
        PROVE  TypeOK'
    <2>1. PICK n \in 1..MaxSerial[k] :
             items' = [x \in DOMAIN items \cup {<<k, n>>} |->
                          IF x = <<k, n>> THEN NewItem(st, par, ds, owner, traits)
                          ELSE IF x = par
                               THEN [items[x] EXCEPT !.children = @ \cup {<<k, n>>}]
                          ELSE items[x]]
      BY <1>2 DEF Add
    <2>2. <<k, n>> \in Id
      BY DEF Id
    <2>3. NewItem(st, par, ds, owner, traits) \in Item
      BY NewItemType, InputsAssumption
    <2>4. ASSUME NEW x \in DOMAIN items
          PROVE  [items[x] EXCEPT !.children = @ \cup {<<k, n>>}] \in Item
      BY <2>2 DEF Item
    <2> QED
      BY <1>2, <2>1, <2>2, <2>3, <2>4 DEF Add
  <1>3. ASSUME NEW i \in Id, Delete(i) PROVE TypeOK'
    <2>1. ASSUME NEW x \in DOMAIN items
          PROVE [items[x] EXCEPT
                      !.children = @ \ {i},
                      !.deps     = @ \ {<<i, AsIssued>>},
                      !.parent   = IF x \in items[i].children THEN NoItem
                                   ELSE @] \in Item
      <3> DEFINE parent == IF x \in items[i].children THEN NoItem ELSE items[x].parent
      <3>1. items[x] \in Item
        BY DEF TypeOK
      <3>2. parent \in Id \cup {NoItem}
        BY <3>1 DEF Item
      <3>3. [items[x] EXCEPT !.children = @ \ {i}, !.deps = @ \ {<<i, AsIssued>>}, !.parent = parent] \in Item
        BY <3>1, <3>2 DEF Item, parent
      <3> QED
        BY <3>3 DEF parent
    <2> QED
      BY <1>3, <2>1 DEF Delete
  <1>4. ASSUME NEW d \in Ref,
               (\E i \in Ref : Link(i, d)) \/ (\E i \in Id : Unlink(i, d))
        PROVE  TypeOK'
    <2>1. PICK j \in DOMAIN items, ds \in SUBSET Ref :
              /\ items' = [items EXCEPT ![j] = [items[j] EXCEPT !.deps = ds]]
              /\ archive' = archive
      BY <1>4, LinksEffect
    <2>2. [items[j] EXCEPT !.deps = ds] \in Item
      BY <2>1 DEF Item
    <2> QED
      BY <2>1, <2>2, EditType
  <1>5. ASSUME NEW i \in Id, NEW n \in 1..MaxSubtasks, NEW owner \in Owner,
               NEW traits \in Traits,
               Atomize(i, n, owner, traits) \/ AtomizeKilled(i, n, owner, traits)
        PROVE  TypeOK'
    <2>1. i \in DOMAIN items /\ archive' = archive
      BY <1>5 DEF Atomize, AtomizeKilled
    <2>2. PICK kids \in SUBSET Id :
             \/ items' = [WithSubtasks(items, i, kids, owner, traits) EXCEPT ![i].status = "deferred"]
             \/ items' = WithSubtasks(items, i, kids, owner, traits)
      BY <1>5 DEF Atomize, AtomizeKilled
    <2> DEFINE w == WithSubtasks(items, i, kids, owner, traits)
    <2>3. DOMAIN w = DOMAIN items \cup kids /\ w \in [DOMAIN w -> Item]
      <3>1. DOMAIN items \subseteq Id /\ items \in [DOMAIN items -> Item]
        BY DEF TypeOK
      <3>2. owner \in Owner /\ traits \in Traits /\ kids \in SUBSET Id
        BY <1>5
      <3> HIDE DEF w
      <3>3. DOMAIN WithSubtasks(items, i, kids, owner, traits) = DOMAIN items \cup kids
        BY DEF WithSubtasks
      <3>4. WithSubtasks(items, i, kids, owner, traits)
              \in [DOMAIN items \cup kids -> Item]
        BY <2>1, <3>1, <3>2, SubtasksType
      <3> QED
        BY <3>3, <3>4 DEF w
    <2>4. [w[i] EXCEPT !.status = "deferred"] \in Item
      BY <2>1, <2>3 DEF Item, STATUSES
    <2> HIDE DEF w
    <2>5. [w EXCEPT ![i].status = "deferred"] \in [DOMAIN w -> Item]
      BY <2>3, <2>4
    <2>6. items' \in [DOMAIN w -> Item]
      BY <2>2, <2>3, <2>5 DEF w
    <2> QED
      BY <2>1, <2>3, <2>6
  <1>6. ASSUME NEW S \in SUBSET Id, Archive(S) \/ ArchiveKilled(S)
        PROVE  TypeOK'
    <2>1. Archived(S) \in [DOMAIN archive \cup S -> Item]
      BY <1>6 DEF Archived, Archive, ArchiveKilled, Archivable
    <2>2. ASSUME NEW x \in DOMAIN items
          PROVE  [items[x] EXCEPT !.children = @ \ S] \in Item
      BY DEF Item
    <2>3. DOMAIN archive' = DOMAIN archive \cup S /\ archive' = Archived(S)
      BY <1>6 DEF Archive, ArchiveKilled, Archived
    <2>4. CASE Archive(S)
      BY <2>1, <2>2, <2>3, <2>4 DEF Archive
    <2>5. CASE ArchiveKilled(S)
      BY <2>1, <2>3, <2>5 DEF ArchiveKilled
    <2> QED
      BY <1>6, <2>4, <2>5
  <1>7. CASE Lifecycle
    <2>1. ASSUME NEW i \in Id, NEW st \in STATUSES, NEW owner \in Owner,
                 NEW val \in Owner, NEW traits \in Traits,
                 Update(i, st, owner, val, traits)
          PROVE  TypeOK'
      <3>1. i \in DOMAIN items /\ traits \in SUBSET TRAITS
        BY <2>1, InputsAssumption DEF Update
      <3>2. [items[i] EXCEPT !.status = st, !.assigned = owner, !.validatedBy = val,
                             !.traits = traits] \in Item
        BY <3>1 DEF Item
      <3> QED
        BY <2>1, <3>1, <3>2 DEF Update
    <2>2. ASSUME NEW i \in Id, NEW who \in Agents, Assign(i, who) \/ Claim(i, who)
          PROVE  TypeOK'
      BY <2>2 DEF Assign, Claim, Item, Owner, STATUSES, AGES
    <2>3. ASSUME NEW i \in Id, NEW written \in Writings, Rpetd(i, written)
          PROVE  TypeOK'
      <3>1. /\ i \in DOMAIN items /\ written \in SUBSET EVIDENCE
            /\ items[i].evidence \cup written \in SUBSET EVIDENCE
        BY <2>3, InputsAssumption DEF Rpetd, Item
      <3>2. [items[i] EXCEPT !.evidence = @ \cup written, !.logAge = "fresh"] \in Item
        BY <3>1 DEF Item, AGES
      <3> QED
        BY <2>3, <3>1, <3>2 DEF Rpetd
    <2>4. ASSUME NEW i \in Id, NEW force \in Overrides, StatusGateFail(i, force)
          PROVE  TypeOK'
      <3>1. i \in DOMAIN items /\ [items[i] EXCEPT !.cooling = TRUE] \in Item
        BY <2>4, CoolingType DEF StatusGateFail, StatusAllowed
      <3> QED
        BY <2>4, <3>1, EditType DEF StatusGateFail
    <2>5. ASSUME NEW i \in Id, NEW new \in NextStatuses, NEW who \in Agents,
                 NEW force \in Overrides, Status(i, new, who, force)
          PROVE  TypeOK'
      <3>1. i \in DOMAIN items /\ new \in STATUSES
        BY <2>5, InputsAssumption DEF Status, StatusAllowed
      <3>2. [items[i] EXCEPT !.status = new] \in Item
        BY <3>1 DEF Item
      <3> QED
        BY <2>5, <3>1, <3>2 DEF Status
    <2>6. ASSUME NEW i \in Id, NEW who \in Agents, NEW force \in Overrides,
                 NEW exempt \in BOOLEAN, ValidateGateFail(i, who, force, exempt)
          PROVE  TypeOK'
      <3>1. i \in DOMAIN items /\ [items[i] EXCEPT !.cooling = TRUE] \in Item
        BY <2>6, CoolingType DEF ValidateGateFail, ValidateAllowed
      <3> QED
        BY <2>6, <3>1, EditType DEF ValidateGateFail
    <2>7. ASSUME NEW i \in Id, NEW who \in Agents, NEW force \in Overrides,
                 NEW exempt \in BOOLEAN,
                 ValidatePass(i, who, force, exempt) \/ PolicyCorrection(i, who, force)
          PROVE  TypeOK'
      BY <2>7 DEF ValidatePass, PolicyCorrection, ValidateAllowed, Item, Owner, STATUSES
    <2>9. ASSUME NEW i \in Id, NEW who \in Agents, NEW force \in Overrides,
                 ValidateFail(i, who, force)
          PROVE  TypeOK'
      BY <2>9, FailedType DEF ValidateFail, ValidateAllowed, Failed
    <2>10. ASSUME NEW i \in Id, NEW who \in Agents, NEW force \in Overrides,
                  NEW n \in 1..MaxSubtasks, NEW traits \in Traits,
                ValidateFailAndSplit(i, who, force, n, traits)
           PROVE  TypeOK'
      <3>1. i \in DOMAIN items /\ archive' = archive /\ items[i].failures < MaxFailures
        BY <2>10 DEF ValidateFailAndSplit, ValidateAllowed
      <3> DEFINE f == Failed(items, i, who)
      <3>2. PICK kids \in SUBSET Id :
               items' = [WithSubtasks(f, i, kids, items[i].assigned, traits) EXCEPT ![i].status = "deferred"]
        BY <2>10 DEF ValidateFailAndSplit
      <3>3. f \in [DOMAIN items -> Item]
        BY <3>1, FailedType
      <3> DEFINE w == WithSubtasks(f, i, kids, items[i].assigned, traits)
      <3> HIDE DEF f
      <3>4. DOMAIN w = DOMAIN items \cup kids /\ w \in [DOMAIN w -> Item]
        <4>1. /\ DOMAIN f = DOMAIN items /\ DOMAIN f \subseteq Id
              /\ items[i].assigned \in Owner /\ f \in [DOMAIN f -> Item]
          BY <3>1, <3>3 DEF Item, TypeOK
        <4> HIDE DEF w
        <4>2. DOMAIN WithSubtasks(f, i, kids, items[i].assigned, traits)
                = DOMAIN f \cup kids
          BY DEF WithSubtasks
        <4>3. WithSubtasks(f, i, kids, items[i].assigned, traits)
                \in [DOMAIN f \cup kids -> Item]
          BY <3>1, <4>1, SubtasksType
        <4> QED
          BY <4>1, <4>2, <4>3 DEF w
      <3>5. [w[i] EXCEPT !.status = "deferred"] \in Item
        BY <3>1, <3>4 DEF Item, STATUSES
      <3> HIDE DEF w
      <3>6. items' \in [DOMAIN w -> Item]
        BY <3>2, <3>4, <3>5 DEF w
      <3> QED
        BY <3>1, <3>4, <3>6
    <2> QED
      BY <1>7, <2>1, <2>2, <2>3, <2>4, <2>5, <2>6, <2>7, <2>9, <2>10 DEF Lifecycle
  <1>8. CASE Time
    <2>1. ASSUME NEW i \in Id, CooldownEnds(i) PROVE TypeOK'
      <3>1. i \in DOMAIN items /\ [items[i] EXCEPT !.cooling = FALSE] \in Item
        BY <2>1, CoolingType DEF CooldownEnds
      <3> QED
        BY <2>1, <3>1, EditType DEF CooldownEnds
    <2>2. ASSUME NEW i \in Id, ClaimAges(i) \/ LogAges(i) PROVE TypeOK'
      BY <2>2 DEF ClaimAges, LogAges, Item, AGES
    <2> QED
      BY <1>8, <2>1, <2>2 DEF Time
  <1> QED
    BY <1>1, <1>2, <1>3, <1>4, <1>5, <1>6, <1>7, <1>8 DEF Next, Structure

\* Every command leaves tasks.json and the archive well typed.
THEOREM TypeCorrect == Spec => []TypeOK
PROOF
  <1>1. Init => TypeOK
    BY DEF Init, TypeOK
  <1> QED
    BY <1>1, TypeStep, PTL DEF Spec

----------------------------------------------------------------------------
(* The graph of the task engine: parents and children, dependencies, and   *)
(* what moves to the archive.  A step is, seen from the graph, one of few  *)
(* kinds; the first lemmas say which.                                      *)

\* The ids, links and archived items stay as they are.
SameGraph ==
    /\ DOMAIN items' = DOMAIN items
    /\ \A x \in DOMAIN items : /\ items'[x].parent = items[x].parent
                               /\ items'[x].children = items[x].children
                               /\ items'[x].deps = items[x].deps
    /\ archive' = archive

\* w is its with new items kids, without links of their own, under item i.
GrownBy(its, w, i, kids) ==
    /\ DOMAIN w = DOMAIN its \cup kids
    /\ \A x \in kids : w[x].parent = i /\ w[x].children = {} /\ w[x].deps = {}
    /\ \A x \in DOMAIN its :
          /\ w[x].parent = its[x].parent
          /\ w[x].children = IF x = i THEN its[x].children \cup kids
                             ELSE its[x].children
          /\ w[x].deps = its[x].deps

\* A step that puts new items under i.
Grows(i, kids) ==
    /\ i \in DOMAIN items
    /\ kids \cap DOMAIN items = {}
    /\ GrownBy(items, items', i, kids)
    /\ archive' = archive

\* A command that edits other fields of one item leaves the graph alone.
LEMMA EditGraph ==
  ASSUME TypeOK, NEW i \in DOMAIN items, NEW it \in Item,
         items' = [items EXCEPT ![i] = it], archive' = archive,
         it.parent = items[i].parent, it.children = items[i].children,
         it.deps = items[i].deps
  PROVE  SameGraph
BY DEF SameGraph, TypeOK

\* A failed validation edits one item.
LEMMA FailedEffect ==
  ASSUME TypeOK, NEW i \in DOMAIN items, NEW who \in Agents
  PROVE  /\ DOMAIN Failed(items, i, who) = DOMAIN items
         /\ \A x \in DOMAIN items :
               /\ Failed(items, i, who)[x].parent = items[x].parent
               /\ Failed(items, i, who)[x].children = items[x].children
               /\ Failed(items, i, who)[x].deps = items[x].deps
PROOF
  <1>1. items \in [DOMAIN items -> Item]
    BY DEF TypeOK
  <1> QED
    BY <1>1 DEF Failed, Item

\* What WithSubtasks builds, the parent's status being written after it or not.
LEMMA SubtasksEffect ==
  ASSUME NEW its, its \in [DOMAIN its -> Item], NEW i \in DOMAIN its,
         NEW kids, kids \cap DOMAIN its = {}, NEW owner, NEW traits
  PROVE  /\ GrownBy(its, WithSubtasks(its, i, kids, owner, traits), i, kids)
         /\ GrownBy(its, [WithSubtasks(its, i, kids, owner, traits) EXCEPT ![i].status = "deferred"],
                    i, kids)
PROOF
  <1> DEFINE v == WithSubtasks(its, i, kids, owner, traits)
             w == [v EXCEPT ![i].status = "deferred"]
  <1>1. /\ DOMAIN v = DOMAIN its \cup kids
        /\ v = [x \in DOMAIN its \cup kids |-> v[x]]
    BY DEF WithSubtasks
  <1>2. \A x \in kids : v[x].parent = i /\ v[x].children = {} /\ v[x].deps = {}
    BY DEF WithSubtasks, NewItem
  <1>3. \A x \in DOMAIN its \ {i} : v[x] = its[x]
    BY DEF WithSubtasks
  <1>4. /\ v[i] = [its[i] EXCEPT !.children = @ \cup kids]
        /\ v[i] = [v[i] EXCEPT !.children = its[i].children \cup kids]
    BY DEF WithSubtasks, Item
  <1>5. /\ v[i].parent = its[i].parent /\ v[i].deps = its[i].deps
        /\ v[i].children = its[i].children \cup kids
        /\ [v[i] EXCEPT !.status = "deferred"].parent = its[i].parent
        /\ [v[i] EXCEPT !.status = "deferred"].deps = its[i].deps
        /\ [v[i] EXCEPT !.status = "deferred"].children = its[i].children \cup kids
    BY <1>4 DEF Item
  <1> HIDE DEF v
  <1>6. GrownBy(its, v, i, kids)
    BY <1>1, <1>2, <1>3, <1>5 DEF GrownBy
  <1>7. /\ DOMAIN w = DOMAIN its \cup kids
        /\ w[i] = [v[i] EXCEPT !.status = "deferred"]
        /\ \A x \in (DOMAIN its \cup kids) \ {i} : w[x] = v[x]
    BY <1>1
  <1> HIDE DEF w
  <1>8. GrownBy(its, w, i, kids)
    BY <1>7, <1>2, <1>3, <1>5 DEF GrownBy
  <1> QED
    BY <1>6, <1>8 DEF v, w

\* The three ways to split an item put new pending tasks under it.
LEMMA AtomizeGraph ==
  ASSUME TypeOK, NEW i \in Id, NEW n \in 1..MaxSubtasks, NEW owner \in Owner,
         NEW traits \in Traits,
         Atomize(i, n, owner, traits) \/ AtomizeKilled(i, n, owner, traits)
  PROVE  \E kids \in SUBSET Id : Grows(i, kids)
PROOF
  <1>1. /\ i \in DOMAIN items /\ archive' = archive /\ "task" \in Kinds
        /\ items \in [DOMAIN items -> Item]
    BY DEF Atomize, AtomizeKilled, CanAtomize, TypeOK
  <1>2. PICK kids \in SUBSET Id :
           /\ FreshTasks(items, n, kids)
           /\ \/ items' = WithSubtasks(items, i, kids, owner, traits)
              \/ items' = [WithSubtasks(items, i, kids, owner, traits) EXCEPT ![i].status = "deferred"]
    BY DEF Atomize, AtomizeKilled
  <1>3. n \in Nat
    BY BoundsAssumption
  <1>4. kids \cap DOMAIN items = {}
    BY <1>1, <1>2, <1>3, FreshTasksAreNew
  <1>5. /\ GrownBy(items, WithSubtasks(items, i, kids, owner, traits), i, kids)
        /\ GrownBy(items, [WithSubtasks(items, i, kids, owner, traits) EXCEPT ![i].status = "deferred"],
                   i, kids)
    BY <1>1, <1>4, SubtasksEffect
  <1>6. GrownBy(items, items', i, kids)
    BY <1>2, <1>5
  <1>7. Grows(i, kids)
    BY <1>1, <1>4, <1>6 DEF Grows
  <1> QED
    BY <1>7

LEMMA FailAndSplitGraph ==
  ASSUME TypeOK, NEW i \in Id, NEW who \in Agents, NEW force \in Overrides,
         NEW n \in 1..MaxSubtasks, NEW traits \in Traits,
                ValidateFailAndSplit(i, who, force, n, traits)
  PROVE  \E kids \in SUBSET Id : Grows(i, kids)
PROOF
  <1> DEFINE f == Failed(items, i, who)
  <1>1. /\ i \in DOMAIN items /\ archive' = archive /\ "task" \in Kinds
        /\ items[i].failures < MaxFailures
    BY DEF ValidateFailAndSplit, ValidateAllowed, CanAtomize
  <1>2. PICK kids \in SUBSET Id :
           /\ FreshTasks(items, n, kids)
           /\ items' = [WithSubtasks(f, i, kids, items[i].assigned, traits) EXCEPT ![i].status = "deferred"]
    BY DEF ValidateFailAndSplit
  <1>3. n \in Nat
    BY BoundsAssumption
  <1>4. kids \cap DOMAIN items = {}
    BY <1>1, <1>2, <1>3, FreshTasksAreNew
  <1>5. f \in [DOMAIN items -> Item] /\ DOMAIN f = DOMAIN items
    BY <1>1, FailedType
  <1>6. \A x \in DOMAIN items : /\ f[x].parent = items[x].parent
                                /\ f[x].children = items[x].children
                                /\ f[x].deps = items[x].deps
    BY <1>1, FailedEffect
  <1> HIDE DEF f
  <1>7. GrownBy(f, items', i, kids)
    BY <1>1, <1>2, <1>4, <1>5, SubtasksEffect
  <1>8. Grows(i, kids)
    BY <1>1, <1>4, <1>5, <1>6, <1>7 DEF Grows, GrownBy
  <1> QED
    BY <1>8

\* The commands of the lifecycle leave the graph alone, but for the split.
LEMMA LifecycleGraph ==
  ASSUME TypeOK, Lifecycle \/ Time
  PROVE  SameGraph \/ \E i \in Id, kids \in SUBSET Id : Grows(i, kids)
PROOF
  <1> USE DEF TypeOK
  <1>1. ASSUME NEW i \in Id, NEW st \in STATUSES, NEW owner \in Owner,
               NEW val \in Owner, NEW traits \in Traits,
                 Update(i, st, owner, val, traits)
        PROVE  SameGraph
    BY <1>1 DEF Update, Item, SameGraph
  <1>2. ASSUME NEW i \in Id, NEW who \in Agents, Assign(i, who) \/ Claim(i, who)
        PROVE  SameGraph
    BY <1>2 DEF Assign, Claim, Item, SameGraph
  <1>3. ASSUME NEW i \in Id, NEW written \in Writings, Rpetd(i, written)
        PROVE  SameGraph
    BY <1>3 DEF Rpetd, Item, SameGraph
  <1>4. ASSUME NEW i \in DOMAIN items, NEW b \in BOOLEAN,
               items' = [items EXCEPT ![i].cooling = b], archive' = archive
        PROVE  SameGraph
    <2>1. [items[i] EXCEPT !.cooling = b] \in Item
      BY CoolingType
    <2>2. /\ [items[i] EXCEPT !.cooling = b].parent = items[i].parent
          /\ [items[i] EXCEPT !.cooling = b].children = items[i].children
          /\ [items[i] EXCEPT !.cooling = b].deps = items[i].deps
      BY DEF Item
    <2> QED
      BY <1>4, <2>1, <2>2, EditGraph
  <1>5. ASSUME NEW i \in Id, NEW force \in Overrides, StatusGateFail(i, force)
        PROVE  SameGraph
    BY <1>4, <1>5 DEF StatusGateFail, StatusAllowed
  <1>6. ASSUME NEW i \in Id, NEW new \in NextStatuses, NEW who \in Agents,
               NEW force \in Overrides, Status(i, new, who, force)
        PROVE  SameGraph
    BY <1>6 DEF Status, StatusAllowed, Item, SameGraph
  <1>7. ASSUME NEW i \in Id, NEW who \in Agents, NEW force \in Overrides,
               NEW exempt \in BOOLEAN, ValidateGateFail(i, who, force, exempt)
        PROVE  SameGraph
    BY <1>4, <1>7 DEF ValidateGateFail, ValidateAllowed
  <1>8. ASSUME NEW i \in Id, NEW who \in Agents, NEW force \in Overrides,
               NEW exempt \in BOOLEAN,
               ValidatePass(i, who, force, exempt) \/ PolicyCorrection(i, who, force)
        PROVE  SameGraph
    BY <1>8 DEF ValidatePass, PolicyCorrection, ValidateAllowed, Item, SameGraph
  <1>9. ASSUME NEW i \in Id, NEW who \in Agents, NEW force \in Overrides,
               ValidateFail(i, who, force)
        PROVE  SameGraph
    BY <1>9, FailedEffect DEF ValidateFail, ValidateAllowed, SameGraph
  <1>10. ASSUME NEW i \in Id, CooldownEnds(i) PROVE SameGraph
    BY <1>4, <1>10 DEF CooldownEnds
  <1>11. ASSUME NEW i \in Id, ClaimAges(i) \/ LogAges(i) PROVE SameGraph
    BY <1>11 DEF ClaimAges, LogAges, Item, SameGraph
  <1>12. ASSUME NEW i \in Id, NEW who \in Agents, NEW force \in Overrides,
                NEW n \in 1..MaxSubtasks, NEW traits \in Traits,
                ValidateFailAndSplit(i, who, force, n, traits)
         PROVE  \E kids \in SUBSET Id : Grows(i, kids)
    BY <1>12, FailAndSplitGraph
  <1>13. CASE Time
    BY <1>10, <1>11, <1>13 DEF Time
  <1>14. CASE Lifecycle
    <2>1. CASE \E i \in Id, st \in STATUSES, owner, val \in Owner, traits \in Traits :
                  Update(i, st, owner, val, traits)
      BY <1>1, <2>1
    <2>2. CASE \E i \in Id, who \in Agents : Assign(i, who) \/ Claim(i, who)
      BY <1>2, <2>2
    <2>3. CASE \E i \in Id, written \in Writings : Rpetd(i, written)
      BY <1>3, <2>3
    <2>4. CASE \E i \in Id, force \in Overrides : StatusGateFail(i, force)
      BY <1>5, <2>4
    <2>5. CASE \E i \in Id, new \in NextStatuses, who \in Agents, force \in Overrides :
                  Status(i, new, who, force)
      BY <1>6, <2>5
    <2>6. CASE \E i \in Id, who \in Agents, force \in Overrides, exempt \in BOOLEAN :
                  ValidateGateFail(i, who, force, exempt)
                  \/ ValidatePass(i, who, force, exempt)
      BY <1>7, <1>8, <2>6
    <2>7. CASE \E i \in Id, who \in Agents, force \in Overrides :
                  PolicyCorrection(i, who, force) \/ ValidateFail(i, who, force)
      BY <1>8, <1>9, <2>7
    <2>8. CASE \E i \in Id, who \in Agents, force \in Overrides, n \in 1..MaxSubtasks,
                 traits \in Traits :
                  ValidateFailAndSplit(i, who, force, n, traits)
      BY <1>12, <2>8
    <2> QED
      BY <1>14, <2>1, <2>2, <2>3, <2>4, <2>5, <2>6, <2>7, <2>8 DEF Lifecycle
  <1> QED
    BY <1>13, <1>14

----------------------------------------------------------------------------
(* Children and parents.                                                   *)

\* Every step keeps children lists and parent fields in agreement.
LEMMA FamilyStep ==
  ASSUME TypeOK, FamilyLinked, [Next]_vars
  PROVE  FamilyLinked'
PROOF
  <1>1. CASE UNCHANGED vars
    BY <1>1 DEF vars, FamilyLinked
  <1>2. CASE SameGraph
    BY <1>2 DEF SameGraph, FamilyLinked
  <1>3. ASSUME NEW i \in Id, NEW kids \in SUBSET Id, Grows(i, kids)
        PROVE  FamilyLinked'
    <2>1. SUFFICES ASSUME NEW p \in DOMAIN items', NEW c \in items'[p].children
                   PROVE  c \in DOMAIN items' /\ items'[c].parent = p
      BY DEF FamilyLinked
    <2>2. p \in DOMAIN items
      BY <1>3, <2>1 DEF Grows, GrownBy
    <2>3. CASE c \in items[p].children
      BY <1>3, <2>2, <2>3 DEF Grows, GrownBy, FamilyLinked
    <2>4. CASE c \in kids /\ p = i
      BY <1>3, <2>4 DEF Grows, GrownBy
    <2> QED
      BY <1>3, <2>1, <2>2, <2>3, <2>4 DEF Grows, GrownBy
  <1>4. ASSUME NEW k \in Kinds, NEW par \in Id \cup {NoItem}, NEW ds \in SUBSET Ref,
               NEW owner \in Owner, NEW traits \in Traits, NEW st \in InitialStatuses,
               NEW force \in Overrides, Add(k, par, ds, owner, traits, st, force)
        PROVE  FamilyLinked'
    <2>1. PICK n \in 1..MaxSerial[k] :
             /\ LastSerial(items, k, n - 1)
             /\ par = NoItem \/ par \in DOMAIN items
             /\ items' = [x \in DOMAIN items \cup {<<k, n>>} |->
                            IF x = <<k, n>> THEN NewItem(st, par, ds, owner, traits)
                            ELSE IF x = par
                                 THEN [items[x] EXCEPT !.children = @ \cup {<<k, n>>}]
                            ELSE items[x]]
      BY <1>4 DEF Add
    <2> DEFINE new == <<k, n>>
    <2>2. new \notin DOMAIN items
      BY <2>1, BoundsAssumption DEF LastSerial
    <2>3. /\ DOMAIN items' = DOMAIN items \cup {new}
          /\ items'[new].parent = par /\ items'[new].children = {}
      BY <2>1 DEF NewItem
    <2>4. \A x \in DOMAIN items :
             /\ items'[x].parent = items[x].parent
             /\ items'[x].children \subseteq
                  items[x].children \cup IF x = par THEN {new} ELSE {}
      BY <2>1, <2>2 DEF TypeOK, Item
    <2> HIDE DEF new
    <2> QED
      BY <2>2, <2>3, <2>4 DEF FamilyLinked
  <1>5. ASSUME NEW i \in Id, Delete(i) PROVE FamilyLinked'
    <2>1. /\ DOMAIN items' = DOMAIN items \ {i}
          /\ \A x \in DOMAIN items \ {i} :
                /\ items'[x].children = items[x].children \ {i}
                /\ items'[x].parent = IF x \in items[i].children THEN NoItem
                                      ELSE items[x].parent
      BY <1>5 DEF Delete, TypeOK, Item
    <2>2. SUFFICES ASSUME NEW p \in DOMAIN items', NEW c \in items'[p].children
                   PROVE  c \in DOMAIN items' /\ items'[c].parent = p
      BY DEF FamilyLinked
    <2>3. c \in DOMAIN items \ {i} /\ items[c].parent = p /\ p # i
      BY <2>1, <2>2 DEF FamilyLinked
    <2>4. c \notin items[i].children
      BY <1>5, <2>3 DEF FamilyLinked, Delete
    <2> QED
      BY <2>1, <2>3, <2>4
  <1>6. ASSUME NEW d \in Ref,
               (\E i \in Ref : Link(i, d)) \/ (\E i \in Id : Unlink(i, d))
        PROVE  FamilyLinked'
    BY <1>6, LinksGraph DEF FamilyLinked
  <1>7. ASSUME NEW S \in SUBSET Id, Archive(S) PROVE FamilyLinked'
    <2>1. /\ DOMAIN items' = DOMAIN items \ S
          /\ \A x \in DOMAIN items \ S :
                /\ items'[x].children = items[x].children \ S
                /\ items'[x].parent = items[x].parent
      BY <1>7 DEF Archive, TypeOK, Item
    <2> QED
      BY <2>1 DEF FamilyLinked
  <1>8. ASSUME NEW S \in SUBSET Id, ArchiveKilled(S) PROVE FamilyLinked'
    BY <1>8 DEF ArchiveKilled, FamilyLinked
  <1> QED
    BY <1>1, <1>2, <1>3, <1>4, <1>5, <1>6, <1>7, <1>8, AtomizeGraph, LifecycleGraph
    DEF Next, Structure

\* Children lists and parent fields agree for ever.
THEOREM FamilyCorrect == Spec => []FamilyLinked
PROOF
  <1>1. Init => TypeOK /\ FamilyLinked
    BY DEF Init, TypeOK, FamilyLinked
  <1>2. TypeOK /\ FamilyLinked /\ [Next]_vars => (TypeOK /\ FamilyLinked)'
    BY TypeStep, FamilyStep
  <1> QED
    BY <1>1, <1>2, PTL DEF Spec

----------------------------------------------------------------------------
(* Dependencies.                                                           *)

\* A new item gets an id that tasks.json does not hold.
LEMMA AddEffect ==
  ASSUME TypeOK, NEW k \in Kinds, NEW par \in Id \cup {NoItem},
         NEW ds \in SUBSET Ref, NEW owner \in Owner, NEW traits \in Traits, NEW st \in InitialStatuses,
         NEW force \in Overrides, Add(k, par, ds, owner, traits, st, force)
  PROVE  \E new \in Id \ DOMAIN items :
            /\ DOMAIN items' = DOMAIN items \cup {new}
            /\ items'[new].deps = ds
            /\ \A d \in ds : d[1] \in DOMAIN items
            /\ \A x \in DOMAIN items : items'[x].deps = items[x].deps
            /\ archive' = archive
PROOF
  <1>1. PICK n \in 1..MaxSerial[k] :
           /\ LastSerial(items, k, n - 1)
           /\ items' = [x \in DOMAIN items \cup {<<k, n>>} |->
                          IF x = <<k, n>> THEN NewItem(st, par, ds, owner, traits)
                          ELSE IF x = par
                               THEN [items[x] EXCEPT !.children = @ \cup {<<k, n>>}]
                          ELSE items[x]]
    BY DEF Add
  <1> DEFINE new == <<k, n>>
  <1>2. new \in Id
    BY DEF Id
  <1>3. new \notin DOMAIN items
    BY <1>1, BoundsAssumption DEF LastSerial
  <1>4. /\ DOMAIN items' = DOMAIN items \cup {new}
        /\ items'[new].deps = ds
    BY <1>1 DEF NewItem
  <1>5. \A x \in DOMAIN items : items'[x].deps = items[x].deps
    BY <1>1, <1>3 DEF TypeOK, Item
  <1> HIDE DEF new
  <1> QED
    BY <1>2, <1>3, <1>4, <1>5 DEF Add

\* No step leaves a dependency on an id that is neither active nor archived.
LEMMA DepsKnownStep ==
  ASSUME TypeOK, DepsKnown, [Next]_vars
  PROVE  DepsKnown'
PROOF
  <1>1. CASE UNCHANGED vars
    BY <1>1 DEF vars, DepsKnown
  <1>2. CASE SameGraph
    BY <1>2 DEF SameGraph, DepsKnown
  <1>3. ASSUME NEW i \in Id, NEW kids \in SUBSET Id, Grows(i, kids)
        PROVE  DepsKnown'
    BY <1>3 DEF Grows, GrownBy, DepsKnown
  <1>4. ASSUME NEW k \in Kinds, NEW par \in Id \cup {NoItem}, NEW ds \in SUBSET Ref,
               NEW owner \in Owner, NEW traits \in Traits, NEW st \in InitialStatuses,
               NEW force \in Overrides, Add(k, par, ds, owner, traits, st, force)
        PROVE  DepsKnown'
    <2>1. PICK new \in Id \ DOMAIN items :
             /\ DOMAIN items' = DOMAIN items \cup {new}
             /\ items'[new].deps = ds
             /\ \A d \in ds : d[1] \in DOMAIN items
             /\ \A x \in DOMAIN items : items'[x].deps = items[x].deps
             /\ archive' = archive
      BY <1>4, AddEffect
    <2> QED
      BY <2>1 DEF DepsKnown
  <1>5. ASSUME NEW i \in Id, Delete(i) PROVE DepsKnown'
    <2>1. /\ DOMAIN items' = DOMAIN items \ {i} /\ archive' = archive
          /\ \A x \in DOMAIN items \ {i} : /\ items'[x].deps = items[x].deps \ {<<i, AsIssued>>}
                                           /\ items[x].deps \subseteq Ref
      BY <1>5 DEF Delete, TypeOK, Item
    <2>2. ASSUME NEW x \in DOMAIN items', NEW d \in items'[x].deps, d[2] = AsIssued
          PROVE  d[1] \in DOMAIN items' \cup DOMAIN archive'
      <3>1. x \in DOMAIN items \ {i} /\ d \in items[x].deps /\ d # <<i, AsIssued>> /\ d \in Ref
        BY <2>1, <2>2
      <3>2. d[1] # i
        BY <2>2, <3>1 DEF Ref
      <3>3. d[1] \in DOMAIN items \cup DOMAIN archive
        BY <2>2, <3>1 DEF DepsKnown
      <3> QED
        BY <2>1, <3>2, <3>3
    <2> QED
      BY <2>2 DEF DepsKnown
  <1>6. ASSUME NEW d \in Ref,
               (\E i \in Ref : Link(i, d)) \/ (\E i \in Id : Unlink(i, d))
        PROVE  DepsKnown'
    BY <1>6, LinksGraph DEF DepsKnown
  <1>7. ASSUME NEW S \in SUBSET Id, Archive(S) PROVE DepsKnown'
    <2>1. /\ DOMAIN items' = DOMAIN items \ S
          /\ DOMAIN archive' = DOMAIN archive \cup S
          /\ \A x \in DOMAIN items \ S : items'[x].deps = items[x].deps
      BY <1>7 DEF Archive, Archived, TypeOK, Item
    <2> QED
      BY <2>1 DEF DepsKnown
  <1>8. ASSUME NEW S \in SUBSET Id, ArchiveKilled(S) PROVE DepsKnown'
    BY <1>8 DEF ArchiveKilled, Archived, DepsKnown
  <1> QED
    BY <1>1, <1>2, <1>3, <1>4, <1>5, <1>6, <1>7, <1>8, AtomizeGraph, LifecycleGraph
    DEF Next, Structure

\* A dependency that is spelled as its id was issued never dangles: what
\* delete removes it removes from every list, and archive keeps it known.
THEOREM DependenciesKnown == Spec => []DepsKnown
PROOF
  <1>1. Init => TypeOK /\ DepsKnown
    BY DEF Init, TypeOK, DepsKnown
  <1>2. TypeOK /\ DepsKnown /\ [Next]_vars => (TypeOK /\ DepsKnown)'
    BY TypeStep, DepsKnownStep
  <1> QED
    BY <1>1, <1>2, PTL DEF Spec

\* The check of cmd_link: if d does not reach i, and both are typed as they
\* were issued, the link makes no set of items wait for itself that did not
\* before.
LEMMA LinkStep ==
  ASSUME Spellings = {AsIssued},
         TypeOK, FreshDepsAcyclic, NEW i \in Ref, NEW d \in Ref, Link(i, d)
  PROVE  FreshDepsAcyclic'
PROOF
  <1> DEFINE j == i[1]
             e == d[1]
  <1>1. i = <<j, AsIssued>> /\ d = <<e, AsIssued>> /\ j \in Id /\ e \in Id
    BY DEF Ref
  <1>2. /\ {j, e} \subseteq DOMAIN items /\ i # d /\ archive' = archive
        /\ items' = [items EXCEPT ![j] = [items[j] EXCEPT !.deps = items[j].deps \cup {d}]]
    BY DEF Link
  <1>3. PICK C \in SUBSET Ref :
           /\ items[e].deps \subseteq C
           /\ \A x \in C : x[1] \in DOMAIN items => items[x[1]].deps \subseteq C
           /\ i \notin C
    BY DEF Link, Reaches
  <1>4. \A x \in DOMAIN items : items[x] \in Item /\ items[x].deps \subseteq Ref
    BY DEF TypeOK, Item
  <1>5. j # e
    BY <1>1, <1>2
  <1>6. /\ DOMAIN items' = DOMAIN items
        /\ items'[j].deps = items[j].deps \cup {d}
        /\ \A x \in DOMAIN items \ {j} : items'[x].deps = items[x].deps
    <2>1. [items[j] EXCEPT !.deps = items[j].deps \cup {d}].deps = items[j].deps \cup {d}
      BY <1>2, <1>4 DEF Item
    <2> HIDE DEF j
    <2> QED
      BY <1>2, <2>1
  <1>7. \A r \in Ref : r = <<r[1], AsIssued>>
    BY DEF Ref
  <1> HIDE DEF j, e
  <1>8. SUFFICES ASSUME NEW S \in SUBSET (DOMAIN items \ DOMAIN archive),
                        S # {}, \A x \in S : \E r \in items'[x].deps : r[1] \in S
                 PROVE  FALSE
    BY <1>2, <1>6 DEF FreshDepsAcyclic, Deadlocked
  <1>9. CASE j \in S /\ e \in S
    <2> DEFINE T == {x \in S : x = e \/ <<x, AsIssued>> \in C}
    <2>1. T # {} /\ T \in SUBSET (DOMAIN items \ DOMAIN archive)
      BY <1>9
    <2>2. ASSUME NEW x \in T PROVE \E r \in items[x].deps : r[1] \in T
      <3>1. x \in DOMAIN items /\ x # j /\ x \in S
        BY <1>1, <1>3, <1>5
      <3>2. items[x].deps \subseteq C
        <4>1. CASE x = e
          BY <1>3, <4>1
        <4>2. CASE <<x, AsIssued>> \in C
          BY <1>3, <3>1, <4>2
        <4> QED
          BY <2>2, <4>1, <4>2
      <3>3. PICK r \in items[x].deps : r[1] \in S
        BY <1>6, <1>8, <3>1
      <3>4. r \in C /\ r = <<r[1], AsIssued>>
        BY <1>4, <1>7, <3>1, <3>2
      <3> QED
        BY <3>3, <3>4
    <2> HIDE DEF T
    <2> QED
      BY <2>1, <2>2 DEF FreshDepsAcyclic, Deadlocked
  <1>10. CASE ~ (j \in S /\ e \in S)
    <2>1. ASSUME NEW x \in S PROVE \E r \in items[x].deps : r[1] \in S
      <3>1. PICK r \in items'[x].deps : r[1] \in S
        BY <1>8
      <3>2. CASE x = j
        <4>1. r # d
          BY <1>1, <1>10, <3>1, <3>2
        <4> QED
          BY <1>6, <3>1, <3>2, <4>1
      <3>3. CASE x # j
        BY <1>6, <3>1, <3>3
      <3> QED
        BY <3>2, <3>3
    <2> QED
      BY <1>8, <2>1 DEF FreshDepsAcyclic, Deadlocked
  <1> QED
    BY <1>9, <1>10

\* Add gives dependencies to an item that nothing depends on yet: a known
\* dependency is active or archived, and the new id is neither.
LEMMA AddStep ==
  ASSUME Spellings = {AsIssued},
         TypeOK, DepsKnown, FreshDepsAcyclic, NEW new \in Id \ DOMAIN items,
         DOMAIN items' = DOMAIN items \cup {new},
         \A d \in items'[new].deps : d[1] \in DOMAIN items,
         \A x \in DOMAIN items : items'[x].deps = items[x].deps,
         archive' = archive
  PROVE  FreshDepsAcyclic'
PROOF
  <1>1. SUFFICES ASSUME NEW S \in SUBSET (DOMAIN items' \ DOMAIN archive),
                        S # {}, \A x \in S : \E d \in items'[x].deps : d[1] \in S
                 PROVE  FALSE
    BY DEF FreshDepsAcyclic, Deadlocked
  <1>2. CASE new \notin S
    <2>1. S \in SUBSET (DOMAIN items \ DOMAIN archive)
      BY <1>2
    <2>2. \A x \in S : \E d \in items[x].deps : d[1] \in S
      BY <1>1, <2>1
    <2> QED
      BY <1>1, <2>1, <2>2 DEF FreshDepsAcyclic, Deadlocked
  <1>3. CASE new \in S
    <2> DEFINE T == S \ {new}
    <2>1. T # {} /\ T \in SUBSET (DOMAIN items \ DOMAIN archive)
      <3>1. PICK d \in items'[new].deps : d[1] \in S
        BY <1>1, <1>3
      <3>2. d[1] \in DOMAIN items
        BY <3>1
      <3> QED
        BY <3>1, <3>2
    <2>2. ASSUME NEW x \in T PROVE \E e \in items[x].deps : e[1] \in T
      <3>1. x \in DOMAIN items /\ items'[x].deps = items[x].deps /\ x \in S
        BY <2>1
      <3>2. PICK e \in items[x].deps : e[1] \in S
        BY <1>1, <3>1
      <3>3. e[2] = AsIssued
        BY <3>1 DEF TypeOK, Item, Ref
      <3>4. e[1] # new
        BY <1>1, <1>3, <3>1, <3>3 DEF DepsKnown
      <3> QED
        BY <3>2, <3>4
    <2> HIDE DEF T
    <2> QED
      BY <2>1, <2>2 DEF FreshDepsAcyclic, Deadlocked
  <1> QED
    BY <1>2, <1>3

\* A step that only removes dependencies, or items, or archives them.
LEMMA ShrinkStep ==
  ASSUME FreshDepsAcyclic,
         DOMAIN items' \subseteq DOMAIN items,
         DOMAIN archive \subseteq DOMAIN archive',
         \A x \in DOMAIN items' : items'[x].deps \subseteq items[x].deps
  PROVE  FreshDepsAcyclic'
PROOF
  <1>1. SUFFICES ASSUME NEW S \in SUBSET (DOMAIN items' \ DOMAIN archive'),
                        S # {}, \A x \in S : \E d \in items'[x].deps : d[1] \in S
                 PROVE  FALSE
    BY DEF FreshDepsAcyclic, Deadlocked
  <1>2. S \in SUBSET (DOMAIN items \ DOMAIN archive)
    BY <1>1
  <1>3. \A x \in S : \E d \in items[x].deps : d[1] \in S
    BY <1>1
  <1> QED
    BY <1>1, <1>2, <1>3 DEF FreshDepsAcyclic, Deadlocked

\* No step makes items that were never archived wait for one another.
LEMMA FreshDepsStep ==
  ASSUME Spellings = {AsIssued}, TypeOK, DepsKnown, FreshDepsAcyclic, [Next]_vars
  PROVE  FreshDepsAcyclic'
PROOF
  <1>1. CASE UNCHANGED vars
    BY <1>1 DEF vars, FreshDepsAcyclic, Deadlocked
  <1>2. CASE SameGraph
    BY <1>2, ShrinkStep DEF SameGraph
  <1>3. ASSUME NEW i \in Id, NEW kids \in SUBSET Id, Grows(i, kids)
        PROVE  FreshDepsAcyclic'
    <2>1. SUFFICES ASSUME NEW S \in SUBSET (DOMAIN items' \ DOMAIN archive),
                          S # {}, \A x \in S : \E d \in items'[x].deps : d[1] \in S
                   PROVE  FALSE
      BY <1>3 DEF Grows, FreshDepsAcyclic, Deadlocked
    <2>2. S \cap kids = {}
      BY <1>3, <2>1 DEF Grows, GrownBy
    <2>3. /\ S \in SUBSET (DOMAIN items \ DOMAIN archive)
          /\ \A x \in S : \E d \in items[x].deps : d[1] \in S
      BY <1>3, <2>1, <2>2 DEF Grows, GrownBy
    <2> QED
      BY <2>1, <2>3 DEF FreshDepsAcyclic, Deadlocked
  <1>4. ASSUME NEW k \in Kinds, NEW par \in Id \cup {NoItem}, NEW ds \in SUBSET Ref,
               NEW owner \in Owner, NEW traits \in Traits, NEW st \in InitialStatuses,
               NEW force \in Overrides, Add(k, par, ds, owner, traits, st, force)
        PROVE  FreshDepsAcyclic'
    <2>1. PICK new \in Id \ DOMAIN items :
             /\ DOMAIN items' = DOMAIN items \cup {new}
             /\ items'[new].deps = ds
             /\ \A d \in ds : d[1] \in DOMAIN items
             /\ \A x \in DOMAIN items : items'[x].deps = items[x].deps
             /\ archive' = archive
      BY <1>4, AddEffect
    <2> QED
      BY <2>1, AddStep
  <1>5. ASSUME NEW i \in Id, Delete(i) PROVE FreshDepsAcyclic'
    <2>1. /\ DOMAIN items' = DOMAIN items \ {i} /\ archive' = archive
          /\ \A x \in DOMAIN items \ {i} : items'[x].deps = items[x].deps \ {<<i, AsIssued>>}
      BY <1>5 DEF Delete, TypeOK, Item
    <2> QED
      BY <2>1, ShrinkStep
  <1>6. ASSUME NEW i \in Ref, NEW d \in Ref, Link(i, d) PROVE FreshDepsAcyclic'
    BY <1>6, LinkStep
  <1>7. ASSUME NEW i \in Id, NEW d \in Ref, Unlink(i, d) PROVE FreshDepsAcyclic'
    <2>1. /\ DOMAIN items' = DOMAIN items /\ archive' = archive
          /\ \A x \in DOMAIN items : items'[x].deps \subseteq items[x].deps
      BY <1>7 DEF Unlink, TypeOK, Item
    <2> QED
      BY <2>1, ShrinkStep
  <1>8. ASSUME NEW S \in SUBSET Id, Archive(S) PROVE FreshDepsAcyclic'
    <2>1. /\ DOMAIN items' = DOMAIN items \ S
          /\ DOMAIN archive' = DOMAIN archive \cup S
          /\ \A x \in DOMAIN items \ S : items'[x].deps = items[x].deps
      BY <1>8 DEF Archive, Archived, TypeOK, Item
    <2> QED
      BY <2>1, ShrinkStep
  <1>9. ASSUME NEW S \in SUBSET Id, ArchiveKilled(S) PROVE FreshDepsAcyclic'
    <2>1. items' = items /\ DOMAIN archive' = DOMAIN archive \cup S
      BY <1>9 DEF ArchiveKilled, Archived
    <2> QED
      BY <2>1, ShrinkStep
  <1> QED
    BY <1>1, <1>2, <1>3, <1>4, <1>5, <1>6, <1>7, <1>8, <1>9, AtomizeGraph,
       LifecycleGraph DEF Next, Structure

\* While the commands type ids as they were issued, add and link make no
\* dependency cycle, whatever is deleted, archived and atomized in between: a
\* cycle then always goes through an id the archive holds.
THEOREM DependenciesAcyclic ==
  ASSUME Spellings = {AsIssued}
  PROVE  Spec => []FreshDepsAcyclic
PROOF
  <1>1. Init => TypeOK /\ DepsKnown /\ FreshDepsAcyclic
    BY DEF Init, TypeOK, DepsKnown, FreshDepsAcyclic, Deadlocked
  <1>2. TypeOK /\ DepsKnown /\ FreshDepsAcyclic /\ [Next]_vars
        => (TypeOK /\ DepsKnown /\ FreshDepsAcyclic)'
    BY TypeStep, DepsKnownStep, FreshDepsStep
  <1> QED
    BY <1>1, <1>2, PTL DEF Spec

----------------------------------------------------------------------------
(* The archive.                                                            *)

\* No step changes or drops an archived item.
LEMMA ArchiveStep ==
  ASSUME TypeOK, [Next]_vars
  PROVE  \A i \in DOMAIN archive : i \in DOMAIN archive' /\ archive'[i] = archive[i]
PROOF
  <1>1. CASE UNCHANGED archive
    BY <1>1
  <1>2. ASSUME NEW S \in SUBSET Id, Archive(S) \/ ArchiveKilled(S)
        PROVE  \A i \in DOMAIN archive : i \in DOMAIN archive' /\ archive'[i] = archive[i]
    BY <1>2 DEF Archive, ArchiveKilled, Archived
  <1>3. CASE Lifecycle \/ Time
    BY <1>1, <1>3, LifecycleGraph DEF SameGraph, Grows
  <1>4. CASE Structure
    BY <1>1, <1>2, <1>4
    DEF Structure, Add, Delete, Link, Unlink, Atomize, AtomizeKilled
  <1> QED
    BY <1>1, <1>3, <1>4 DEF Next, vars

THEOREM ArchiveFinal == Spec => ArchiveIsFinal
PROOF
  <1>1. TypeOK /\ [Next]_vars =>
          [\A i \in DOMAIN archive :
              i \in DOMAIN archive' /\ archive'[i] = archive[i]]_vars
    BY ArchiveStep
  <1> QED
    BY <1>1, TypeCorrect, PTL DEF Spec, ArchiveIsFinal
=============================================================================
