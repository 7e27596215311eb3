-------------------------- MODULE TaskLife_proofs --------------------------
(* Proofs about the lifecycle of a task: who holds it, what stands behind  *)
(* the statuses validation, done and escalated, and what the watchdog, a   *)
(* second actor on the same file, can do to either.                        *)
EXTENDS TaskBoard_proofs, StaleWatchdog

----------------------------------------------------------------------------
(* Claims.                                                                 *)

\* The claimers of the items that are kept, when a step changes none.
KeepsClaims == \A x \in DOMAIN items \cap DOMAIN items' :
                  items'[x].claimedBy = items[x].claimedBy

\* Only claim writes claimed_by.
LEMMA ClaimStep ==
  ASSUME TypeOK, [Next]_vars
  PROVE  KeepsClaims \/ \E i \in Id, who \in Agents : Claim(i, who)
PROOF
  <1> USE DEF TypeOK
  <1>1. CASE UNCHANGED vars
    BY <1>1 DEF vars, KeepsClaims
  <1>2. ASSUME NEW k \in Kinds, NEW par \in Id \cup {NoItem}, NEW ds \in SUBSET Ref,
               NEW owner \in Owner, NEW traits \in Traits, NEW st \in InitialStatuses,
               NEW force \in Overrides, Add(k, par, ds, owner, traits, st, force)
        PROVE  KeepsClaims
    <2>1. PICK n \in 1..MaxSerial[k] :
             /\ LastSerial(items, k, n - 1)
             /\ items' = [x \in DOMAIN items \cup {<<k, n>>} |->
                            IF x = <<k, n>> THEN NewItem(st, par, ds, owner, traits)
                            ELSE IF x = par
                                 THEN [items[x] EXCEPT !.children = @ \cup {<<k, n>>}]
                            ELSE items[x]]
      BY <1>2 DEF Add
    <2>2. <<k, n>> \notin DOMAIN items
      BY <2>1, BoundsAssumption DEF LastSerial
    <2> QED
      BY <2>1, <2>2 DEF KeepsClaims, Item
  <1>3. ASSUME NEW i \in Id, Delete(i) PROVE KeepsClaims
    BY <1>3 DEF Delete, KeepsClaims, Item
  <1>4. ASSUME NEW d \in Ref,
               (\E i \in Ref : Link(i, d)) \/ (\E i \in Id : Unlink(i, d))
        PROVE  KeepsClaims
    <2>1. PICK j \in DOMAIN items, ds \in SUBSET Ref :
              items' = [items EXCEPT ![j] = [items[j] EXCEPT !.deps = ds]]
      BY <1>4, LinksEffect
    <2> QED
      BY <2>1 DEF KeepsClaims, Item
  <1>5. ASSUME NEW its, its \in [DOMAIN its -> Item], NEW i \in DOMAIN its,
               NEW kids, NEW owner, NEW traits, kids \cap DOMAIN its = {}
        PROVE  \A x \in DOMAIN its :
                  /\ WithSubtasks(its, i, kids, owner, traits)[x].claimedBy = its[x].claimedBy
                  /\ [WithSubtasks(its, i, kids, owner, traits) EXCEPT
                         ![i].status = "deferred"][x].claimedBy = its[x].claimedBy
    BY <1>5 DEF WithSubtasks, Item
  <1>6. ASSUME NEW i \in Id, NEW n \in 1..MaxSubtasks, NEW owner \in Owner,
               NEW traits \in Traits,
               Atomize(i, n, owner, traits) \/ AtomizeKilled(i, n, owner, traits)
        PROVE  KeepsClaims
    <2>1. i \in DOMAIN items /\ "task" \in Kinds
      BY <1>6 DEF Atomize, AtomizeKilled, CanAtomize
    <2>2. PICK kids \in SUBSET Id :
             /\ FreshTasks(items, n, kids)
             /\ \/ items' = WithSubtasks(items, i, kids, owner, traits)
                \/ items' = [WithSubtasks(items, i, kids, owner, traits) EXCEPT ![i].status = "deferred"]
      BY <1>6 DEF Atomize, AtomizeKilled
    <2>3. kids \cap DOMAIN items = {}
      BY <2>1, <2>2, FreshTasksAreNew, BoundsAssumption
    <2>4. /\ \A x \in DOMAIN items :
                WithSubtasks(items, i, kids, owner, traits)[x].claimedBy = items[x].claimedBy
          /\ \A x \in DOMAIN items :
                [WithSubtasks(items, i, kids, owner, traits) EXCEPT
                    ![i].status = "deferred"][x].claimedBy = items[x].claimedBy
      BY <1>5, <2>1, <2>3
    <2> QED
      BY <2>2, <2>4 DEF KeepsClaims
  <1>7. ASSUME NEW S \in SUBSET Id, Archive(S) \/ ArchiveKilled(S)
        PROVE  KeepsClaims
    BY <1>7 DEF Archive, ArchiveKilled, KeepsClaims, Item
  <1>8. ASSUME NEW i \in Id, NEW st \in STATUSES, NEW owner \in Owner,
               NEW val \in Owner, NEW traits \in Traits,
                 Update(i, st, owner, val, traits)
        PROVE  KeepsClaims
    BY <1>8 DEF Update, Item, KeepsClaims
  <1>9. ASSUME NEW i \in Id, NEW who \in Agents, Assign(i, who) PROVE KeepsClaims
    BY <1>9 DEF Assign, Item, KeepsClaims
  <1>10. ASSUME NEW i \in Id, NEW written \in Writings, Rpetd(i, written)
         PROVE  KeepsClaims
    BY <1>10 DEF Rpetd, Item, KeepsClaims
  <1>11. ASSUME NEW i \in DOMAIN items, NEW b \in BOOLEAN,
                items' = [items EXCEPT ![i].cooling = b]
         PROVE  KeepsClaims
    BY <1>11 DEF KeepsClaims, Item
  <1>12. ASSUME NEW i \in Id, NEW force \in Overrides, NEW who \in Agents,
                NEW exempt \in BOOLEAN,
                \/ StatusGateFail(i, force)
                \/ ValidateGateFail(i, who, force, exempt)
                \/ CooldownEnds(i)
         PROVE  KeepsClaims
    BY <1>11, <1>12 DEF StatusGateFail, StatusAllowed, ValidateGateFail,
                        ValidateAllowed, CooldownEnds
  <1>13. ASSUME NEW i \in Id, NEW new \in NextStatuses, NEW who \in Agents,
                NEW force \in Overrides, Status(i, new, who, force)
         PROVE  KeepsClaims
    BY <1>13 DEF Status, StatusAllowed, Item, KeepsClaims
  <1>14. ASSUME NEW i \in Id, NEW who \in Agents, NEW force \in Overrides,
                NEW exempt \in BOOLEAN,
                ValidatePass(i, who, force, exempt) \/ PolicyCorrection(i, who, force)
         PROVE  KeepsClaims
    BY <1>14 DEF ValidatePass, PolicyCorrection, ValidateAllowed, Item, KeepsClaims
  <1>15. ASSUME NEW i \in DOMAIN items, NEW who \in Agents
         PROVE  /\ DOMAIN Failed(items, i, who) = DOMAIN items
                /\ \A x \in DOMAIN items :
                      Failed(items, i, who)[x].claimedBy = items[x].claimedBy
    BY DEF Failed, Item
  <1>16. ASSUME NEW i \in Id, NEW who \in Agents, NEW force \in Overrides,
                ValidateFail(i, who, force)
         PROVE  KeepsClaims
    BY <1>15, <1>16 DEF ValidateFail, ValidateAllowed, KeepsClaims
  <1>17. ASSUME NEW i \in Id, NEW who \in Agents, NEW force \in Overrides,
                NEW n \in 1..MaxSubtasks, NEW traits \in Traits,
                ValidateFailAndSplit(i, who, force, n, traits)
         PROVE  KeepsClaims
    <2> DEFINE f == Failed(items, i, who)
    <2>1. i \in DOMAIN items /\ "task" \in Kinds /\ items[i].failures < MaxFailures
      BY <1>17 DEF ValidateFailAndSplit, ValidateAllowed, CanAtomize
    <2>2. PICK kids \in SUBSET Id :
             /\ FreshTasks(items, n, kids)
             /\ items' = [WithSubtasks(f, i, kids, items[i].assigned, traits) EXCEPT ![i].status = "deferred"]
      BY <1>17 DEF ValidateFailAndSplit
    <2>3. kids \cap DOMAIN items = {}
      BY <2>1, <2>2, FreshTasksAreNew, BoundsAssumption
    <2>4. f \in [DOMAIN items -> Item] /\ DOMAIN f = DOMAIN items
      BY <2>1, FailedType
    <2>5. \A x \in DOMAIN items : f[x].claimedBy = items[x].claimedBy
      BY <1>15, <2>1
    <2> HIDE DEF f
    <2> QED
      BY <1>5, <2>1, <2>2, <2>3, <2>4, <2>5 DEF KeepsClaims
  <1>18. ASSUME NEW i \in Id, ClaimAges(i) \/ LogAges(i) PROVE KeepsClaims
    BY <1>18 DEF ClaimAges, LogAges, Item, KeepsClaims
  <1>19. CASE Structure
    BY <1>2, <1>3, <1>4, <1>6, <1>7, <1>19 DEF Structure
  <1>20. CASE Time
    <2>1. PICK i \in Id : CooldownEnds(i) \/ ClaimAges(i) \/ LogAges(i)
      BY <1>20 DEF Time
    <2> QED
      BY <1>11, <1>18, <2>1 DEF CooldownEnds
  <1>21. CASE Lifecycle
    <2>1. CASE \E i \in Id, st \in STATUSES, owner, val \in Owner, traits \in Traits :
                  Update(i, st, owner, val, traits)
      BY <1>8, <2>1
    <2>2. CASE \E i \in Id, who \in Agents : Assign(i, who) \/ Claim(i, who)
      BY <1>9, <2>2
    <2>3. CASE \E i \in Id, written \in Writings : Rpetd(i, written)
      BY <1>10, <2>3
    <2>4. CASE \E i \in Id, force \in Overrides : StatusGateFail(i, force)
      BY <1>12, <2>4, AgentsAssumption
    <2>5. CASE \E i \in Id, new \in NextStatuses, who \in Agents, force \in Overrides :
                  Status(i, new, who, force)
      BY <1>13, <2>5
    <2>6. CASE \E i \in Id, who \in Agents, force \in Overrides, exempt \in BOOLEAN :
                  ValidateGateFail(i, who, force, exempt)
                  \/ ValidatePass(i, who, force, exempt)
      BY <1>12, <1>14, <2>6
    <2>7. CASE \E i \in Id, who \in Agents, force \in Overrides :
                  PolicyCorrection(i, who, force) \/ ValidateFail(i, who, force)
      BY <1>14, <1>16, <2>7
    <2>8. CASE \E i \in Id, who \in Agents, force \in Overrides, n \in 1..MaxSubtasks,
                 traits \in Traits :
                  ValidateFailAndSplit(i, who, force, n, traits)
      BY <1>17, <2>8
    <2> QED
      BY <1>21, <2>1, <2>2, <2>3, <2>4, <2>5, <2>6, <2>7, <2>8 DEF Lifecycle
  <1> QED
    BY <1>1, <1>19, <1>20, <1>21 DEF Next

\* While a task is in progress or under validation nobody else becomes its
\* claimer, whatever is forced, updated or split in between.
THEOREM ClaimExclusive == Spec => ClaimIsExclusive
PROOF
  <1> DEFINE Held == \A i \in DOMAIN items \cap DOMAIN items' :
                        items[i].status \in {"in-progress", "validation"} =>
                            items'[i].claimedBy = items[i].claimedBy
  <1>1. ASSUME TypeOK, [Next]_vars PROVE Held
    <2>1. CASE KeepsClaims
      BY <2>1 DEF KeepsClaims
    <2>2. ASSUME NEW j \in Id, NEW who \in Agents, Claim(j, who) PROVE Held
      BY <2>2 DEF Claim, TypeOK, Item
    <2> QED
      BY <1>1, <2>1, <2>2, ClaimStep
  <1>2. TypeOK /\ [Next]_vars => [Held]_vars
    BY <1>1
  <1> QED
    BY <1>2, TypeCorrect, PTL DEF Spec, ClaimIsExclusive

----------------------------------------------------------------------------
(* Evidence and escalation, when nothing is overridden.                    *)

\* No --force, no raw update of a status, and new items start before the work.
Unforced ==
    /\ Overrides = {FALSE}
    /\ "update" \notin Commands
    /\ InitialStatuses \subseteq {"pending", "in-progress", "failed", "deferred"}

\* What the status of one item promises.
Earned(it) ==
    /\ it.status = "validation" => "TEST_EVIDENCE" \in it.evidence
    /\ it.status = "done" => {"TEST_EVIDENCE", "RPETD_COMPLETE"} \cap it.evidence # {}
    /\ it.status = "escalated" => it.failures >= MAX_FAILURES_BEFORE_ESCALATION

AllEarned == \A i \in DOMAIN items : Earned(items[i])

\* An edit of one item that leaves it earned.
LEMMA EditEarned ==
  ASSUME TypeOK, AllEarned, NEW i \in DOMAIN items, NEW it, Earned(it),
         items' = [items EXCEPT ![i] = it]
  PROVE  AllEarned'
BY DEF TypeOK, AllEarned, Earned

\* Items that keep the status, the evidence and the failures keep their promise.
LEMMA KeepEarned ==
  ASSUME AllEarned,
         \A x \in DOMAIN items' :
            \/ items'[x].status \in {"pending", "in-progress", "failed", "deferred"}
            \/ /\ x \in DOMAIN items
               /\ items'[x].status = items[x].status
               /\ items'[x].evidence = items[x].evidence
               /\ items'[x].failures = items[x].failures
  PROVE  AllEarned'
BY DEF AllEarned, Earned

\* Every unforced step keeps the promise of every status.
LEMMA EarnedStep ==
  ASSUME Unforced, TypeOK, AllEarned, [Next]_vars
  PROVE  AllEarned'
PROOF
  <1>1. CASE UNCHANGED vars
    BY <1>1 DEF vars, AllEarned, Earned
  <1>2. ASSUME NEW k \in Kinds, NEW par \in Id \cup {NoItem}, NEW ds \in SUBSET Ref,
               NEW owner \in Owner, NEW traits \in Traits, NEW st \in InitialStatuses,
               NEW force \in Overrides, Add(k, par, ds, owner, traits, st, force)
        PROVE  AllEarned'
    <2>1. PICK n \in 1..MaxSerial[k] :
             items' = [x \in DOMAIN items \cup {<<k, n>>} |->
                            IF x = <<k, n>> THEN NewItem(st, par, ds, owner, traits)
                            ELSE IF x = par
                                 THEN [items[x] EXCEPT !.children = @ \cup {<<k, n>>}]
                            ELSE items[x]]
      BY <1>2 DEF Add
    <2>2. NewItem(st, par, ds, owner, traits).status
            \in {"pending", "in-progress", "failed", "deferred"}
      BY DEF NewItem, Unforced
    <2> QED
      BY <2>1, <2>2, KeepEarned DEF TypeOK, Item
  <1>3. ASSUME NEW i \in Id, Delete(i) PROVE AllEarned'
    BY <1>3, KeepEarned DEF Delete, TypeOK, Item
  <1>4. ASSUME NEW d \in Ref,
               (\E i \in Ref : Link(i, d)) \/ (\E i \in Id : Unlink(i, d))
        PROVE  AllEarned'
    <2>1. PICK j \in DOMAIN items, ds \in SUBSET Ref :
              items' = [items EXCEPT ![j] = [items[j] EXCEPT !.deps = ds]]
      BY <1>4, LinksEffect
    <2> QED
      BY <2>1, KeepEarned DEF TypeOK, Item
  <1>5. ASSUME NEW S \in SUBSET Id, Archive(S) PROVE AllEarned'
    BY <1>5, KeepEarned DEF Archive, TypeOK, Item
  <1>6. ASSUME NEW S \in SUBSET Id, ArchiveKilled(S) PROVE AllEarned'
    BY <1>6 DEF ArchiveKilled, AllEarned, Earned
  <1>7. ASSUME NEW its, its \in [DOMAIN its -> Item], NEW i \in DOMAIN its,
               NEW kids, NEW owner, NEW traits
        PROVE  /\ \A x \in DOMAIN WithSubtasks(its, i, kids, owner, traits) :
                    \/ WithSubtasks(its, i, kids, owner, traits)[x].status = "pending"
                    \/ /\ x \in DOMAIN its
                       /\ WithSubtasks(its, i, kids, owner, traits)[x].status = its[x].status
                       /\ WithSubtasks(its, i, kids, owner, traits)[x].evidence = its[x].evidence
                       /\ WithSubtasks(its, i, kids, owner, traits)[x].failures = its[x].failures
               /\ DOMAIN WithSubtasks(its, i, kids, owner, traits) = DOMAIN its \cup kids
    BY <1>7 DEF WithSubtasks, NewItem, Item
  <1>8. ASSUME NEW i \in Id, NEW n \in 1..MaxSubtasks, NEW owner \in Owner,
               NEW traits \in Traits,
               Atomize(i, n, owner, traits) \/ AtomizeKilled(i, n, owner, traits)
        PROVE  AllEarned'
    <2>1. i \in DOMAIN items
      BY <1>8 DEF Atomize, AtomizeKilled
    <2>2. PICK kids \in SUBSET Id :
             \/ items' = WithSubtasks(items, i, kids, owner, traits)
             \/ items' = [WithSubtasks(items, i, kids, owner, traits) EXCEPT ![i].status = "deferred"]
      BY <1>8 DEF Atomize, AtomizeKilled
    <2> DEFINE w == WithSubtasks(items, i, kids, owner, traits)
    <2>3. /\ \A x \in DOMAIN w : \/ w[x].status = "pending"
                                 \/ /\ x \in DOMAIN items
                                    /\ w[x].status = items[x].status
                                    /\ w[x].evidence = items[x].evidence
                                    /\ w[x].failures = items[x].failures
          /\ DOMAIN w = DOMAIN items \cup kids
      BY <1>7, <2>1 DEF TypeOK
    <2>4. w \in [DOMAIN items \cup kids -> Item]
      BY <2>1, SubtasksType DEF TypeOK
    <2>5. items' = w \/ items' = [w EXCEPT ![i].status = "deferred"]
      BY <2>2
    <2> HIDE DEF w
    <2> QED
      BY <2>1, <2>3, <2>4, <2>5, KeepEarned DEF Item
  <1>9. ASSUME NEW i \in Id, NEW who \in Agents, Assign(i, who) \/ Claim(i, who)
        PROVE  AllEarned'
    BY <1>9, KeepEarned DEF Assign, Claim, TypeOK, Item
  <1>10. ASSUME NEW i \in Id, NEW written \in Writings, Rpetd(i, written)
         PROVE  AllEarned'
    BY <1>10, EditEarned DEF Rpetd, TypeOK, Item, AllEarned, Earned
  <1>11. ASSUME NEW i \in DOMAIN items, NEW b \in BOOLEAN,
                items' = [items EXCEPT ![i].cooling = b]
         PROVE  AllEarned'
    BY <1>11, KeepEarned DEF TypeOK, Item
  <1>12. ASSUME NEW i \in Id, NEW force \in Overrides, StatusGateFail(i, force)
         PROVE  AllEarned'
    BY <1>11, <1>12 DEF StatusGateFail, StatusAllowed
  <1>13. ASSUME NEW i \in Id, NEW who \in Agents, NEW force \in Overrides,
                NEW exempt \in BOOLEAN, ValidateGateFail(i, who, force, exempt)
         PROVE  AllEarned'
    BY <1>11, <1>13 DEF ValidateGateFail, ValidateAllowed
  <1>14. ASSUME NEW i \in Id, NEW new \in NextStatuses, NEW who \in Agents,
                NEW force \in Overrides, Status(i, new, who, force)
         PROVE  AllEarned'
    <2>1. /\ i \in DOMAIN items /\ items[i] \in Item
          /\ new \in ALLOWED_TRANSITIONS[items[i].status]
          /\ new = "validation" => SubmissionGaps(items[i]) = {}
          /\ items' = [items EXCEPT ![i].status = new]
      BY <1>14 DEF Status, StatusAllowed, Unforced, TypeOK
    <2>2. new # "escalated" /\ (new = "done" => items[i].status = "validation")
      BY <2>1 DEF ALLOWED_TRANSITIONS, STATUSES, Item
    <2>3. new = "validation" => "TEST_EVIDENCE" \in items[i].evidence
      BY <2>1 DEF SubmissionGaps
    <2>4. Earned([items[i] EXCEPT !.status = new])
      BY <2>1, <2>2, <2>3 DEF AllEarned, Earned, Item
    <2> QED
      BY <2>1, <2>4, EditEarned
  <1>15. ASSUME NEW i \in Id, NEW who \in Agents, NEW force \in Overrides,
                NEW exempt \in BOOLEAN, ValidatePass(i, who, force, exempt)
         PROVE  AllEarned'
    <2>1. /\ i \in DOMAIN items /\ items[i] \in Item
          /\ FailedGates(items[i], exempt) = {}
          /\ items' = [items EXCEPT ![i] =
                          [items[i] EXCEPT !.status = "done", !.validatedBy = who]]
      BY <1>15 DEF ValidatePass, ValidateAllowed, Unforced, TypeOK
    <2>2. "RPETD_COMPLETE" \in items[i].evidence
      BY <2>1 DEF FailedGates
    <2>3. Earned([items[i] EXCEPT !.status = "done", !.validatedBy = who])
      BY <2>1, <2>2 DEF Earned, Item
    <2> QED
      BY <2>1, <2>3, EditEarned
  <1>16. ASSUME NEW i \in Id, NEW who \in Agents, NEW force \in Overrides,
                PolicyCorrection(i, who, force)
         PROVE  AllEarned'
    <2>1. /\ i \in DOMAIN items /\ items[i] \in Item
          /\ "RPETD_COMPLETE" \in items[i].evidence
          /\ items' = [items EXCEPT ![i] =
                          [items[i] EXCEPT !.status = "done", !.validatedBy = who]]
      BY <1>16 DEF PolicyCorrection, ValidateAllowed, TypeOK
    <2>2. Earned([items[i] EXCEPT !.status = "done", !.validatedBy = who])
      BY <2>1 DEF Earned, Item
    <2> QED
      BY <2>1, <2>2, EditEarned
  <1>17. ASSUME NEW i \in DOMAIN items, NEW who \in Agents
         PROVE  /\ DOMAIN Failed(items, i, who) = DOMAIN items
                /\ \A x \in DOMAIN items : Earned(Failed(items, i, who)[x])
    <2> DEFINE st == IF items[i].failures + 1 >= MAX_FAILURES_BEFORE_ESCALATION
                     THEN "escalated" ELSE "pending"
               it == [items[i] EXCEPT !.failures = items[i].failures + 1,
                                      !.validatedBy = who, !.status = st]
    <2>1. it.status = st /\ it.failures = items[i].failures + 1
      BY DEF TypeOK, Item
    <2>2. Earned(it)
      BY <2>1 DEF Earned
    <2>3. Failed(items, i, who) = [items EXCEPT ![i] = it]
      BY DEF Failed
    <2> HIDE DEF it
    <2> QED
      BY <2>2, <2>3 DEF TypeOK, AllEarned
  <1>18. ASSUME NEW i \in Id, NEW who \in Agents, NEW force \in Overrides,
                ValidateFail(i, who, force)
         PROVE  AllEarned'
    BY <1>17, <1>18 DEF ValidateFail, ValidateAllowed, AllEarned, Earned
  <1>19. ASSUME NEW i \in Id, NEW who \in Agents, NEW force \in Overrides,
                NEW n \in 1..MaxSubtasks, NEW traits \in Traits,
                ValidateFailAndSplit(i, who, force, n, traits)
         PROVE  AllEarned'
    <2> DEFINE f == Failed(items, i, who)
    <2>1. i \in DOMAIN items /\ items[i].failures < MaxFailures
      BY <1>19 DEF ValidateFailAndSplit, ValidateAllowed
    <2>2. /\ f \in [DOMAIN items -> Item] /\ DOMAIN f = DOMAIN items
          /\ \A x \in DOMAIN f : Earned(f[x])
      BY <1>17, <2>1, FailedType
    <2>3. PICK kids \in SUBSET Id :
             items' = [WithSubtasks(f, i, kids, items[i].assigned, traits) EXCEPT ![i].status = "deferred"]
      BY <1>19 DEF ValidateFailAndSplit
    <2> HIDE DEF f
    <2> DEFINE w == WithSubtasks(f, i, kids, items[i].assigned, traits)
    <2>4. /\ \A x \in DOMAIN w : \/ w[x].status = "pending"
                                 \/ /\ x \in DOMAIN f
                                    /\ w[x].status = f[x].status
                                    /\ w[x].evidence = f[x].evidence
                                    /\ w[x].failures = f[x].failures
          /\ DOMAIN w = DOMAIN f \cup kids
      BY <1>7, <2>1, <2>2
    <2>5. w \in [DOMAIN f \cup kids -> Item]
      <3>1. items[i].assigned \in Owner /\ DOMAIN f \subseteq Id /\ f \in [DOMAIN f -> Item]
        BY <2>1, <2>2 DEF TypeOK, Item
      <3> HIDE DEF w
      <3>2. WithSubtasks(f, i, kids, items[i].assigned, traits)
              \in [DOMAIN f \cup kids -> Item]
        BY <2>1, <2>2, <3>1, SubtasksType
      <3> QED
        BY <3>2 DEF w
    <2>6. items' = [w EXCEPT ![i].status = "deferred"]
      BY <2>3
    <2> HIDE DEF w
    <2>7. \A x \in DOMAIN w : Earned(w[x])
      BY <2>2, <2>4 DEF Earned
    <2>8. Earned([w[i] EXCEPT !.status = "deferred"])
      BY <2>1, <2>2, <2>5 DEF Earned, Item
    <2> QED
      BY <2>1, <2>2, <2>4, <2>5, <2>6, <2>7, <2>8 DEF AllEarned, Earned
  <1>20. ASSUME NEW i \in Id, ClaimAges(i) \/ LogAges(i) PROVE AllEarned'
    BY <1>20, KeepEarned DEF ClaimAges, LogAges, TypeOK, Item
  <1>21. CASE Structure
    BY <1>2, <1>3, <1>4, <1>5, <1>6, <1>8, <1>21 DEF Structure
  <1>22. CASE Time
    <2>1. PICK i \in Id : CooldownEnds(i) \/ ClaimAges(i) \/ LogAges(i)
      BY <1>22 DEF Time
    <2> QED
      BY <1>11, <1>20, <2>1 DEF CooldownEnds
  <1>23. CASE Lifecycle
    <2>1. CASE \E i \in Id, st \in STATUSES, owner, val \in Owner, traits \in Traits :
                  Update(i, st, owner, val, traits)
      BY <2>1 DEF Update, Unforced
    <2>2. CASE \E i \in Id, who \in Agents : Assign(i, who) \/ Claim(i, who)
      BY <1>9, <2>2
    <2>3. CASE \E i \in Id, written \in Writings : Rpetd(i, written)
      BY <1>10, <2>3
    <2>4. CASE \E i \in Id, force \in Overrides : StatusGateFail(i, force)
      BY <1>12, <2>4
    <2>5. CASE \E i \in Id, new \in NextStatuses, who \in Agents, force \in Overrides :
                  Status(i, new, who, force)
      BY <1>14, <2>5
    <2>6. CASE \E i \in Id, who \in Agents, force \in Overrides, exempt \in BOOLEAN :
                  ValidateGateFail(i, who, force, exempt)
                  \/ ValidatePass(i, who, force, exempt)
      BY <1>13, <1>15, <2>6
    <2>7. CASE \E i \in Id, who \in Agents, force \in Overrides :
                  PolicyCorrection(i, who, force) \/ ValidateFail(i, who, force)
      BY <1>16, <1>18, <2>7
    <2>8. CASE \E i \in Id, who \in Agents, force \in Overrides, n \in 1..MaxSubtasks,
                 traits \in Traits :
                  ValidateFailAndSplit(i, who, force, n, traits)
      BY <1>19, <2>8
    <2> QED
      BY <1>23, <2>1, <2>2, <2>3, <2>4, <2>5, <2>6, <2>7, <2>8 DEF Lifecycle
  <1> QED
    BY <1>1, <1>21, <1>22, <1>23 DEF Next

\* Without overrides, every status is earned for ever.
LEMMA EarnedForever == ASSUME Unforced PROVE Spec => []AllEarned
PROOF
  <1>1. Init => TypeOK /\ AllEarned
    BY DEF Init, TypeOK, AllEarned
  <1>2. TypeOK /\ AllEarned /\ [Next]_vars => (TypeOK /\ AllEarned)'
    BY TypeStep, EarnedStep
  <1> QED
    BY <1>1, <1>2, PTL DEF Spec

\* Without overrides and raw updates, what is under validation or done has
\* evidence behind it.
THEOREM ProvenWork == ASSUME Unforced PROVE Spec => []NoUnprovenWork
PROOF
  <1>1. AllEarned => NoUnprovenWork
    BY DEF AllEarned, Earned, NoUnprovenWork
  <1> QED
    BY <1>1, EarnedForever, PTL

\* Without overrides and raw updates, an escalated item failed three times.
THEOREM EscalationsEarned == ASSUME Unforced PROVE Spec => []EscalationEarned
PROOF
  <1>1. AllEarned => EscalationEarned
    BY DEF AllEarned, Earned, EscalationEarned
  <1> QED
    BY <1>1, EarnedForever, PTL

----------------------------------------------------------------------------
(* Dependencies.                                                           *)

\* No --force and no raw update.
Checked == Overrides = {FALSE} /\ "update" \notin Commands

Turned(x) == items[x].status # "done" /\ items'[x].status = "done"

\* What a step that marks an item done had to find.
Allowed(x) == \/ _depsMet(items, items[x].deps)
              \/ \E who \in Agents : PolicyCorrection(x, who, FALSE)

TurnsAllowed == \A x \in DOMAIN items \cap DOMAIN items' : Turned(x) => Allowed(x)

\* A step that leaves every status or makes it something else than done.
NoneTurned == \A x \in DOMAIN items \cap DOMAIN items' :
                 items'[x].status = items[x].status \/ items'[x].status # "done"

\* Subtasks are written under new ids and leave the statuses alone.
LEMMA SubtasksTurnNone ==
  ASSUME TypeOK, NEW its \in [DOMAIN items -> Item], NEW i \in DOMAIN items, NEW n \in Nat,
         NEW kids \in SUBSET Id, FreshTasks(items, n, kids), CanAtomize(i),
         NEW owner \in Owner, NEW traits \in Traits,
         \A x \in DOMAIN items : its[x].status = items[x].status \/ its[x].status # "done",
         \/ items' = WithSubtasks(its, i, kids, owner, traits)
         \/ items' = [WithSubtasks(its, i, kids, owner, traits) EXCEPT ![i].status = "deferred"]
  PROVE  NoneTurned
PROOF
  <1>1. kids \cap DOMAIN items = {}
    BY FreshTasksAreNew DEF CanAtomize
  <1>2. DOMAIN its = DOMAIN items
    OBVIOUS
  <1> DEFINE w == WithSubtasks(its, i, kids, owner, traits)
  <1>3. /\ w \in [DOMAIN items \cup kids -> Item]
        /\ \A x \in DOMAIN items : w[x].status = its[x].status
    <2>1. w \in [DOMAIN items \cup kids -> Item]
      BY <1>2, SubtasksType DEF TypeOK
    <2>2. \A x \in DOMAIN items : w[x].status = its[x].status
      BY <1>1, <1>2 DEF WithSubtasks, Item
    <2> QED
      BY <2>1, <2>2
  <1>4. items' = w \/ items' = [w EXCEPT ![i].status = "deferred"]
    OBVIOUS
  <1> HIDE DEF w
  <1> QED
    BY <1>3, <1>4 DEF NoneTurned, Item

LEMMA DoneStep ==
  ASSUME Checked, TypeOK, [Next]_vars
  PROVE  TurnsAllowed
PROOF
  <1>0. NoneTurned => TurnsAllowed
    BY DEF NoneTurned, TurnsAllowed, Turned
  <1>1. CASE UNCHANGED vars
    BY <1>1, <1>0 DEF vars, NoneTurned
  <1>2. ASSUME NEW k \in Kinds, NEW par \in Id \cup {NoItem}, NEW ds \in SUBSET Ref,
               NEW owner \in Owner, NEW traits \in Traits, NEW st \in InitialStatuses,
               NEW force \in Overrides, Add(k, par, ds, owner, traits, st, force)
        PROVE  NoneTurned
    <2>1. PICK new \in Id \ DOMAIN items :
             /\ items' = [x \in DOMAIN items \cup {new} |->
                            IF x = new THEN NewItem(st, par, ds, owner, traits)
                            ELSE IF x = par
                                 THEN [items[x] EXCEPT !.children = @ \cup {new}]
                            ELSE items[x]]
      <3>1. PICK n \in 1..MaxSerial[k] :
               /\ LastSerial(items, k, n - 1)
               /\ items' = [x \in DOMAIN items \cup {<<k, n>>} |->
                              IF x = <<k, n>> THEN NewItem(st, par, ds, owner, traits)
                              ELSE IF x = par
                                   THEN [items[x] EXCEPT !.children = @ \cup {<<k, n>>}]
                              ELSE items[x]]
        BY <1>2 DEF Add
      <3>2. <<k, n>> \notin DOMAIN items
        BY <3>1, BoundsAssumption DEF LastSerial
      <3>3. <<k, n>> \in Id
        BY DEF Id
      <3> QED
        BY <3>1, <3>2, <3>3
    <2> QED
      BY <2>1 DEF NoneTurned, TypeOK, Item
  <1>3. ASSUME NEW i \in Id, Delete(i) PROVE NoneTurned
    BY <1>3 DEF Delete, NoneTurned, TypeOK, Item
  <1>4. ASSUME NEW d \in Ref,
               (\E i \in Ref : Link(i, d)) \/ (\E i \in Id : Unlink(i, d))
        PROVE  NoneTurned
    <2>1. PICK j \in DOMAIN items, ds \in SUBSET Ref :
              items' = [items EXCEPT ![j] = [items[j] EXCEPT !.deps = ds]]
      BY <1>4, LinksEffect
    <2> QED
      BY <2>1 DEF NoneTurned, TypeOK, Item
  <1>5. ASSUME NEW i \in Id, NEW n \in 1..MaxSubtasks, NEW owner \in Owner,
               NEW traits \in Traits,
               Atomize(i, n, owner, traits) \/ AtomizeKilled(i, n, owner, traits)
        PROVE  NoneTurned
    <2>1. /\ i \in DOMAIN items /\ CanAtomize(i) /\ n \in Nat
          /\ items \in [DOMAIN items -> Item]
      BY <1>5, BoundsAssumption DEF Atomize, AtomizeKilled, TypeOK
    <2>2. PICK kids \in SUBSET Id :
             /\ FreshTasks(items, n, kids)
             /\ \/ items' = WithSubtasks(items, i, kids, owner, traits)
                \/ items' = [WithSubtasks(items, i, kids, owner, traits) EXCEPT ![i].status = "deferred"]
      BY <1>5 DEF Atomize, AtomizeKilled
    <2> QED
      BY <2>1, <2>2, SubtasksTurnNone
  <1>6. ASSUME NEW S \in SUBSET Id, Archive(S) \/ ArchiveKilled(S)
        PROVE  NoneTurned
    BY <1>6 DEF Archive, ArchiveKilled, NoneTurned, TypeOK, Item
  <1>7. ASSUME NEW i \in Id, NEW who \in Agents, Assign(i, who) \/ Claim(i, who)
        PROVE  NoneTurned
    BY <1>7 DEF Assign, Claim, NoneTurned, TypeOK, Item
  <1>8. ASSUME NEW i \in Id, NEW written \in Writings, Rpetd(i, written)
        PROVE  NoneTurned
    BY <1>8 DEF Rpetd, NoneTurned, TypeOK, Item
  <1>9. ASSUME NEW i \in DOMAIN items, NEW b \in BOOLEAN,
               items' = [items EXCEPT ![i].cooling = b]
        PROVE  NoneTurned
    BY <1>9 DEF NoneTurned, TypeOK, Item
  <1>10. ASSUME NEW i \in Id, NEW force \in Overrides, NEW who \in Agents,
                NEW exempt \in BOOLEAN,
                \/ StatusGateFail(i, force)
                \/ ValidateGateFail(i, who, force, exempt)
         PROVE  NoneTurned
    BY <1>9, <1>10 DEF StatusGateFail, StatusAllowed, ValidateGateFail, ValidateAllowed
  <1>11. ASSUME NEW i \in Id, NEW new \in NextStatuses, NEW who \in Agents,
                NEW force \in Overrides, Status(i, new, who, force)
         PROVE  TurnsAllowed
    <2>1. /\ i \in DOMAIN items /\ items' = [items EXCEPT ![i].status = new]
          /\ new = "done" => _depsMet(items, items[i].deps)
      BY <1>11 DEF Status, StatusAllowed, Checked
    <2> QED
      BY <2>1 DEF TurnsAllowed, Turned, Allowed, TypeOK, Item
  <1>12. ASSUME NEW i \in Id, NEW who \in Agents, NEW force \in Overrides,
                NEW exempt \in BOOLEAN, ValidatePass(i, who, force, exempt)
         PROVE  TurnsAllowed
    <2>1. /\ i \in DOMAIN items /\ _depsMet(items, items[i].deps)
          /\ items' = [items EXCEPT ![i] =
                          [items[i] EXCEPT !.status = "done", !.validatedBy = who]]
      BY <1>12 DEF ValidatePass, ValidateAllowed, Checked, TypeOK
    <2> QED
      BY <2>1 DEF TurnsAllowed, Turned, Allowed, TypeOK
  <1>13. ASSUME NEW i \in Id, NEW who \in Agents, NEW force \in Overrides,
                PolicyCorrection(i, who, force)
         PROVE  TurnsAllowed
    <2>1. /\ i \in DOMAIN items /\ PolicyCorrection(i, who, FALSE)
      BY <1>13 DEF PolicyCorrection, ValidateAllowed, Checked
    <2>2. items' = [items EXCEPT ![i] =
                       [items[i] EXCEPT !.status = "done", !.validatedBy = who]]
      BY <1>13 DEF PolicyCorrection, TypeOK
    <2> QED
      BY <2>1, <2>2 DEF TurnsAllowed, Turned, Allowed, TypeOK
  <1>14. ASSUME NEW i \in DOMAIN items, NEW who \in Agents
         PROVE  /\ DOMAIN Failed(items, i, who) = DOMAIN items
                /\ \A x \in DOMAIN items :
                      \/ Failed(items, i, who)[x].status = items[x].status
                      \/ Failed(items, i, who)[x].status # "done"
    <2> DEFINE st == IF items[i].failures + 1 >= MAX_FAILURES_BEFORE_ESCALATION
                     THEN "escalated" ELSE "pending"
               it == [items[i] EXCEPT !.failures = items[i].failures + 1,
                                      !.validatedBy = who, !.status = st]
    <2>1. it.status # "done"
      BY DEF TypeOK, Item
    <2>2. Failed(items, i, who) = [items EXCEPT ![i] = it]
      BY DEF Failed
    <2> HIDE DEF it
    <2> QED
      BY <2>1, <2>2 DEF TypeOK
  <1>15. ASSUME NEW i \in Id, NEW who \in Agents, NEW force \in Overrides,
                ValidateFail(i, who, force)
         PROVE  NoneTurned
    BY <1>14, <1>15 DEF ValidateFail, ValidateAllowed, NoneTurned
  <1>16. ASSUME NEW i \in Id, NEW who \in Agents, NEW force \in Overrides,
                NEW n \in 1..MaxSubtasks, NEW traits \in Traits,
                ValidateFailAndSplit(i, who, force, n, traits)
         PROVE  NoneTurned
    <2> DEFINE f == Failed(items, i, who)
    <2>1. /\ i \in DOMAIN items /\ CanAtomize(i) /\ n \in Nat
          /\ items[i].failures < MaxFailures
      BY <1>16, BoundsAssumption DEF ValidateFailAndSplit, ValidateAllowed
    <2>2. /\ f \in [DOMAIN items -> Item]
          /\ \A x \in DOMAIN items : f[x].status = items[x].status \/ f[x].status # "done"
      BY <1>14, <2>1, FailedType
    <2>3. PICK kids \in SUBSET Id :
             /\ FreshTasks(items, n, kids)
             /\ items' = [WithSubtasks(f, i, kids, items[i].assigned, traits) EXCEPT ![i].status = "deferred"]
      BY <1>16 DEF ValidateFailAndSplit
    <2>4. items[i].assigned \in Owner
      BY <2>1 DEF TypeOK, Item
    <2> HIDE DEF f
    <2> QED
      BY <2>1, <2>2, <2>3, <2>4, SubtasksTurnNone
  <1>17. ASSUME NEW i \in Id, ClaimAges(i) \/ LogAges(i) PROVE NoneTurned
    BY <1>17 DEF ClaimAges, LogAges, NoneTurned, TypeOK, Item
  <1>18. CASE Structure
    BY <1>0, <1>2, <1>3, <1>4, <1>5, <1>6, <1>18 DEF Structure
  <1>19. CASE Time
    <2>1. PICK i \in Id : CooldownEnds(i) \/ ClaimAges(i) \/ LogAges(i)
      BY <1>19 DEF Time
    <2> QED
      BY <1>0, <1>9, <1>17, <2>1 DEF CooldownEnds
  <1>20. CASE Lifecycle
    <2>1. CASE \E i \in Id, st \in STATUSES, owner, val \in Owner, traits \in Traits :
                  Update(i, st, owner, val, traits)
      BY <2>1 DEF Update, Checked
    <2>2. CASE \E i \in Id, who \in Agents : Assign(i, who) \/ Claim(i, who)
      BY <1>0, <1>7, <2>2
    <2>3. CASE \E i \in Id, written \in Writings : Rpetd(i, written)
      BY <1>0, <1>8, <2>3
    <2>4. CASE \E i \in Id, force \in Overrides : StatusGateFail(i, force)
      BY <1>0, <1>10, <2>4, AgentsAssumption
    <2>5. CASE \E i \in Id, new \in NextStatuses, who \in Agents, force \in Overrides :
                  Status(i, new, who, force)
      BY <1>11, <2>5
    <2>6. CASE \E i \in Id, who \in Agents, force \in Overrides, exempt \in BOOLEAN :
                  ValidateGateFail(i, who, force, exempt)
                  \/ ValidatePass(i, who, force, exempt)
      BY <1>0, <1>10, <1>12, <2>6
    <2>7. CASE \E i \in Id, who \in Agents, force \in Overrides :
                  PolicyCorrection(i, who, force) \/ ValidateFail(i, who, force)
      BY <1>0, <1>13, <1>15, <2>7
    <2>8. CASE \E i \in Id, who \in Agents, force \in Overrides, n \in 1..MaxSubtasks,
                 traits \in Traits :
                  ValidateFailAndSplit(i, who, force, n, traits)
      BY <1>0, <1>16, <2>8
    <2> QED
      BY <1>20, <2>1, <2>2, <2>3, <2>4, <2>5, <2>6, <2>7, <2>8 DEF Lifecycle
  <1> QED
    BY <1>1, <1>18, <1>19, <1>20 DEF Next

\* Without overrides and raw updates, an item becomes done only when its
\* dependencies are done, but for the policy correction of cmd_validate.
THEOREM DoneWaitsForDeps == ASSUME Checked PROVE Spec => DoneAfterDeps
PROOF
  <1> DEFINE Waits == \A i \in DOMAIN items \cap DOMAIN items' :
                         items[i].status # "done" /\ items'[i].status = "done"
                             => \/ _depsMet(items, items[i].deps)
                                \/ \E who \in Agents : PolicyCorrection(i, who, FALSE)
  <1>1. TypeOK /\ [Next]_vars => [Waits]_vars
    BY DoneStep DEF TurnsAllowed, Turned, Allowed
  <1> QED
    BY <1>1, TypeCorrect, PTL DEF Spec, DoneAfterDeps

----------------------------------------------------------------------------
(* The watchdog beside the engine.                                         *)

\* A step of the two is a command, a revert of one item, or changes no item.
Reverted(i) ==
    /\ i \in DOMAIN items
    /\ items' = [items EXCEPT ![i].status = "pending"]
    /\ archive' = archive

LEMMA WatchdogStep ==
  ASSUME WatchdogTypeOK, [WatchdogNext]_wvars
  PROVE  /\ [Next]_vars \/ \E i \in Id : Reverted(i)
         /\ doomed' \in SUBSET Id
PROOF
  <1> USE DEF WatchdogTypeOK
  <1>1. CASE Next /\ UNCHANGED doomed
    BY <1>1
  <1>2. CASE Scan
    BY <1>2 DEF Scan, StaleItems, TypeOK
  <1>3. ASSUME NEW i \in doomed, Revert(i) \/ RevertLost(i)
        PROVE  ([Next]_vars \/ \E j \in Id : Reverted(j)) /\ doomed' \in SUBSET Id
    BY <1>3 DEF Revert, RevertLost, Reverted, vars
  <1>4. CASE WatchdogRestart
    BY <1>4 DEF WatchdogRestart
  <1>5. CASE UNCHANGED wvars
    BY <1>5 DEF wvars, vars
  <1> QED
    BY <1>1, <1>2, <1>3, <1>4, <1>5 DEF WatchdogNext

LEMMA WatchdogTypeStep ==
  ASSUME WatchdogTypeOK, [WatchdogNext]_wvars
  PROVE  WatchdogTypeOK'
PROOF
  <1>1. ASSUME NEW i \in Id, Reverted(i) PROVE TypeOK'
    <2>1. /\ i \in DOMAIN items /\ archive' = archive /\ items[i] \in Item
          /\ items' = [items EXCEPT ![i] = [items[i] EXCEPT !.status = "pending"]]
      BY <1>1 DEF Reverted, WatchdogTypeOK, TypeOK
    <2>2. [items[i] EXCEPT !.status = "pending"] \in Item
      BY <2>1 DEF Item, STATUSES
    <2> QED
      BY <2>1, <2>2, EditType DEF WatchdogTypeOK
  <1> QED
    BY <1>1, WatchdogStep, TypeStep DEF WatchdogTypeOK

\* Commands and watchdog passes, restarted or not, keep the types.
THEOREM WatchdogTypes == WatchdogSpec => []WatchdogTypeOK
PROOF
  <1>1. WatchdogInit => WatchdogTypeOK
    BY DEF WatchdogInit, Init, WatchdogTypeOK, TypeOK
  <1> QED
    BY <1>1, WatchdogTypeStep, PTL DEF WatchdogSpec

\* Where operators may force an item back to pending, the watchdog does
\* nothing that an operator could not do: it implements the task engine, and
\* every theorem about the engine holds beside it.
THEOREM WatchdogIsAnOperator ==
  ASSUME TRUE \in Overrides, "status" \in Commands, "pending" \in NextStatuses
  PROVE  WatchdogSpec => Spec
PROOF
  <1>1. WatchdogInit => Init
    BY DEF WatchdogInit
  <1>2. ASSUME WatchdogTypeOK, [WatchdogNext]_wvars PROVE [Next]_vars
    <2>1. ASSUME NEW i \in Id, Reverted(i) PROVE Next
      <3>1. Validator \in Agents
        BY AgentsAssumption
      <3>2. Status(i, "pending", Validator, TRUE)
        BY <2>1 DEF Reverted, Status, StatusAllowed
      <3> QED
        BY <3>1, <3>2 DEF Next, Lifecycle
    <2> QED
      BY <1>2, <2>1, WatchdogStep
  <1> QED
    BY <1>1, <1>2, WatchdogTypes, PTL DEF WatchdogSpec, Spec

\* The watchdog takes work back, but it never hands a held item to another
\* agent, whatever its pass has read before other commands came in between.
THEOREM WatchdogKeepsClaims == WatchdogSpec => ClaimIsExclusive
PROOF
  <1> DEFINE Held == \A i \in DOMAIN items \cap DOMAIN items' :
                        items[i].status \in {"in-progress", "validation"} =>
                            items'[i].claimedBy = items[i].claimedBy
  <1>1. ASSUME WatchdogTypeOK, [WatchdogNext]_wvars PROVE Held
    <2>1. CASE [Next]_vars
      <3>1. CASE KeepsClaims
        BY <3>1 DEF KeepsClaims
      <3>2. ASSUME NEW j \in Id, NEW who \in Agents, Claim(j, who) PROVE Held
        BY <1>1, <3>2 DEF Claim, WatchdogTypeOK, TypeOK, Item
      <3> QED
        BY <1>1, <2>1, <3>1, <3>2, ClaimStep DEF WatchdogTypeOK
    <2>2. ASSUME NEW i \in Id, Reverted(i) PROVE Held
      BY <1>1, <2>2 DEF Reverted, WatchdogTypeOK, TypeOK, Item
    <2> QED
      BY <1>1, <2>1, <2>2, WatchdogStep
  <1>2. WatchdogTypeOK /\ [WatchdogNext]_wvars => [Held]_vars
    BY <1>1
  <1> QED
    BY <1>2, WatchdogTypes, PTL DEF WatchdogSpec, ClaimIsExclusive

\* The forced reverts of the watchdog are the one override that takes no
\* evidence away: beside it too, what is under validation, done or escalated
\* has earned it.
THEOREM WatchdogKeepsEvidence ==
  ASSUME Unforced
  PROVE  WatchdogSpec => [](NoUnprovenWork /\ EscalationEarned)
PROOF
  <1>1. WatchdogInit => AllEarned
    BY DEF WatchdogInit, Init, AllEarned
  <1>2. ASSUME WatchdogTypeOK, AllEarned, [WatchdogNext]_wvars PROVE AllEarned'
    <2>1. ASSUME NEW i \in Id, Reverted(i) PROVE AllEarned'
      BY <1>2, <2>1, KeepEarned DEF Reverted, WatchdogTypeOK, TypeOK, Item
    <2> QED
      BY <1>2, <2>1, WatchdogStep, EarnedStep DEF WatchdogTypeOK
  <1>3. AllEarned => NoUnprovenWork /\ EscalationEarned
    BY DEF AllEarned, Earned, NoUnprovenWork, EscalationEarned
  <1> QED
    BY <1>1, <1>2, <1>3, WatchdogTypes, PTL DEF WatchdogSpec
=============================================================================
