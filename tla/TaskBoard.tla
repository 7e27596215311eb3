----------------------------- MODULE TaskBoard -----------------------------
(***************************************************************************)
(* The task engine of amauta.py: the items of tasks.json and the items of  *)
(* tasks-archive.json, changed by the CLI commands.  A command loads the   *)
(* file, decides and saves it under one exclusive file lock (_file_lock),  *)
(* so a command is one step.  The steps that are not atomic in the code    *)
(* are those that write twice: archive (two files) and atomize (one save   *)
(* per subtask); the process can be killed in between (the daemon runs the *)
(* CLI in a subprocess with a timeout), and ArchiveKilled and              *)
(* AtomizeKilled are those executions.                                     *)
(*                                                                         *)
(* Titles, texts and timestamps are abstracted to what the code's guards   *)
(* tell apart: the evidence found in the RPETD phases, whether a GATE_FAIL *)
(* note is recent, and whether the claim and the last RPETD write are      *)
(* older than the watchdog's threshold.                                    *)
(*                                                                         *)
(* _find looks ids up without regard to case and goes on with the item it  *)
(* found, but --deps and the two ids of link and unlink are stored and     *)
(* compared as they were typed: they are references, an id and a spelling. *)
(* --parent is stored as typed too; it is only ever looked up, so its      *)
(* spelling is not kept here.                                              *)
(***************************************************************************)
EXTENDS Naturals, FiniteSets

CONSTANTS
    Agents,          \* the agents and operators that issue commands
    Validator,       \* the agent named "validator"
    NoOne,           \* an empty claimed_by/validated_by, assigned_to "unassigned"
    CodeOwners,      \* CODE_AGENTS
    OpencodeOwners,  \* OPENCODE_AGENTS, those of them that also do host work
    NonCodeOwners,   \* NON_CODE_AGENTS
    Traits,          \* what titles, texts and tags may say: sets of traits
    Spellings,       \* the ways an id is typed, different in case only
    AsIssued,        \* the spelling that _next_id gives
    Kinds,           \* the item types in use
    MaxSerial,       \* for each type, bound on the number in an id (TK-0001 ..)
    MaxFailures,     \* bound on failure_count
    MaxSubtasks,     \* bound on the subtasks of one atomize
    MaxDeps,         \* bound on the --deps of one add
    Writings,        \* what one RPETD write may add: sets of evidence
    InitialStatuses, \* the --status values given to add
    UpdateStatuses,  \* the --status values given to update
    NextStatuses,    \* the statuses given to status
    Overrides,       \* the values of --force / --force-reason in use
    Commands         \* the CLI commands in use

STATUSES == {"pending", "in-progress", "validation", "done", "failed",
             "deferred", "escalated"}
TYPES == {"epic", "story", "task", "bug"}
EVIDENCE == {"RPETD_COMPLETE", "R_PHASE_SUBSTANCE", "P_PHASE_SUBSTANCE",
             "BRANCH_EVIDENCE", "TEST_EVIDENCE", "T_SUBSTANCE",
             "LEARNING_BLOCK", "PR_URL", "NO_PR_MARKER"}
AGES == {"never", "fresh", "stale"}
\* exempt: tagged no-gitflow or non-code, memory hygiene, or the gate is off
TRAITS == {"exempt", "git-worded", "lane-infra", "host-worded"}

ASSUME AgentsAssumption ==
    /\ NoOne \notin Agents
    /\ Validator \in Agents
    /\ CodeOwners \subseteq Agents /\ NonCodeOwners \subseteq Agents
    /\ OpencodeOwners \subseteq CodeOwners
ASSUME BoundsAssumption ==
    /\ MaxSerial \in [Kinds -> Nat] /\ MaxFailures \in Nat
    /\ MaxSubtasks \in Nat /\ MaxDeps \in Nat
ASSUME InputsAssumption ==
    /\ Kinds \subseteq TYPES
    /\ Writings \subseteq SUBSET EVIDENCE
    /\ InitialStatuses \subseteq STATUSES
    /\ UpdateStatuses \subseteq STATUSES
    /\ NextStatuses \subseteq STATUSES
    /\ Overrides \subseteq BOOLEAN
    /\ Traits \subseteq SUBSET TRAITS
    /\ AsIssued \in Spellings

MAX_FAILURES_BEFORE_ESCALATION == 3

VALID_PARENT_TYPES ==
    [story |-> {"epic"}, task |-> {"story", "epic"},
     bug |-> {"task", "story", "epic"}, epic |-> {}]

ALLOWED_TRANSITIONS == [s \in STATUSES |->
    CASE s = "pending"     -> {"in-progress", "deferred", "failed"}
      [] s = "in-progress" -> {"validation", "failed", "deferred", "pending"}
      [] s = "validation"  -> {"done", "failed", "in-progress", "pending"}
      [] s = "done"        -> {"pending"}
      [] s = "failed"      -> {"pending", "in-progress", "deferred"}
      [] s = "deferred"    -> {"pending", "in-progress"}
      [] s = "escalated"   -> {"pending", "in-progress"}]

VARIABLES
    items,    \* tasks.json: a function from the ids in use to items
    archive   \* tasks-archive.json, the same way

vars == <<items, archive>>

Id == UNION {{k} \X (1..MaxSerial[k]) : k \in Kinds}
NoItem == <<"none", 0>>     \* parent = None
Owner == Agents \cup {NoOne}
Ref == Id \X Spellings      \* an id as typed

Item == [status: STATUSES, parent: Id \cup {NoItem}, children: SUBSET Id,
         deps: SUBSET Ref, assigned: Owner, claimedBy: Owner,
         validatedBy: Owner, traits: SUBSET TRAITS, evidence: SUBSET EVIDENCE,
         failures: 0..MaxFailures, cooling: BOOLEAN,
         claimAge: AGES, logAge: AGES]

TypeOK ==
    /\ DOMAIN items \subseteq Id
    /\ items \in [DOMAIN items -> Item]
    /\ DOMAIN archive \subseteq Id
    /\ archive \in [DOMAIN archive -> Item]

Init == items = [i \in {} |-> NoItem] /\ archive = [i \in {} |-> NoItem]

----------------------------------------------------------------------------
(* Helpers of the engine.                                                  *)

NewItem(st, par, ds, owner, traits) ==
    [status |-> st, parent |-> par, children |-> {}, deps |-> ds,
     assigned |-> owner, claimedBy |-> NoOne, validatedBy |-> NoOne,
     traits |-> traits, evidence |-> {}, failures |-> 0, cooling |-> FALSE,
     claimAge |-> "never", logAge |-> "never"]

\* n is the largest number among the ids of kind k that tasks.json holds now
LastSerial(its, k, n) ==
    /\ n = 0 \/ <<k, n>> \in DOMAIN its
    /\ \A m \in 1..MaxSerial[k] : <<k, m>> \in DOMAIN its => m <= n

_depsMet(its, ds) ==
    \A d \in ds : d[1] \in DOMAIN its => its[d[1]].status = "done"

_needsGitflowGate(it) ==
    /\ "exempt" \notin it.traits
    /\ ~ (it.assigned \in OpencodeOwners /\ "lane-infra" \in it.traits)
    /\ \/ it.assigned \in CodeOwners
       \/ it.assigned \notin NonCodeOwners /\ "git-worded" \in it.traits

\* _is_infra_host_only, of an item that _needs_gitflow_gate does not exempt
_isInfraHostOnly(it) == {"lane-infra", "host-worded"} \cap it.traits # {}

\* Faulty variant: test evidence is asked of code items only.
SubmissionGaps_CodeOnly(it) ==
    (IF _needsGitflowGate(it)
     THEN {"TEST_EVIDENCE", "BRANCH_EVIDENCE", "PR_URL"} ELSE {}) \ it.evidence

\* The evidence cmd_status asks for before it lets an item into validation.
SubmissionGaps(it) ==
    LET pr == IF _isInfraHostOnly(it) /\ "NO_PR_MARKER" \in it.evidence
              THEN {} ELSE {"PR_URL"}
    IN  ({"TEST_EVIDENCE"} \cup
            IF _needsGitflowGate(it) THEN {"BRANCH_EVIDENCE"} \cup pr ELSE {})
        \ it.evidence

\* The gates that _validate_all_gates reports as FAIL.
FailedGates(it, testExempt) ==
    LET code == _needsGitflowGate(it)
        test == IF testExempt THEN {}
                ELSE IF code THEN {"TEST_EVIDENCE"} ELSE {"T_SUBSTANCE"}
        pr   == IF _isInfraHostOnly(it) \/ "NO_PR_MARKER" \in it.evidence
                THEN {} ELSE {"PR_URL"}
    IN  ({"RPETD_COMPLETE", "R_PHASE_SUBSTANCE", "P_PHASE_SUBSTANCE",
          "LEARNING_BLOCK"} \cup test
         \cup IF code THEN {"BRANCH_EVIDENCE"} \cup pr ELSE {})
        \ it.evidence

\* cmd_add called once per subtask by cmd_atomize: kids are pending tasks
\* under parent i, which gets them as children.
WithSubtasks(its, i, kids, owner, traits) ==
    [x \in DOMAIN its \cup kids |->
        IF x \in kids THEN NewItem("pending", i, {}, owner, traits)
        ELSE IF x = i THEN [its[i] EXCEPT !.children = @ \cup kids]
        ELSE its[x]]

\* The n ids that n successive cmd_add calls give to tasks.
FreshTasks(its, n, kids) ==
    \E base \in 0..MaxSerial["task"] :
        /\ LastSerial(its, "task", base)
        /\ base + n <= MaxSerial["task"]
        /\ kids = {<<"task", base + j>> : j \in 1..n}

\* cmd_add refuses a task under a task or a bug, and cmd_atomize never
\* passes --force.
CanAtomize(i) == "task" \in Kinds /\ i[1] \in VALID_PARENT_TYPES["task"]

----------------------------------------------------------------------------
(* Structure: add, delete, link, unlink, atomize, archive.                 *)

Add(k, par, ds, owner, traits, st, force) ==
    \E n \in 1..MaxSerial[k] :
        LET new == <<k, n>>
        IN  /\ "add" \in Commands
            /\ LastSerial(items, k, n - 1)
            /\ \/ par = NoItem
               \/ /\ par \in DOMAIN items
                  /\ par[1] \in VALID_PARENT_TYPES[k] \/ force
            /\ \A d \in ds : d[1] \in DOMAIN items
            /\ items' = [x \in DOMAIN items \cup {new} |->
                            IF x = new THEN NewItem(st, par, ds, owner, traits)
                            ELSE IF x = par
                                 THEN [items[x] EXCEPT !.children = @ \cup {new}]
                            ELSE items[x]]
            /\ UNCHANGED archive

\* Faulty variant: the id stays in the parent's children list.
Delete_KeepsChild(i) ==
    /\ "delete" \in Commands
    /\ i \in DOMAIN items
    /\ items' = [x \in DOMAIN items \ {i} |->
                    [items[x] EXCEPT
                        !.deps     = @ \ {<<i, AsIssued>>},
                        !.parent   = IF x \in items[i].children THEN NoItem
                                     ELSE @]]
    /\ UNCHANGED archive

\* The lists are purged by comparison with the id as issued.
Delete(i) ==
    /\ "delete" \in Commands
    /\ i \in DOMAIN items
    /\ items' = [x \in DOMAIN items \ {i} |->
                    [items[x] EXCEPT
                        !.children = @ \ {i},
                        !.deps     = @ \ {<<i, AsIssued>>},
                        !.parent   = IF x \in items[i].children THEN NoItem
                                     ELSE @]]
    /\ UNCHANGED archive

\* Faulty variant: the cycle check looks one level deep.
Reaches_Direct(its, from, to) == to \in its[from[1]].deps

\* _reaches(from, to, visited) of cmd_link: to, as typed, is in every set that
\* holds the dependencies of from and, with a reference to an item that
\* exists, the dependencies of that item.
Reaches(its, from, to) ==
    \A S \in SUBSET Ref :
        (/\ its[from[1]].deps \subseteq S
         /\ \A x \in S : x[1] \in DOMAIN its => its[x[1]].deps \subseteq S)
        => to \in S

\* i and d are references: both are looked up, and compared as typed.
Link(i, d) ==
    /\ "link" \in Commands
    /\ {i[1], d[1]} \subseteq DOMAIN items
    /\ i # d
    /\ ~ Reaches(items, d, i)
    /\ d \notin items[i[1]].deps
    /\ items' = [items EXCEPT ![i[1]].deps = @ \cup {d}]
    /\ UNCHANGED archive

Unlink(i, d) ==
    /\ "unlink" \in Commands
    /\ i \in DOMAIN items
    /\ d \in items[i].deps
    /\ items' = [items EXCEPT ![i].deps = @ \ {d}]
    /\ UNCHANGED archive

\* atomize --agent, or the owner of the item that is split
SubtaskOwner(i, owner) == owner \in Agents \cup {items[i].assigned}

Atomize(i, n, owner, traits) ==
    /\ "atomize" \in Commands
    /\ i \in DOMAIN items
    /\ SubtaskOwner(i, owner)
    /\ CanAtomize(i)
    /\ \E kids \in SUBSET Id :
        /\ FreshTasks(items, n, kids)
        /\ items' = [WithSubtasks(items, i, kids, owner, traits)
                        EXCEPT ![i].status = "deferred"]
    /\ UNCHANGED archive

\* Killed after n of the subtasks were saved: the parent keeps its status.
AtomizeKilled(i, n, owner, traits) ==
    /\ "atomize" \in Commands
    /\ i \in DOMAIN items
    /\ SubtaskOwner(i, owner)
    /\ CanAtomize(i)
    /\ \E kids \in SUBSET Id :
        /\ FreshTasks(items, n, kids)
        /\ items' = WithSubtasks(items, i, kids, owner, traits)
    /\ UNCHANGED archive

\* The done items that are old enough: any of them, since ages are free.
Archivable(S) == S # {} /\ \A i \in S : i \in DOMAIN items /\ items[i].status = "done"

\* Faulty variant: the archive takes the newest item of an id.
Archived_Overwrites(S) == [i \in DOMAIN archive \cup S |->
                               IF i \in S THEN items[i] ELSE archive[i]]

\* An id that the archive already holds is not written again.
Archived(S) == [i \in DOMAIN archive \cup S |->
                    IF i \in DOMAIN archive THEN archive[i] ELSE items[i]]

Archive(S) ==
    /\ "archive" \in Commands
    /\ Archivable(S)
    /\ archive' = Archived(S)
    /\ items' = [i \in DOMAIN items \ S |-> [items[i] EXCEPT !.children = @ \ S]]

\* Killed between _save_archive and save.
ArchiveKilled(S) ==
    /\ "archive" \in Commands
    /\ Archivable(S)
    /\ archive' = Archived(S)
    /\ UNCHANGED items

----------------------------------------------------------------------------
(* Lifecycle: update, assign, claim, rpetd, status, validate.              *)

\* cmd_update writes the fields it is given: no state machine, no gate.
Update(i, st, owner, val, traits) ==
    /\ "update" \in Commands
    /\ i \in DOMAIN items
    /\ st \in UpdateStatuses
    /\ items' = [items EXCEPT ![i].status = st, ![i].assigned = owner,
                              ![i].validatedBy = val, ![i].traits = traits]
    /\ UNCHANGED archive

Assign(i, who) ==
    /\ "assign" \in Commands
    /\ i \in DOMAIN items
    /\ items' = [items EXCEPT ![i].assigned = who]
    /\ UNCHANGED archive

\* Faulty variant: claimable whatever the status.
Claim_AnyStatus(i, who) ==
    /\ "claim" \in Commands
    /\ i \in DOMAIN items
    /\ _depsMet(items, items[i].deps)
    /\ items' = [items EXCEPT ![i].status = "in-progress",
                              ![i].claimedBy = who, ![i].assigned = who,
                              ![i].claimAge = "fresh"]
    /\ UNCHANGED archive

Claim(i, who) ==
    /\ "claim" \in Commands
    /\ i \in DOMAIN items
    /\ items[i].status \in {"pending", "failed", "deferred"}
    /\ _depsMet(items, items[i].deps)
    /\ ~ (items[i].status = "pending" /\ items[i].cooling)
    /\ items' = [items EXCEPT ![i].status = "in-progress",
                              ![i].claimedBy = who, ![i].assigned = who,
                              ![i].claimAge = "fresh"]
    /\ UNCHANGED archive

Rpetd(i, written) ==
    /\ "rpetd" \in Commands
    /\ i \in DOMAIN items
    /\ items' = [items EXCEPT ![i].evidence = @ \cup written,
                              ![i].logAge = "fresh"]
    /\ UNCHANGED archive

\* Status, up to the point where the checks of the target status begin.
StatusAllowed(i, new, force) ==
    /\ "status" \in Commands
    /\ i \in DOMAIN items
    /\ new \in ALLOWED_TRANSITIONS[items[i].status] \/ force

\* A GATE_FAIL note starts the cooldown; the status stays.
StatusGateFail(i, force) ==
    /\ StatusAllowed(i, "validation", force)
    /\ SubmissionGaps(items[i]) # {}
    /\ items' = [items EXCEPT ![i].cooling = TRUE]
    /\ UNCHANGED archive

Status(i, new, who, force) ==
    /\ StatusAllowed(i, new, force)
    /\ new = "validation" => SubmissionGaps(items[i]) = {}
    /\ new = "done" => /\ _needsGitflowGate(items[i]) => who = Validator
                       /\ _depsMet(items, items[i].deps) \/ force
    /\ items' = [items EXCEPT ![i].status = new]
    /\ UNCHANGED archive

\* The status check and the self-validation check of cmd_validate.
ValidateAllowed(i, who, force) ==
    /\ "validate" \in Commands
    /\ i \in DOMAIN items
    /\ items[i].status \in {"validation", "in-progress"} \/ force
    /\ who # items[i].claimedBy \/ force

ValidateGateFail(i, who, force, exempt) ==
    /\ ValidateAllowed(i, who, force)
    /\ FailedGates(items[i], exempt) # {} /\ ~ force
    /\ items' = [items EXCEPT ![i].cooling = TRUE]
    /\ UNCHANGED archive

\* Faulty variant: the dependencies are not looked at.
ValidatePass_NoDeps(i, who, force, exempt) ==
    /\ ValidateAllowed(i, who, force)
    /\ FailedGates(items[i], exempt) = {} \/ force
    /\ items' = [items EXCEPT ![i].status = "done", ![i].validatedBy = who]
    /\ UNCHANGED archive

ValidatePass(i, who, force, exempt) ==
    /\ ValidateAllowed(i, who, force)
    /\ FailedGates(items[i], exempt) = {} \/ force
    /\ _depsMet(items, items[i].deps) \/ force
    /\ items' = [items EXCEPT ![i].status = "done", ![i].validatedBy = who]
    /\ UNCHANGED archive

\* validate --fail of a non-code item with all five phases written, for a
\* reason that mentions gitflow or a pull request: marked done instead.
PolicyCorrection(i, who, force) ==
    /\ ValidateAllowed(i, who, force)
    /\ ~ _needsGitflowGate(items[i])
    /\ "RPETD_COMPLETE" \in items[i].evidence
    /\ items' = [items EXCEPT ![i].status = "done", ![i].validatedBy = who]
    /\ UNCHANGED archive

\* Faulty variant: one failure too early.
Failed_OffByOne(its, i, who) ==
    LET count == its[i].failures + 1
    IN  [its EXCEPT ![i].failures = count, ![i].validatedBy = who,
                    ![i].status = IF count + 1 >= MAX_FAILURES_BEFORE_ESCALATION
                                  THEN "escalated" ELSE "pending"]

\* Faulty variant: the counter is not stored.
Failed_NotCounted(its, i, who) ==
    [its EXCEPT ![i].validatedBy = who, ![i].status = "pending"]

\* Faulty variant: a status the engine does not know.
Failed_Rejected(its, i, who) ==
    [its EXCEPT ![i].failures = @ + 1, ![i].validatedBy = who,
                ![i].status = "rejected"]

Failed(its, i, who) ==
    LET count == its[i].failures + 1
    IN  [its EXCEPT ![i].failures = count, ![i].validatedBy = who,
                    ![i].status = IF count >= MAX_FAILURES_BEFORE_ESCALATION
                                  THEN "escalated" ELSE "pending"]

ValidateFail(i, who, force) ==
    /\ ValidateAllowed(i, who, force)
    /\ items[i].failures < MaxFailures
    /\ items' = Failed(items, i, who)
    /\ UNCHANGED archive

\* validate --fail --subtasks: the failed item is atomized at once, for its
\* own owner.
ValidateFailAndSplit(i, who, force, n, traits) ==
    /\ ValidateAllowed(i, who, force)
    /\ items[i].failures < MaxFailures
    /\ CanAtomize(i)
    /\ \E kids \in SUBSET Id :
        /\ FreshTasks(items, n, kids)
        /\ items' = [WithSubtasks(Failed(items, i, who), i, kids,
                                  items[i].assigned, traits)
                        EXCEPT ![i].status = "deferred"]
    /\ UNCHANGED archive

----------------------------------------------------------------------------
(* The passage of time, as far as a guard reads it.                        *)

CooldownEnds(i) ==
    /\ i \in DOMAIN items
    /\ items[i].cooling
    /\ items' = [items EXCEPT ![i].cooling = FALSE]
    /\ UNCHANGED archive

ClaimAges(i) ==
    /\ "age" \in Commands
    /\ i \in DOMAIN items
    /\ items[i].claimAge = "fresh"
    /\ items' = [items EXCEPT ![i].claimAge = "stale"]
    /\ UNCHANGED archive

LogAges(i) ==
    /\ "age" \in Commands
    /\ i \in DOMAIN items
    /\ items[i].logAge = "fresh"
    /\ items' = [items EXCEPT ![i].logAge = "stale"]
    /\ UNCHANGED archive

----------------------------------------------------------------------------
Structure ==
    \/ \E k \in Kinds, par \in Id \cup {NoItem},
          ds \in {D \in SUBSET Ref : Cardinality(D) <= MaxDeps},
          owner \in Owner, traits \in Traits, st \in InitialStatuses,
          force \in Overrides :
            Add(k, par, ds, owner, traits, st, force)
    \/ \E i \in Id : Delete(i)
    \/ \E i, d \in Ref : Link(i, d)
    \/ \E i \in Id, d \in Ref : Unlink(i, d)
    \/ \E i \in Id, n \in 1..MaxSubtasks, owner \in Owner, traits \in Traits :
            Atomize(i, n, owner, traits) \/ AtomizeKilled(i, n, owner, traits)
    \/ \E S \in SUBSET Id : Archive(S) \/ ArchiveKilled(S)

Lifecycle ==
    \/ \E i \in Id, st \in STATUSES, owner, val \in Owner, traits \in Traits :
            Update(i, st, owner, val, traits)
    \/ \E i \in Id, who \in Agents : Assign(i, who) \/ Claim(i, who)
    \/ \E i \in Id, written \in Writings : Rpetd(i, written)
    \/ \E i \in Id, force \in Overrides : StatusGateFail(i, force)
    \/ \E i \in Id, new \in NextStatuses, who \in Agents, force \in Overrides :
            Status(i, new, who, force)
    \/ \E i \in Id, who \in Agents, force \in Overrides, exempt \in BOOLEAN :
            ValidateGateFail(i, who, force, exempt)
            \/ ValidatePass(i, who, force, exempt)
    \/ \E i \in Id, who \in Agents, force \in Overrides :
            PolicyCorrection(i, who, force) \/ ValidateFail(i, who, force)
    \/ \E i \in Id, who \in Agents, force \in Overrides, n \in 1..MaxSubtasks,
          traits \in Traits :
            ValidateFailAndSplit(i, who, force, n, traits)

Time == \E i \in Id : CooldownEnds(i) \/ ClaimAges(i) \/ LogAges(i)

Next == Structure \/ Lifecycle \/ Time

Spec == Init /\ [][Next]_vars

\* The items of which `next --agent who` prints the one with the best score:
\* pending ones of its own that may be claimed, else failed ones of its own,
\* else, for the validator, what is under validation.
Offered(who) ==
    LET mine     == {i \in DOMAIN items : items[i].assigned = who}
        eligible == {i \in mine : /\ items[i].status = "pending"
                                  /\ _depsMet(items, items[i].deps)
                                  /\ ~ items[i].cooling}
        failed   == {i \in mine : items[i].status = "failed"}
        queue    == {i \in DOMAIN items : items[i].status = "validation"}
    IN  IF eligible # {} THEN eligible
        ELSE IF failed # {} THEN failed
        ELSE IF who = Validator THEN queue ELSE {}

\* who may do what the offer asks: claim it, or judge what others claimed
Answerable(who, i) ==
    IF items[i].status = "validation" THEN items[i].claimedBy # who
    ELSE _depsMet(items, items[i].deps)

\* who takes what next offers.  The scores are free, so who surely gets to an
\* item only when it can answer whichever next puts first.
Answers(who) ==
    /\ \A i \in Offered(who) : Answerable(who, i)
    /\ \E i \in Offered(who) :
          \/ Claim(i, who)
          \/ /\ items[i].status = "validation"
             /\ \/ ValidatePass(i, who, FALSE, FALSE)
                \/ ValidateFail(i, who, FALSE)

\* The holder of an item writes what is missing, and submits it.
Writes(i) == \E written \in Writings :
    /\ i \in DOMAIN items /\ items[i].status = "in-progress"
    /\ ~ (written \subseteq items[i].evidence)
    /\ Rpetd(i, written)

Submits(i) ==
    /\ i \in DOMAIN items /\ items[i].status = "in-progress"
    /\ Status(i, "validation", items[i].claimedBy, FALSE)

\* Every agent polls `next` and takes what it is offered (of the validator's
\* verdicts either will do), works on what it claimed and submits it, and a
\* cooldown runs out by the clock.
Fairness ==
    /\ \A who \in Agents : WF_vars(Answers(who))
    /\ \A i \in Id : WF_vars(Writes(i)) /\ WF_vars(Submits(i)) /\ WF_vars(CooldownEnds(i))

----------------------------------------------------------------------------
(* Properties.                                                             *)

\* A children list and the parent fields agree: whatever an item lists as a
\* child exists and names it as its parent, through every add, delete,
\* archive and atomize, killed ones included.
FamilyLinked ==
    \A p \in DOMAIN items : \A c \in items[p].children :
        c \in DOMAIN items /\ items[c].parent = p

\* A dependency spelled as issued never dangles: the id is an active item, or
\* the archive holds an item of that id (the loop of cmd_delete that purges
\* the lists).  One in another spelling stays in the list, and counts as met.
DepsKnown ==
    \A i \in DOMAIN items : \A d \in items[i].deps :
        d[2] = AsIssued => d[1] \in DOMAIN items \cup DOMAIN archive

\* No item of S can be claimed before another item of S is done.
Deadlocked(S) == S # {} /\ \A i \in S : \E d \in items[i].deps : d[1] \in S

\* The dependencies have no cycle ("Would create circular dependency",
\* cmd_link), so no set of items waits for itself.
DepsAcyclic == \A S \in SUBSET DOMAIN items : ~ Deadlocked(S)

\* The same for the items whose id was never archived, in behaviours whose
\* commands spell ids as issued (Spellings = {AsIssued}): add and link make
\* no cycle by themselves, so one always goes through an id that the archive
\* already holds, or through a command that typed an id in another case.
FreshDepsAcyclic ==
    \A S \in SUBSET (DOMAIN items \ DOMAIN archive) : ~ Deadlocked(S)

\* What the archive holds is final: no later command, and no kill, changes
\* or drops an archived item.
ArchiveIsFinal ==
    [][\A i \in DOMAIN archive : i \in DOMAIN archive' /\ archive'[i] = archive[i]]_vars

\* Without overrides and raw updates, work that is under validation or done
\* has evidence behind it: the T phase shows tests, or all five phases are
\* written (cmd_status, cmd_validate and its policy correction).
NoUnprovenWork ==
    \A i \in DOMAIN items :
        /\ items[i].status = "validation" => "TEST_EVIDENCE" \in items[i].evidence
        /\ items[i].status = "done" =>
             {"TEST_EVIDENCE", "RPETD_COMPLETE"} \cap items[i].evidence # {}

\* Without overrides and raw updates, an escalated item did fail validation
\* three times, and an item with fewer failures is never escalated.
EscalationEarned ==
    \A i \in DOMAIN items :
        items[i].status = "escalated" =>
            items[i].failures >= MAX_FAILURES_BEFORE_ESCALATION

\* Two agents never hold one task: while an item is in progress or under
\* validation nobody else can become its claimer.
ClaimIsExclusive ==
    [][\A i \in DOMAIN items \cap DOMAIN items' :
          items[i].status \in {"in-progress", "validation"} =>
              items'[i].claimedBy = items[i].claimedBy]_vars

\* Overrides and raw updates aside, an item becomes done only when its
\* dependencies are done (the checks of cmd_status and cmd_validate); the
\* policy correction is the one way round.
DoneAfterDeps ==
    [][\A i \in DOMAIN items \cap DOMAIN items' :
          items[i].status # "done" /\ items'[i].status = "done"
              => \/ _depsMet(items, items[i].deps)
                 \/ \E who \in Agents : PolicyCorrection(i, who, FALSE)]_vars

\* What the polling of `next` leaves where it is: an item that is deferred or
\* that has no owner is offered to nobody, one with an open dependency is
\* offered to nobody yet, and once the validator has work of its own under
\* validation, next may offer it that for ever.
LeftByNext(i) ==
    \/ items[i].status = "deferred"
    \/ items[i].status \in {"pending", "failed"} /\ items[i].assigned = NoOne
    \/ ~ _depsMet(items, items[i].deps)
    \/ /\ items[i].status = "validation"
       /\ \E j \in DOMAIN items : /\ items[j].status = "validation"
                                  /\ items[j].claimedBy = Validator

\* A task does not go round the claim-fail-retry loop for ever: when agents
\* take what next offers, every item ends done or escalated, or is one of
\* those that next leaves where they are.
EveryTaskSettles ==
    <>[](\A i \in DOMAIN items :
            items[i].status \in {"done", "escalated"} \/ LeftByNext(i))
=============================================================================
