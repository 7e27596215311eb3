--------------------------- MODULE ModuleLifecycle ---------------------------
(***************************************************************************)
(* Installing, upgrading and uninstalling modules: the step engines of     *)
(* services/module_lifecycle.py over the files of the project, the service *)
(* stubs in ~/.amauta/data/registered_services and the install records of  *)
(* services/install_record_store.py.  Each step is an action, so that a    *)
(* command can fail in any step, be undone step by step, or be killed      *)
(* between two steps.  One command runs at a time; --dry-run writes        *)
(* nothing and is left out.                                                *)
(*                                                                         *)
(* No migration reaches the database: install asks pg_store for a          *)
(* module-level _get_conn that it has not, and fails; upgrade catches the  *)
(* failed import and records the migration as applied; uninstall looks for *)
(* the DOWN files in the working directory.  The schema is therefore not a *)
(* variable.  The record store is one backend throughout; that PostgreSQL  *)
(* may come and go between two calls is left out.                          *)
(***************************************************************************)
EXTENDS Naturals, Sequences, FiniteSets

CONSTANTS
    Modules,    \* module names
    Files,      \* destinations under agents/ and get-shit-done/skills/
    Services,   \* service names
    Migrations, \* paths of contract migrations; expand ones precede every change
    Manifests,  \* the module.yaml files in use; equal ones have equal hashes
    None,       \* no file, stub or record
    Foreign,    \* a file that no module installed
    Torn        \* a file that is written in part

Manifest ==
    [module: Modules, version: Nat, requires: BOOLEAN, migrations: SUBSET Migrations,
     services: SUBSET Services, agents: SUBSET Files, skills: SUBSET Files]

ASSUME ManifestsAssumption ==
    /\ Manifests \subseteq Manifest
    /\ \A m \in Manifests : m.agents \cap m.skills = {}
ASSUME NoneAssumption ==
    /\ Cardinality({None, Foreign, Torn}) = 3
    /\ {None, Foreign, Torn} \cap Manifests = {}
    /\ \A S \in SUBSET Services : S # None

VARIABLES
    files,   \* what every destination holds
    stub,    \* the services registered for a module
    record,  \* the install record of a module
    op       \* the running command
world == <<files, stub, record>>
lvars == <<files, stub, record, op>>

\* A record names paths.  install writes destinations; upgrade writes the
\* manifest's own paths, and of these only agents/<name>.md is a destination.
Record == [manifest: Manifests, files: SUBSET Files, applied: SUBSET Migrations]
ASSUME NoRecordAssumption == None \notin Record

World ==
    [files: [Files -> {None, Foreign, Torn} \cup Manifests],
     stub: [Modules -> {None} \cup SUBSET Services],
     record: [Modules -> {None} \cup Record]]

UNDOABLE == {"register_services", "copy_agents", "copy_skills", "post_install_verify",
             "swap_services", "apply_contract_migrations", "update_install_record"}

Idle == [at |-> "idle"]
Installing ==
    [at: {"services", "copy", "undo", "passed"}, what: {"install"}, new: Manifests,
     module: Modules, force: BOOLEAN, copied: SUBSET Files, undo: Seq(UNDOABLE),
     stuck: SUBSET UNDOABLE, before: World]
Upgrading ==
    [at: {"swap", "contract", "update", "verify", "undo", "passed"}, what: {"upgrade"},
     new: Manifests, module: Modules, undo: Seq(UNDOABLE), stuck: SUBSET UNDOABLE,
     before: World]
Uninstalling ==
    [at: {"remove", "clear", "confirm", "passed", "failed"}, what: {"uninstall"},
     module: Modules, pending: SUBSET Files, before: World]

LifecycleTypeOK ==
    /\ files \in [Files -> {None, Foreign, Torn} \cup Manifests]
    /\ stub \in [Modules -> {None} \cup SUBSET Services]
    /\ record \in [Modules -> {None} \cup Record]
    /\ op \in {Idle} \cup Installing \cup Upgrading \cup Uninstalling

LifecycleInit ==
    /\ files \in [Files -> {None, Foreign}]
    /\ stub = [mod \in Modules |-> None]
    /\ record = [mod \in Modules |-> None]
    /\ op = Idle

Now == [files |-> files, stub |-> stub, record |-> record]

----------------------------------------------------------------------------
(* The copying steps.                                                      *)

\* copy_agents comes before copy_skills.
Pending ==
    IF op.new.agents \ op.copied # {} THEN op.new.agents \ op.copied
                                      ELSE op.new.skills \ op.copied
CopyStep == IF op.new.agents \ op.copied # {} THEN "copy_agents" ELSE "copy_skills"

\* Faulty variant: --force does not reach the copying steps.
MayCopy_NoForce(f) == files[f] = None

MayCopy(f) == files[f] = None \/ op.force

----------------------------------------------------------------------------
(* The rollback engine.                                                    *)

\* Faulty variant: steps that have no inverse are not skipped.
UndoOf_ReadOnly(failed) ==
    IF failed = "register_services" THEN <<"resolve_dependencies", failed>>
                                    ELSE <<"validate_manifest", failed>>

\* _run_rollback: the steps that passed, last one first, and then the failed
\* step itself.  Steps that write nothing are left out.
UndoOf(failed) ==
    CASE failed = "register_services" -> <<"register_services">>
      [] failed = "copy_agents" -> <<"register_services", "copy_agents">>
      [] failed = "copy_skills" -> <<"copy_agents", "register_services", "copy_skills">>
      [] failed = "post_install_verify" ->
            <<"copy_skills", "copy_agents", "register_services", "post_install_verify">>
      [] failed = "swap_services" -> <<"swap_services">>
      [] failed = "apply_contract_migrations" ->
            <<"swap_services", "apply_contract_migrations">>
      [] failed = "update_install_record" ->
            <<"apply_contract_migrations", "swap_services", "update_install_record">>
      [] failed = "post_upgrade_verify" ->
            <<"update_install_record", "apply_contract_migrations", "swap_services">>

Fails(step) == op' = [op EXCEPT !.at = "undo", !.undo = UndoOf(step)]

Removed(S) == [f \in Files |-> IF f \in S THEN None ELSE files[f]]

\* Faulty variant: the services of the failed upgrade stay registered.
RegisteredBefore_New == op.new.services

RegisteredBefore == op.before.record[op.module].manifest.services

\* Faulty variant: the files copied so far are forgotten.
InverseOf_KeepsFiles(step) ==
    /\ stub' = IF step = "register_services" THEN [stub EXCEPT ![op.module] = None]
               ELSE IF step = "swap_services"
                    THEN [stub EXCEPT ![op.module] = RegisteredBefore] ELSE stub
    /\ record' = CASE step = "post_install_verify" -> [record EXCEPT ![op.module] = None]
                   [] step = "update_install_record" ->
                        [record EXCEPT ![op.module] = op.before.record[op.module]]
                   [] OTHER -> record
    /\ UNCHANGED files

InverseOf(step) ==
    /\ files' = CASE step = "copy_agents" -> Removed(op.copied \cap op.new.agents)
                  [] step = "copy_skills" -> Removed(op.copied \cap op.new.skills)
                  [] OTHER -> files
    /\ stub' = CASE step = "register_services" -> [stub EXCEPT ![op.module] = None]
                 [] step = "swap_services" ->
                        [stub EXCEPT ![op.module] = RegisteredBefore]
                 [] OTHER -> stub
    /\ record' = CASE step = "post_install_verify" -> [record EXCEPT ![op.module] = None]
                   [] step = "update_install_record" ->
                        [record EXCEPT ![op.module] = op.before.record[op.module]]
                   [] OTHER -> record

\* Contract migrations have no inverse.
Undo ==
    /\ op.at = "undo" /\ op.undo # <<>>
    /\ InverseOf(Head(op.undo))
    /\ op' = [op EXCEPT !.undo = Tail(@),
                        !.stuck = @ \cup ({Head(op.undo)} \cap
                                            {"apply_contract_migrations"})]

HalfStub == [stub EXCEPT ![op.module] = {}]

\* What an inverse leaves that does not do its work: the record store cannot
\* be written, some files or the stub not removed, the old stub half written.
HalfInverse(step) ==
    \/ /\ step \in {"post_install_verify", "update_install_record", "register_services"}
       /\ UNCHANGED world
    \/ /\ step = "swap_services"
       /\ stub' \in {stub, HalfStub}
       /\ UNCHANGED <<files, record>>
    \/ /\ step \in {"copy_agents", "copy_skills"}
       /\ \E kept \in SUBSET op.copied :
             files' = Removed((IF step = "copy_agents" THEN op.new.agents
                                                       ELSE op.new.skills)
                                \cap (op.copied \ kept))
       /\ UNCHANGED <<stub, record>>

\* The engine goes on with the next inverse.
UndoFails ==
    /\ op.at = "undo" /\ op.undo # <<>>
    /\ HalfInverse(Head(op.undo))
    /\ op' = [op EXCEPT !.undo = Tail(@), !.stuck = @ \cup {Head(op.undo)}]

\* The command has reported its result.
RolledBack == op.at = "undo" /\ op.undo = <<>>

Ends ==
    /\ RolledBack \/ op.at \in {"passed", "failed"}
    /\ op' = Idle
    /\ UNCHANGED world

\* The process is killed, perhaps in the middle of a copy or of a stub's
\* writing; nothing resumes or undoes it.
Killed ==
    /\ op # Idle
    /\ op' = Idle
    /\ \/ stub' = stub
       \/ /\ op.at \in {"services", "swap"}
          /\ op.at = "services" => op.new.services # {}
          /\ stub' = HalfStub
    /\ \/ files' = files
       \/ /\ op.at = "copy"
          /\ \E f \in Pending : MayCopy(f) /\ files' = [files EXCEPT ![f] = Torn]
    /\ record' = record

----------------------------------------------------------------------------
(* install                                                                 *)

AlreadyAt(m, force) ==
    /\ record[m.module] # None /\ record[m.module].manifest = m
    /\ ~ force

\* Three steps that write nothing.  A module with requires is never resolved,
\* since the resolver is given this manifest alone, and one with migrations
\* fails in apply_migrations.
StartInstall(m, force) ==
    /\ op = Idle
    /\ ~ m.requires /\ m.migrations = {}
    /\ op' = [at |-> "services", what |-> "install", new |-> m, module |-> m.module,
              force |-> force, copied |-> {}, undo |-> <<>>, stuck |-> {},
              before |-> Now]
    /\ UNCHANGED world

Install(m, force) == StartInstall(m, force) /\ ~ AlreadyAt(m, force)

\* The record cannot be read, which counts as not installed.
InstallUnread(m) == StartInstall(m, FALSE) /\ AlreadyAt(m, FALSE)

RegisterServices ==
    /\ op.at = "services"
    /\ stub' = IF op.new.services = {} THEN stub
               ELSE [stub EXCEPT ![op.module] = op.new.services]
    /\ op' = [op EXCEPT !.at = "copy"]
    /\ UNCHANGED <<files, record>>

\* The stub was opened and is empty, or was not opened.
RegisterServicesFails ==
    /\ op.at = "services" /\ op.new.services # {}
    /\ stub' \in {stub, HalfStub}
    /\ Fails("register_services")
    /\ UNCHANGED <<files, record>>

Copy(f) ==
    /\ op.at = "copy" /\ f \in Pending
    /\ MayCopy(f)
    /\ files' = [files EXCEPT ![f] = op.new]
    /\ op' = [op EXCEPT !.copied = @ \cup {f}]
    /\ UNCHANGED <<stub, record>>

CopyRefused(f) ==
    /\ op.at = "copy" /\ f \in Pending
    /\ ~ MayCopy(f)
    /\ Fails(CopyStep)
    /\ UNCHANGED world

\* The source is missing, or shutil.copy2 breaks off, at worst after the last
\* byte, and leaves a file that is not in the list of copied ones.
CopyFails(f) ==
    /\ op.at = "copy" /\ f \in Pending
    /\ MayCopy(f)
    /\ files' \in {files, [files EXCEPT ![f] = Torn], [files EXCEPT ![f] = op.new]}
    /\ Fails(CopyStep)
    /\ UNCHANGED <<stub, record>>

\* post_install_verify
Installed == [manifest |-> op.new, files |-> op.copied, applied |-> {}]

WriteRecord ==
    /\ op.at = "copy" /\ Pending = {}
    /\ \A f \in op.copied : files[f] # None
    /\ record' = [record EXCEPT ![op.module] = Installed]
    /\ op' = [op EXCEPT !.at = "passed"]
    /\ UNCHANGED <<files, stub>>

\* The answer may be lost after the commit.
WriteRecordFails ==
    /\ op.at = "copy" /\ Pending = {}
    /\ record' \in {record, [record EXCEPT ![op.module] = Installed]}
    /\ Fails("post_install_verify")
    /\ UNCHANGED <<files, stub>>

----------------------------------------------------------------------------
(* upgrade: neither agents nor skills are copied.                          *)

Upgrade(m, force) ==
    /\ op = Idle
    /\ record[m.module] # None
    /\ ~ AlreadyAt(m, force)
    /\ op' = [at |-> "swap", what |-> "upgrade", new |-> m, module |-> m.module,
              undo |-> <<>>, stuck |-> {}, before |-> Now]
    /\ UNCHANGED world

SwapServices ==
    /\ op.at = "swap"
    /\ stub' = [stub EXCEPT ![op.module] = op.new.services]
    /\ op' = [op EXCEPT !.at = "contract"]
    /\ UNCHANGED <<files, record>>

SwapServicesFails ==
    /\ op.at = "swap"
    /\ stub' \in {stub, HalfStub}
    /\ Fails("swap_services")
    /\ UNCHANGED <<files, record>>

ApplyContract ==
    /\ op.at = "contract"
    /\ op' = [op EXCEPT !.at = "update"]
    /\ UNCHANGED world

\* A migration file of the delta cannot be read.
ApplyContractFails ==
    /\ op.at = "contract"
    /\ op.new.migrations \ op.before.record[op.module].applied # {}
    /\ Fails("apply_contract_migrations")
    /\ UNCHANGED world

\* The paths of the manifest as they stand, where install noted the copies it
\* made: the same for a module that keeps its agents as agents/<name>.md.
Upgraded ==
    [manifest |-> op.new, files |-> op.new.agents,
     applied |-> op.before.record[op.module].applied \cup op.new.migrations]

UpdateRecord ==
    /\ op.at = "update"
    /\ record' = [record EXCEPT ![op.module] = Upgraded]
    /\ op' = [op EXCEPT !.at = "verify"]
    /\ UNCHANGED <<files, stub>>

UpdateRecordFails ==
    /\ op.at = "update"
    /\ record' \in {record, [record EXCEPT ![op.module] = Upgraded]}
    /\ Fails("update_install_record")
    /\ UNCHANGED <<files, stub>>

VerifyUpgrade ==
    /\ op.at = "verify"
    /\ record[op.module] # None /\ record[op.module].manifest = op.new
    /\ op' = [op EXCEPT !.at = "passed"]
    /\ UNCHANGED world

\* The record cannot be read back.
VerifyUpgradeFails ==
    /\ op.at = "verify"
    /\ Fails("post_upgrade_verify")
    /\ UNCHANGED world

----------------------------------------------------------------------------
(* uninstall: errors of the file system are tolerated, and no step undone. *)

Uninstall(mod) ==
    /\ op = Idle
    /\ record[mod] # None
    /\ op' = [at |-> "remove", what |-> "uninstall", module |-> mod,
              pending |-> record[mod].files, before |-> Now]
    /\ UNCHANGED world

Remove(f) ==
    /\ op.at = "remove" /\ f \in op.pending
    /\ files' = [files EXCEPT ![f] = None]
    /\ op' = [op EXCEPT !.pending = @ \ {f}]
    /\ UNCHANGED <<stub, record>>

RemoveTolerated(f) ==
    /\ op.at = "remove" /\ f \in op.pending
    /\ op' = [op EXCEPT !.pending = @ \ {f}]
    /\ UNCHANGED world

UnregisterServices ==
    /\ op.at = "remove" /\ op.pending = {}
    /\ stub' = [stub EXCEPT ![op.module] = None]
    /\ op' = [op EXCEPT !.at = "clear"]
    /\ UNCHANGED <<files, record>>

UnregisterTolerated ==
    /\ op.at = "remove" /\ op.pending = {}
    /\ op' = [op EXCEPT !.at = "clear"]
    /\ UNCHANGED world

ClearRecord ==
    /\ op.at = "clear"
    /\ record' = [record EXCEPT ![op.module] = None]
    /\ op' = [op EXCEPT !.at = "confirm"]
    /\ UNCHANGED <<files, stub>>

ClearRecordFails ==
    /\ op.at = "clear"
    /\ record' \in {record, [record EXCEPT ![op.module] = None]}
    /\ op' = [op EXCEPT !.at = "failed"]
    /\ UNCHANGED <<files, stub>>

\* Faulty variant: only the skills and agents are looked for.
Leftovers_Files == {f \in op.before.record[op.module].files : files[f] # None}

\* post_uninstall_verify
Leftovers ==
    {f \in op.before.record[op.module].files : files[f] # None}
        \cup {mod \in {op.module} : stub[mod] # None \/ record[mod] # None}

Confirm ==
    /\ op.at = "confirm"
    /\ op' = [op EXCEPT !.at = IF Leftovers = {} THEN "passed" ELSE "failed"]
    /\ UNCHANGED world

----------------------------------------------------------------------------
Starts ==
    \/ \E m \in Manifests, force \in BOOLEAN : Install(m, force) \/ Upgrade(m, force)
    \/ \E mod \in Modules : Uninstall(mod)

Steps ==
    \/ RegisterServices \/ WriteRecord
    \/ \E f \in Files : Copy(f) \/ CopyRefused(f) \/ Remove(f)
    \/ SwapServices \/ ApplyContract \/ UpdateRecord \/ VerifyUpgrade
    \/ UnregisterServices \/ ClearRecord \/ Confirm
    \/ Undo \/ Ends

Faults ==
    \/ RegisterServicesFails \/ WriteRecordFails
    \/ \E f \in Files : CopyFails(f) \/ RemoveTolerated(f)
    \/ SwapServicesFails \/ ApplyContractFails \/ UpdateRecordFails
    \/ VerifyUpgradeFails
    \/ UnregisterTolerated \/ ClearRecordFails
    \/ \E m \in Manifests : InstallUnread(m)
    \/ UndoFails \/ Killed

LifecycleNext == Starts \/ Steps \/ Faults

LifecycleSpec == LifecycleInit /\ [][LifecycleNext]_lvars

----------------------------------------------------------------------------
(* Properties.                                                             *)

\* An install of a module that was not installed, refused or broken off in
\* any step and undone in every step, takes everything back: no record, no
\* stub, no file of any other origin touched, and at most the one file whose
\* copy broke off left behind.
FreshInstallUndone ==
    (RolledBack /\ op.what = "install" /\ op.stuck = {} /\ ~ op.force
        /\ op.before.record[op.module] = None)
    => /\ record = op.before.record
       /\ stub = [op.before.stub EXCEPT ![op.module] = None]
       /\ LET changed == {f \in Files : files[f] # op.before.files[f]}
          IN  /\ Cardinality(changed) <= 1
              /\ \A f \in changed : op.before.files[f] = None

\* An upgrade that fails in any step leaves the old version recorded and
\* exactly its services registered, unless one of the two could not be put
\* back, which the result reports.
FailedUpgradeRestores ==
    (RolledBack /\ op.what = "upgrade")
    => /\ files = op.before.files
       /\ "update_install_record" \notin op.stuck => record = op.before.record
       /\ "swap_services" \notin op.stuck =>
            stub[op.module] = op.before.record[op.module].manifest.services

\* What the manifest asks for is there.
Complete(m) ==
    /\ record[m.module] # None /\ record[m.module].manifest = m
    /\ \A f \in m.agents \cup m.skills : files[f] = m
    /\ m.services # {} => stub[m.module] = m.services

\* A command that reports success has done its work: after install all files
\* are copied from this manifest, after uninstall nothing that its record
\* names is left, whatever earlier commands failed or were killed.
PassMeansDone ==
    op.at = "passed" =>
        CASE op.what = "install" -> Complete(op.new)
          [] op.what = "upgrade" -> /\ record[op.module].manifest = op.new
                                    /\ stub[op.module] = op.new.services
          [] op.what = "uninstall" ->
                /\ record[op.module] = None /\ stub[op.module] = None
                /\ \A f \in op.before.record[op.module].files : files[f] = None

\* After any history of failures and kills, install --force run again, as
\* often as it is run and without new faults, ends in a complete install.
HealStep(m) == Install(m, TRUE) \/ Steps
RerunHeals ==
    \A m \in {n \in Manifests : ~ n.requires /\ n.migrations = {}} :
        <>[][HealStep(m)]_lvars /\ WF_lvars(HealStep(m)) => <>[]Complete(m)
=============================================================================
