----------------------- MODULE ModuleLifecycle_proofs -----------------------
(***************************************************************************)
(* Proofs about installing, upgrading and uninstalling modules, for any    *)
(* number of modules, files, services and manifests, any world a command   *)
(* finds, and failures and kills in any step: the type of the state, that  *)
(* a failed command that was undone restores the world, and that one that  *)
(* reports success has done its work.  And about the resolver, for any     *)
(* manifests: that its answer is right, and that it comes to one.          *)
(***************************************************************************)
EXTENDS ModuleLifecycle, ModuleResolver, FiniteSetTheorems, TLAPS

On(what) == op.at # "idle" /\ op.what = what

(* The inverses still to be run, and those that did not do their work.     *)
ToUndo == {op.undo[i] : i \in DOMAIN op.undo}
Owed(step) == step \in ToUndo \cup op.stuck

InstallSteps == {"register_services", "copy_agents", "copy_skills", "post_install_verify"}
UpgradeSteps == {"swap_services", "apply_contract_migrations", "update_install_record"}

(* A command undoes its own steps only, and an upgrade or uninstall found  *)
(* a record.                                                               *)
Bounded ==
  /\ LifecycleTypeOK
  /\ On("install") => ToUndo \subseteq InstallSteps /\ op.module = op.new.module
  /\ On("upgrade") => /\ ToUndo \subseteq UpgradeSteps /\ op.module = op.new.module
                      /\ op.before.record[op.module] # None
  /\ On("uninstall") => op.before.record[op.module] # None

(* What a running install has changed so far is what its undoing knows of, *)
(* but for the one file whose copy broke off.                              *)
Changed == {f \in Files : files[f] # op.before.files[f]}
Kept(step, S) == \A f \in S \cap op.copied : files[f] # op.before.files[f] => Owed(step)

FreshInstall == On("install") /\ ~ op.force /\ op.before.record[op.module] = None

InstallTraced ==
  FreshInstall =>
    /\ \A x \in Modules \ {op.module} :
          record[x] = op.before.record[x] /\ stub[x] = op.before.stub[x]
    /\ \A f \in Changed : op.before.files[f] = None
    /\ \A f \in op.copied : op.before.files[f] = None
    /\ op.at \in {"services", "copy"} =>
          /\ record[op.module] = None
          /\ Changed \subseteq op.copied
    /\ op.at = "undo" =>
          /\ record[op.module] # None => Owed("post_install_verify")
          /\ stub[op.module] # None => Owed("register_services")
          /\ Kept("copy_agents", op.new.agents) /\ Kept("copy_skills", op.new.skills)
          /\ \E stray \in SUBSET Files :
                /\ \A f, g \in stray : f = g
                /\ Changed \subseteq stray \cup op.copied

(* What a running install has done so far.                                 *)
InstallDone ==
  On("install") =>
    /\ op.at = "services" => op.copied = {}
    /\ op.at \in {"services", "copy"} =>
          /\ op.copied \subseteq op.new.agents \cup op.new.skills
          /\ op.copied \cap op.new.skills # {} => op.new.agents \subseteq op.copied
          /\ \A f \in op.copied : files[f] = op.new
    /\ op.at = "undo" => op.copied \subseteq op.new.agents \cup op.new.skills
    /\ op.at = "copy" /\ op.new.services # {} => stub[op.module] = op.new.services

UpgradeTraced ==
  On("upgrade") =>
    /\ files = op.before.files
    /\ \A x \in Modules \ {op.module} : record[x] = op.before.record[x]
    /\ op.at \in {"swap", "contract", "update"} => record[op.module] = op.before.record[op.module]
    /\ op.at \in {"contract", "update", "verify"} => stub[op.module] = op.new.services
    /\ op.at = "undo" =>
          /\ record[op.module] # op.before.record[op.module] => Owed("update_install_record")
          /\ stub[op.module] # op.before.record[op.module].manifest.services =>
                Owed("swap_services")

LifecycleInv == Bounded /\ InstallDone /\ InstallTraced /\ UpgradeTraced /\ PassMeansDone

-----------------------------------------------------------------------------
(* The rollback list.                                                       *)

(* A list of up to four steps, and the steps on it.                         *)
On4(list, S) == list \in Seq(UNDOABLE) /\ {list[i] : i \in DOMAIN list} = S

LEMMA Lists ==
  ASSUME NEW a \in UNDOABLE, NEW b \in UNDOABLE, NEW c \in UNDOABLE, NEW d \in UNDOABLE
  PROVE  /\ On4(<<a>>, {a}) /\ On4(<<a, b>>, {a, b}) /\ On4(<<a, b, c>>, {a, b, c})
         /\ On4(<<a, b, c, d>>, {a, b, c, d})
PROOF
  <1>1. /\ <<a>> \in Seq(UNDOABLE) /\ <<a, b>> \in Seq(UNDOABLE)
        /\ <<a, b, c>> \in Seq(UNDOABLE) /\ <<a, b, c, d>> \in Seq(UNDOABLE)
    OBVIOUS
  <1>2. /\ DOMAIN <<a>> = {1} /\ DOMAIN <<a, b>> = {1, 2} /\ DOMAIN <<a, b, c>> = {1, 2, 3}
        /\ DOMAIN <<a, b, c, d>> = {1, 2, 3, 4}
    OBVIOUS
  <1>3. {<<a>>[i] : i \in {1}} = {a}
    OBVIOUS
  <1>4. {<<a, b>>[i] : i \in {1, 2}} = {a, b}
    OBVIOUS
  <1>5. {<<a, b, c>>[i] : i \in {1, 2, 3}} = {a, b, c}
    OBVIOUS
  <1>6. {<<a, b, c, d>>[i] : i \in {1, 2, 3, 4}} = {a, b, c, d}
    OBVIOUS
  <1> QED
    BY <1>1, <1>2, <1>3, <1>4, <1>5, <1>6 DEF On4

(* What is undone after a step has failed.                                  *)
UndoneAfter(step) ==
  CASE step = "register_services" -> {"register_services"}
    [] step = "copy_agents" -> {"register_services", "copy_agents"}
    [] step = "copy_skills" -> {"copy_agents", "register_services", "copy_skills"}
    [] step = "post_install_verify" -> InstallSteps
    [] step = "swap_services" -> {"swap_services"}
    [] step = "apply_contract_migrations" -> {"swap_services", "apply_contract_migrations"}
    [] step = "update_install_record" -> UpgradeSteps
    [] step = "post_upgrade_verify" -> UpgradeSteps

Failing == UNDOABLE \cup {"post_upgrade_verify"}

LEMMA UndoLists ==
  ASSUME NEW step \in Failing
  PROVE  On4(UndoOf(step), UndoneAfter(step))
PROOF
  <1>1. \A a, b, c, d \in UNDOABLE :
           /\ On4(<<a>>, {a}) /\ On4(<<a, b>>, {a, b}) /\ On4(<<a, b, c>>, {a, b, c})
           /\ On4(<<a, b, c, d>>, {a, b, c, d})
    BY Lists
  <1>2. /\ {"copy_skills", "copy_agents", "register_services", "post_install_verify"} = InstallSteps
        /\ {"apply_contract_migrations", "swap_services", "update_install_record"} = UpgradeSteps
        /\ {"update_install_record", "apply_contract_migrations", "swap_services"} = UpgradeSteps
    BY DEF InstallSteps, UpgradeSteps
  <1>3. CASE step = "register_services"
    <2>1. UndoOf(step) = <<"register_services">> /\ UndoneAfter(step) = {"register_services"}
      BY <1>3 DEF UndoOf, UndoneAfter
    <2> QED
      BY <1>1, <2>1 DEF UNDOABLE
  <1>4. CASE step = "copy_agents"
    <2>1. /\ UndoOf(step) = <<"register_services", "copy_agents">>
          /\ UndoneAfter(step) = {"register_services", "copy_agents"}
      BY <1>4 DEF UndoOf, UndoneAfter
    <2> QED
      BY <1>1, <2>1 DEF UNDOABLE
  <1>5. CASE step = "copy_skills"
    <2>1. /\ UndoOf(step) = <<"copy_agents", "register_services", "copy_skills">>
          /\ UndoneAfter(step) = {"copy_agents", "register_services", "copy_skills"}
      BY <1>5 DEF UndoOf, UndoneAfter
    <2> QED
      BY <1>1, <2>1 DEF UNDOABLE
  <1>6. CASE step = "post_install_verify"
    <2>1. /\ UndoOf(step) = <<"copy_skills", "copy_agents", "register_services", "post_install_verify">>
          /\ UndoneAfter(step) = InstallSteps
      BY <1>6 DEF UndoOf, UndoneAfter
    <2> QED
      BY <1>1, <1>2, <2>1 DEF UNDOABLE
  <1>7. CASE step = "swap_services"
    <2>1. UndoOf(step) = <<"swap_services">> /\ UndoneAfter(step) = {"swap_services"}
      BY <1>7 DEF UndoOf, UndoneAfter
    <2> QED
      BY <1>1, <2>1 DEF UNDOABLE
  <1>8. CASE step = "apply_contract_migrations"
    <2>1. /\ UndoOf(step) = <<"swap_services", "apply_contract_migrations">>
          /\ UndoneAfter(step) = {"swap_services", "apply_contract_migrations"}
      BY <1>8 DEF UndoOf, UndoneAfter
    <2> QED
      BY <1>1, <2>1 DEF UNDOABLE
  <1>9. CASE step = "update_install_record"
    <2>1. /\ UndoOf(step) = <<"apply_contract_migrations", "swap_services", "update_install_record">>
          /\ UndoneAfter(step) = UpgradeSteps
      BY <1>9 DEF UndoOf, UndoneAfter
    <2> QED
      BY <1>1, <1>2, <2>1 DEF UNDOABLE
  <1>10. CASE step = "post_upgrade_verify"
    <2>1. /\ UndoOf(step) = <<"update_install_record", "apply_contract_migrations", "swap_services">>
          /\ UndoneAfter(step) = UpgradeSteps
      BY <1>10 DEF UndoOf, UndoneAfter
    <2> QED
      BY <1>1, <1>2, <2>1 DEF UNDOABLE
  <1> QED
    BY <1>3, <1>4, <1>5, <1>6, <1>7, <1>8, <1>9, <1>10 DEF Failing, UNDOABLE

(* A failed step puts its list into the command.                            *)
LEMMA FailedUndo ==
  ASSUME NEW step \in Failing, Fails(step), op \in Installing \/ op \in Upgrading
  PROVE  /\ op'.undo \in Seq(UNDOABLE) /\ ToUndo' = UndoneAfter(step)
         /\ op' = [op EXCEPT !.at = "undo", !.undo = op'.undo]
PROOF
  <1>1. op'.undo = UndoOf(step) /\ op' = [op EXCEPT !.at = "undo", !.undo = op'.undo]
    BY DEF Installing, Upgrading, Fails
  <1> QED
    BY <1>1, UndoLists DEF On4, ToUndo

(* An inverse that was run leaves the list; the others stay owed.           *)
LEMMA Popped ==
  ASSUME op.undo \in Seq(UNDOABLE), op.undo # <<>>, op'.undo = Tail(op.undo)
  PROVE  /\ Head(op.undo) \in UNDOABLE /\ Head(op.undo) \in ToUndo
         /\ op'.undo \in Seq(UNDOABLE)
         /\ ToUndo' \subseteq ToUndo
         /\ ToUndo \subseteq ToUndo' \cup {Head(op.undo)}
PROOF
  <1>1. /\ Head(op.undo) = op.undo[1] /\ 1 \in DOMAIN op.undo
        /\ op'.undo \in Seq(UNDOABLE) /\ Len(op'.undo) = Len(op.undo) - 1
        /\ \A i \in 1..Len(op'.undo) : op'.undo[i] = op.undo[i + 1]
        /\ Len(op.undo) \in Nat \ {0}
        /\ DOMAIN op.undo = 1..Len(op.undo) /\ DOMAIN op'.undo = 1..Len(op'.undo)
    OBVIOUS
  <1>2. ASSUME NEW i \in DOMAIN op.undo, i # 1
        PROVE  op.undo[i] \in ToUndo'
    <2>1. i - 1 \in 1..Len(op'.undo) /\ op'.undo[i - 1] = op.undo[i]
      BY <1>1, <1>2
    <2> QED
      BY <2>1, <1>1 DEF ToUndo
  <1>3. \A i \in DOMAIN op'.undo : i + 1 \in DOMAIN op.undo /\ op'.undo[i] = op.undo[i + 1]
    BY <1>1
  <1> QED
    BY <1>1, <1>2, <1>3 DEF ToUndo

-----------------------------------------------------------------------------
(* The type of the state.                                                   *)

(* The place of a command tells which one it is.                            *)
LEMMA Commands ==
  ASSUME LifecycleTypeOK
  PROVE  /\ op = Idle \/ op \in Installing \/ op \in Upgrading \/ op \in Uninstalling
         /\ On("install") <=> op \in Installing
         /\ On("upgrade") <=> op \in Upgrading
         /\ On("uninstall") <=> op \in Uninstalling
         /\ op.at \in {"services", "copy"} => op \in Installing
         /\ op.at \in {"swap", "contract", "update", "verify"} => op \in Upgrading
         /\ op.at \in {"remove", "clear", "confirm", "failed"} => op \in Uninstalling
         /\ op.at = "undo" => op \in Installing \/ op \in Upgrading
BY DEF LifecycleTypeOK, Idle, Installing, Upgrading, Uninstalling, On

(* A command begins with an empty list, and with the world it finds.        *)
LEMMA BeginsBounded ==
  ASSUME Bounded, Starts \/ \E m \in Manifests : InstallUnread(m)
  PROVE  Bounded' /\ Now' = Now /\ op'.before = Now /\ op.at = "idle"
         /\ \/ op'.at = "services" /\ On("install")' /\ op'.copied = {}
            \/ op'.at = "swap" /\ On("upgrade")'
            \/ op'.at = "remove" /\ On("uninstall")'
PROOF
  <1> USE DEF Bounded, LifecycleTypeOK
  <1>1. UNCHANGED world /\ Now' = Now /\ Now \in World
    BY DEF Starts, Install, InstallUnread, StartInstall, Upgrade, Uninstall, world, Now, World
  <1>2. <<>> \in Seq(UNDOABLE) /\ {<<>>[i] : i \in DOMAIN <<>>} = {}
    OBVIOUS
  <1>3. ASSUME NEW m \in Manifests, NEW force \in BOOLEAN, StartInstall(m, force)
        PROVE  /\ op' \in Installing /\ ToUndo' = {} /\ op'.module = op'.new.module
               /\ op'.before = Now /\ op'.at = "services" /\ op'.copied = {} /\ op.at = "idle"
    BY <1>1, <1>2, <1>3, ManifestsAssumption DEF StartInstall, Installing, ToUndo, Manifest, Idle
  <1>4. ASSUME NEW m \in Manifests, NEW force \in BOOLEAN, Upgrade(m, force)
        PROVE  /\ op' \in Upgrading /\ ToUndo' = {} /\ op'.module = op'.new.module
               /\ op'.before.record[op'.module] # None
               /\ op'.before = Now /\ op'.at = "swap" /\ op.at = "idle"
    BY <1>1, <1>2, <1>4, ManifestsAssumption DEF Upgrade, Upgrading, ToUndo, Manifest, Now, Idle
  <1>5. ASSUME NEW mod \in Modules, Uninstall(mod)
        PROVE  /\ op' \in Uninstalling /\ op'.before.record[op'.module] # None
               /\ op'.before = Now /\ op'.at = "remove" /\ op.at = "idle"
    BY <1>1, <1>5 DEF Uninstall, Uninstalling, Now, Record, Idle
  <1>6. files' = files /\ stub' = stub /\ record' = record
    BY <1>1 DEF world
  <1> QED
    BY <1>1, <1>3, <1>4, <1>5, <1>6 DEF Starts, Install, InstallUnread, On, Installing, Upgrading, Uninstalling

(* The steps of each command, those that fail apart.                        *)
InstallMoves == RegisterServices \/ WriteRecord \/ \E f \in Files : Copy(f)
InstallFails ==
  RegisterServicesFails \/ WriteRecordFails \/ \E f \in Files : CopyRefused(f) \/ CopyFails(f)
UpgradeMoves == SwapServices \/ ApplyContract \/ UpdateRecord \/ VerifyUpgrade
UpgradeFails ==
  SwapServicesFails \/ ApplyContractFails \/ UpdateRecordFails \/ VerifyUpgradeFails
UninstallMoves ==
  \/ \E f \in Files : Remove(f) \/ RemoveTolerated(f)
  \/ UnregisterServices \/ UnregisterTolerated \/ ClearRecord \/ ClearRecordFails \/ Confirm
Begins == Starts \/ \E m \in Manifests : InstallUnread(m)
Leaves == Ends \/ Killed

LEMMA NextCases ==
  ASSUME LifecycleNext
  PROVE  \/ Begins \/ InstallMoves \/ InstallFails \/ UpgradeMoves \/ UpgradeFails
         \/ UninstallMoves \/ Undo \/ UndoFails \/ Leaves
PROOF
  <1>1. CASE Steps
    BY <1>1 DEF Steps, InstallMoves, InstallFails, UpgradeMoves, UninstallMoves, Leaves
  <1>2. CASE Faults
    BY <1>2 DEF Faults, InstallFails, UpgradeFails, UninstallMoves, Leaves, Begins
  <1> QED
    BY <1>1, <1>2 DEF LifecycleNext, Begins

(* A command goes on as the one it is.                                      *)
SameCommand ==
  /\ op'.what = op.what /\ op'.module = op.module /\ op'.before = op.before
  /\ op.what \in {"install", "upgrade"} => op'.new = op.new
  /\ op.what = "install" => op'.force = op.force

LEMMA InstallMovesBounded ==
  ASSUME Bounded, InstallMoves
  PROVE  Bounded' /\ On("install") /\ On("install")' /\ SameCommand
PROOF
  <1> USE DEF Bounded, LifecycleTypeOK
  <1>1. op \in Installing
    BY Commands DEF InstallMoves, RegisterServices, WriteRecord, Copy
  <1>2. /\ op.new \in Manifest /\ op.module \in Modules /\ op.undo \in Seq(UNDOABLE)
        /\ op.copied \in SUBSET Files /\ op.before \in World /\ op.new \in Manifests
        /\ op.what = "install" /\ On("install")
    BY <1>1, ManifestsAssumption, Commands DEF Installing
  <1>3. CASE RegisterServices
    <2>1. op' \in Installing /\ SameCommand /\ op'.undo = op.undo /\ op'.at = "copy"
      BY <1>1, <1>2, <1>3 DEF RegisterServices, Installing, SameCommand
    <2>2. stub' \in [Modules -> {None} \cup SUBSET Services] /\ files' = files /\ record' = record
      BY <1>2, <1>3 DEF RegisterServices, Manifest
    <2> QED
      BY <2>1, <2>2, <1>2 DEF On, ToUndo, Installing, SameCommand
  <1>4. CASE WriteRecord
    <2>1. op' \in Installing /\ SameCommand /\ op'.undo = op.undo /\ op'.at = "passed"
      BY <1>1, <1>2, <1>4 DEF WriteRecord, Installing, SameCommand
    <2>2. Installed \in Record
      BY <1>2 DEF Installed, Record
    <2>3. record' \in [Modules -> {None} \cup Record] /\ files' = files /\ stub' = stub
      BY <1>2, <2>2, <1>4 DEF WriteRecord
    <2> QED
      BY <2>1, <2>3, <1>2 DEF On, ToUndo, Installing, SameCommand
  <1>5. ASSUME NEW f \in Files, Copy(f)
        PROVE  Bounded' /\ On("install")' /\ SameCommand
    <2>1. op' \in Installing /\ SameCommand /\ op'.undo = op.undo /\ op'.at = "copy"
      BY <1>1, <1>2, <1>5 DEF Copy, Installing, SameCommand
    <2>2. /\ files' \in [Files -> {None, Foreign, Torn} \cup Manifests]
          /\ stub' = stub /\ record' = record
      BY <1>2, <1>5 DEF Copy
    <2> QED
      BY <2>1, <2>2, <1>2 DEF On, ToUndo, Installing, SameCommand
  <1> QED
    BY <1>2, <1>3, <1>4, <1>5 DEF InstallMoves

(* The step that fails, and what is then undone.                            *)
LEMMA InstallFailsBounded ==
  ASSUME Bounded, InstallFails
  PROVE  /\ Bounded' /\ On("install") /\ On("install")' /\ SameCommand
         /\ op'.at = "undo" /\ op'.copied = op.copied /\ op'.stuck = op.stuck
         /\ RegisterServicesFails => ToUndo' = {"register_services"}
         /\ WriteRecordFails => ToUndo' = InstallSteps
         /\ (\E f \in Files : CopyRefused(f) \/ CopyFails(f)) => ToUndo' = UndoneAfter(CopyStep)
PROOF
  <1> USE DEF Bounded, LifecycleTypeOK
  <1>1. op \in Installing
    BY Commands DEF InstallFails, RegisterServicesFails, WriteRecordFails, CopyRefused, CopyFails
  <1>2. /\ op.new \in Manifest /\ op.module \in Modules /\ op.undo \in Seq(UNDOABLE)
        /\ op.copied \in SUBSET Files /\ op.before \in World /\ op.new \in Manifests
        /\ op.what = "install" /\ On("install")
    BY <1>1, ManifestsAssumption, Commands DEF Installing
  <1>3. ASSUME NEW step \in {"register_services", "copy_agents", "copy_skills", "post_install_verify"},
               Fails(step)
        PROVE  /\ op' \in Installing /\ SameCommand /\ ToUndo' = UndoneAfter(step)
               /\ ToUndo' \subseteq InstallSteps
               /\ op'.at = "undo" /\ op'.copied = op.copied /\ op'.stuck = op.stuck
               /\ On("install")' /\ op'.module = op'.new.module
    <2>1. step \in Failing
      BY DEF Failing, UNDOABLE
    <2>2. /\ op'.undo \in Seq(UNDOABLE) /\ ToUndo' = UndoneAfter(step)
          /\ op' = [op EXCEPT !.at = "undo", !.undo = op'.undo]
      BY <2>1, <1>1, <1>3, FailedUndo
    <2>3. UndoneAfter(step) \subseteq InstallSteps
      BY DEF UndoneAfter, InstallSteps
    <2> QED
      BY <2>2, <2>3, <1>1, <1>2 DEF Installing, SameCommand, On
  <1>4. /\ CopyStep \in {"copy_agents", "copy_skills"}
        /\ UndoneAfter("register_services") = {"register_services"}
        /\ UndoneAfter("post_install_verify") = InstallSteps
    BY DEF CopyStep, UndoneAfter
  <1>5. HalfStub \in [Modules -> {None} \cup SUBSET Services]
    BY <1>2 DEF HalfStub
  <1>6. CASE RegisterServicesFails
    <2>1. Fails("register_services") /\ files' = files /\ record' = record
          /\ stub' \in [Modules -> {None} \cup SUBSET Services]
      BY <1>5, <1>6 DEF RegisterServicesFails
    <2>2. op.at = "services" /\ ~ WriteRecordFails /\ ~ \E f \in Files : CopyRefused(f) \/ CopyFails(f)
      BY <1>6 DEF RegisterServicesFails, WriteRecordFails, CopyRefused, CopyFails
    <2> QED
      BY <2>1, <2>2, <1>2, <1>3, <1>4 DEF Installing, On
  <1>7. CASE WriteRecordFails
    <2>1. Installed \in Record
      BY <1>2 DEF Installed, Record
    <2>2. Fails("post_install_verify") /\ files' = files /\ stub' = stub
          /\ record' \in [Modules -> {None} \cup Record]
      BY <2>1, <1>2, <1>7 DEF WriteRecordFails
    <2>3. ~ RegisterServicesFails /\ ~ \E f \in Files : CopyRefused(f) \/ CopyFails(f)
      BY <1>7 DEF RegisterServicesFails, WriteRecordFails, CopyRefused, CopyFails
    <2> QED
      BY <2>2, <2>3, <1>2, <1>3, <1>4 DEF Installing, On
  <1>8. ASSUME NEW f \in Files, CopyRefused(f) \/ CopyFails(f)
        PROVE  Fails(CopyStep) /\ stub' = stub /\ record' = record
               /\ files' \in [Files -> {None, Foreign, Torn} \cup Manifests]
               /\ op.at = "copy"
    BY <1>2, <1>8 DEF CopyRefused, CopyFails, world
  <1>9. CASE \E f \in Files : CopyRefused(f) \/ CopyFails(f)
    <2>1. ~ RegisterServicesFails
      BY <1>8, <1>9 DEF RegisterServicesFails
    <2>2. ~ WriteRecordFails
      BY <1>9 DEF WriteRecordFails, CopyRefused, CopyFails
    <2> QED
      BY <2>1, <2>2, <1>2, <1>3, <1>4, <1>8, <1>9 DEF Installing, On
  <1> QED
    BY <1>6, <1>7, <1>9 DEF InstallFails

LEMMA UpgradeMovesBounded ==
  ASSUME Bounded, UpgradeMoves
  PROVE  Bounded' /\ On("upgrade") /\ On("upgrade")' /\ SameCommand
PROOF
  <1> USE DEF Bounded, LifecycleTypeOK
  <1>1. op \in Upgrading
    BY Commands DEF UpgradeMoves, SwapServices, ApplyContract, UpdateRecord, VerifyUpgrade
  <1>2. /\ op.new \in Manifest /\ op.module \in Modules /\ op.undo \in Seq(UNDOABLE)
        /\ op.before \in World /\ op.new \in Manifests
        /\ op.what = "upgrade" /\ On("upgrade")
        /\ op.before.record[op.module] \in Record
    BY <1>1, ManifestsAssumption, Commands DEF Upgrading, World
  <1>3. ASSUME NEW at \in {"contract", "update", "verify", "passed"}, op' = [op EXCEPT !.at = at]
        PROVE  /\ op' \in Upgrading /\ SameCommand /\ On("upgrade")' /\ ToUndo' = ToUndo
               /\ ~ On("install")' /\ ~ On("uninstall")'
    BY <1>1, <1>2, <1>3 DEF Upgrading, SameCommand, On, ToUndo
  <1>4. CASE SwapServices
    <2>1. stub' \in [Modules -> {None} \cup SUBSET Services] /\ files' = files /\ record' = record
      BY <1>2, <1>4 DEF SwapServices, Manifest
    <2> QED
      BY <2>1, <1>2, <1>3, <1>4 DEF SwapServices, SameCommand
  <1>5. CASE ApplyContract \/ VerifyUpgrade
    BY <1>2, <1>3, <1>5 DEF ApplyContract, VerifyUpgrade, SameCommand, world
  <1>6. CASE UpdateRecord
    <2>1. Upgraded \in Record
      BY <1>2 DEF Upgraded, Record, Manifest
    <2>2. record' \in [Modules -> {None} \cup Record] /\ files' = files /\ stub' = stub
      BY <1>2, <2>1, <1>6 DEF UpdateRecord
    <2> QED
      BY <2>2, <1>2, <1>3, <1>6 DEF UpdateRecord, SameCommand
  <1> QED
    BY <1>2, <1>4, <1>5, <1>6 DEF UpgradeMoves

LEMMA UpgradeFailsBounded ==
  ASSUME Bounded, UpgradeFails
  PROVE  /\ Bounded' /\ On("upgrade") /\ On("upgrade")' /\ SameCommand
         /\ op'.at = "undo" /\ op'.stuck = op.stuck
         /\ "swap_services" \in ToUndo'
         /\ op.at \in {"update", "verify"} => "update_install_record" \in ToUndo'
PROOF
  <1> USE DEF Bounded, LifecycleTypeOK
  <1>1. op \in Upgrading
    BY Commands
       DEF UpgradeFails, SwapServicesFails, ApplyContractFails, UpdateRecordFails, VerifyUpgradeFails
  <1>2. /\ op.new \in Manifest /\ op.module \in Modules /\ op.undo \in Seq(UNDOABLE)
        /\ op.before \in World /\ op.new \in Manifests
        /\ op.what = "upgrade" /\ On("upgrade")
        /\ op.before.record[op.module] \in Record
    BY <1>1, ManifestsAssumption, Commands DEF Upgrading, World
  <1>3. ASSUME NEW step \in {"swap_services", "apply_contract_migrations", "update_install_record",
                             "post_upgrade_verify"},
               Fails(step)
        PROVE  /\ op' \in Upgrading /\ SameCommand /\ ToUndo' = UndoneAfter(step)
               /\ ToUndo' \subseteq UpgradeSteps
               /\ op'.at = "undo" /\ op'.stuck = op.stuck
               /\ On("upgrade")' /\ ~ On("install")' /\ ~ On("uninstall")'
               /\ op'.module = op'.new.module
    <2>1. step \in Failing
      BY DEF Failing, UNDOABLE
    <2>2. /\ op'.undo \in Seq(UNDOABLE) /\ ToUndo' = UndoneAfter(step)
          /\ op' = [op EXCEPT !.at = "undo", !.undo = op'.undo]
      BY <2>1, <1>1, <1>3, FailedUndo
    <2>3. UndoneAfter(step) \subseteq UpgradeSteps
      BY DEF UndoneAfter, UpgradeSteps
    <2> QED
      BY <2>2, <2>3, <1>1, <1>2 DEF Upgrading, SameCommand, On
  <1>4. /\ UndoneAfter("swap_services") = {"swap_services"}
        /\ UndoneAfter("apply_contract_migrations") = {"swap_services", "apply_contract_migrations"}
        /\ UndoneAfter("update_install_record") = UpgradeSteps
        /\ UndoneAfter("post_upgrade_verify") = UpgradeSteps
    BY DEF UndoneAfter
  <1>5. HalfStub \in [Modules -> {None} \cup SUBSET Services]
    BY <1>2 DEF HalfStub
  <1>6. CASE SwapServicesFails
    <2>1. Fails("swap_services") /\ files' = files /\ record' = record
          /\ stub' \in [Modules -> {None} \cup SUBSET Services] /\ op.at = "swap"
      BY <1>5, <1>6 DEF SwapServicesFails
    <2> QED
      BY <2>1, <1>2, <1>3, <1>4 DEF SameCommand
  <1>7. CASE ApplyContractFails
    <2>1. Fails("apply_contract_migrations") /\ UNCHANGED <<files, stub, record>> /\ op.at = "contract"
      BY <1>7 DEF ApplyContractFails, world
    <2> QED
      BY <2>1, <1>2, <1>3, <1>4 DEF SameCommand
  <1>8. CASE UpdateRecordFails
    <2>1. Upgraded \in Record
      BY <1>2 DEF Upgraded, Record, Manifest
    <2>2. Fails("update_install_record") /\ files' = files /\ stub' = stub
          /\ record' \in [Modules -> {None} \cup Record]
      BY <2>1, <1>2, <1>8 DEF UpdateRecordFails
    <2> QED
      BY <2>2, <1>2, <1>3, <1>4 DEF SameCommand, UpgradeSteps
  <1>9. CASE VerifyUpgradeFails
    <2>1. Fails("post_upgrade_verify") /\ UNCHANGED <<files, stub, record>>
      BY <1>9 DEF VerifyUpgradeFails, world
    <2> QED
      BY <2>1, <1>2, <1>3, <1>4 DEF SameCommand, UpgradeSteps
  <1> QED
    BY <1>6, <1>7, <1>8, <1>9 DEF UpgradeFails

LEMMA UninstallMovesBounded ==
  ASSUME Bounded, UninstallMoves
  PROVE  Bounded' /\ On("uninstall") /\ On("uninstall")' /\ SameCommand
PROOF
  <1> USE DEF Bounded, LifecycleTypeOK
  <1>1. op \in Uninstalling
    BY Commands
       DEF UninstallMoves, Remove, RemoveTolerated, UnregisterServices, UnregisterTolerated,
           ClearRecord, ClearRecordFails, Confirm
  <1>2. /\ op.module \in Modules /\ op.before \in World /\ op.pending \in SUBSET Files
        /\ op.what = "uninstall" /\ On("uninstall")
        /\ op.before.record[op.module] # None
    BY <1>1, Commands DEF Uninstalling
  <1>3. ASSUME NEW at \in {"remove", "clear", "confirm", "passed", "failed"},
               NEW pending \in SUBSET Files,
               op' = [op EXCEPT !.at = at, !.pending = pending]
        PROVE  /\ op' \in Uninstalling /\ SameCommand
               /\ On("uninstall")' /\ ~ On("install")' /\ ~ On("upgrade")'
    BY <1>1, <1>2, <1>3 DEF Uninstalling, SameCommand, On
  <1>5. ASSUME NEW f \in Files, Remove(f) \/ RemoveTolerated(f)
        PROVE  Bounded' /\ On("uninstall")' /\ SameCommand
    <2>1. /\ op' = [op EXCEPT !.at = "remove", !.pending = op.pending \ {f}]
          /\ files' \in [Files -> {None, Foreign, Torn} \cup Manifests]
          /\ stub' = stub /\ record' = record
      BY <1>1, <1>2, <1>5 DEF Remove, RemoveTolerated, world, Uninstalling
    <2>2. op.pending \ {f} \in SUBSET Files
      BY <1>2
    <2>3. /\ op' \in Uninstalling /\ SameCommand
          /\ On("uninstall")' /\ ~ On("install")' /\ ~ On("upgrade")'
      BY <2>1, <2>2, <1>3
    <2> QED
      BY <2>1, <2>3, <1>2 DEF SameCommand
  <1>6. CASE UnregisterServices \/ UnregisterTolerated
    <2>1. /\ op' = [op EXCEPT !.at = "clear", !.pending = op.pending]
          /\ stub' \in [Modules -> {None} \cup SUBSET Services]
          /\ files' = files /\ record' = record
      BY <1>1, <1>2, <1>6 DEF UnregisterServices, UnregisterTolerated, world, Uninstalling
    <2> QED
      BY <2>1, <1>2, <1>3 DEF SameCommand
  <1>7. CASE ClearRecord \/ ClearRecordFails
    <2>1. /\ \E at \in {"confirm", "failed"} : op' = [op EXCEPT !.at = at, !.pending = op.pending]
          /\ record' \in [Modules -> {None} \cup Record]
          /\ files' = files /\ stub' = stub
      BY <1>1, <1>2, <1>7 DEF ClearRecord, ClearRecordFails, Uninstalling
    <2> QED
      BY <2>1, <1>2, <1>3 DEF SameCommand
  <1>8. CASE Confirm
    <2>1. /\ \E at \in {"passed", "failed"} : op' = [op EXCEPT !.at = at, !.pending = op.pending]
          /\ UNCHANGED <<files, stub, record>>
      BY <1>1, <1>2, <1>8 DEF Confirm, Uninstalling, world
    <2> QED
      BY <2>1, <1>2, <1>3 DEF SameCommand
  <1> QED
    BY <1>2, <1>5, <1>6, <1>7, <1>8 DEF UninstallMoves

(* Undoing a step, whether its inverse does its work or not.                *)
LEMMA UndoBounded ==
  ASSUME Bounded, Undo \/ UndoFails
  PROVE  /\ Bounded' /\ op.at = "undo" /\ op'.at = "undo" /\ SameCommand
         /\ (On("install") <=> On("install")') /\ (On("upgrade") <=> On("upgrade")')
         /\ On("install") \/ On("upgrade")
         /\ On("install") => op'.copied = op.copied
         /\ Head(op.undo) \in ToUndo /\ ToUndo' \subseteq ToUndo
         /\ \A step : Owed(step) => Owed(step)' \/ step = Head(op.undo)
         /\ UndoFails => \A step : Owed(step) => Owed(step)'
PROOF
  <1> USE DEF Bounded, LifecycleTypeOK
  <1>1. op.at = "undo" /\ op.undo # <<>> /\ (op \in Installing \/ op \in Upgrading)
    BY Commands DEF Undo, UndoFails
  <1>2. /\ op.new \in Manifest /\ op.module \in Modules /\ op.undo \in Seq(UNDOABLE)
        /\ op.before \in World /\ op.new \in Manifests /\ op.stuck \in SUBSET UNDOABLE
        /\ On("install") => op.copied \in SUBSET Files
    BY <1>1, ManifestsAssumption, Commands DEF Installing, Upgrading
  <1>3. PICK stuck \in SUBSET UNDOABLE :
              /\ op' = [op EXCEPT !.undo = Tail(op.undo), !.stuck = stuck]
              /\ op.stuck \subseteq stuck
              /\ UndoFails => Head(op.undo) \in stuck
    <2>1. Head(op.undo) \in UNDOABLE
      BY <1>1, <1>2
    <2>2. CASE Undo /\ ~ UndoFails
      <3> DEFINE s == op.stuck \cup ({Head(op.undo)} \cap {"apply_contract_migrations"})
      <3>1. op' = [op EXCEPT !.undo = Tail(op.undo), !.stuck = s]
        BY <1>1, <2>2 DEF Undo, Installing, Upgrading
      <3>2. s \in SUBSET UNDOABLE /\ op.stuck \subseteq s
        BY <2>1, <1>2
      <3> QED
        BY <3>1, <3>2, <2>2
    <2>3. CASE UndoFails
      <3> DEFINE s == op.stuck \cup {Head(op.undo)}
      <3>1. op' = [op EXCEPT !.undo = Tail(op.undo), !.stuck = s]
        BY <1>1, <2>3 DEF UndoFails, Installing, Upgrading
      <3> QED
        BY <3>1, <2>1, <2>3, <1>2
    <2> QED
      BY <2>2, <2>3
  <1>4. op'.undo = Tail(op.undo) /\ op'.stuck = stuck /\ op'.at = "undo" /\ SameCommand
    BY <1>1, <1>3 DEF Installing, Upgrading, SameCommand
  <1>5. /\ Head(op.undo) \in UNDOABLE /\ Head(op.undo) \in ToUndo
        /\ op'.undo \in Seq(UNDOABLE)
        /\ ToUndo' \subseteq ToUndo
        /\ ToUndo \subseteq ToUndo' \cup {Head(op.undo)}
    BY <1>1, <1>2, <1>4, Popped
  <1>6. /\ op \in Installing => op' \in Installing /\ op'.copied = op.copied
        /\ op \in Upgrading => op' \in Upgrading
    BY <1>1, <1>3, <1>4, <1>5 DEF Installing, Upgrading
  <1>7. /\ files' \in [Files -> {None, Foreign, Torn} \cup Manifests]
        /\ stub' \in [Modules -> {None} \cup SUBSET Services]
        /\ record' \in [Modules -> {None} \cup Record]
    <2>1. \A S \in SUBSET Files : Removed(S) \in [Files -> {None, Foreign, Torn} \cup Manifests]
      BY DEF Removed
    <2>2. op \in Upgrading => RegisteredBefore \in SUBSET Services
      BY <1>1, <1>2, ManifestsAssumption, Commands DEF RegisteredBefore, World, Record, Manifest
    <2>3. op.before.record[op.module] \in {None} \cup Record
      BY <1>2 DEF World
    <2>4. HalfStub \in [Modules -> {None} \cup SUBSET Services]
      BY <1>2 DEF HalfStub
    <2>5. op \in Installing => Head(op.undo) \in InstallSteps
      BY <1>5, Commands
    <2>6. op \in Upgrading => Head(op.undo) \in UpgradeSteps
      BY <1>5, Commands
    <2>7. CASE Undo /\ op \in Installing
      <3>1. InverseOf(Head(op.undo)) /\ Head(op.undo) \in InstallSteps
        BY <2>5, <2>7 DEF Undo
      <3>2. op.copied \cap op.new.agents \in SUBSET Files /\ op.copied \cap op.new.skills \in SUBSET Files
        BY <1>2, <2>7, Commands
      <3>3. files' \in [Files -> {None, Foreign, Torn} \cup Manifests]
        BY <3>1, <3>2, <2>1 DEF InverseOf
      <3>4. stub' = stub \/ stub' = [stub EXCEPT ![op.module] = None]
        BY <3>1 DEF InverseOf, InstallSteps
      <3>5. record' = record \/ record' = [record EXCEPT ![op.module] = None]
        BY <3>1 DEF InverseOf, InstallSteps
      <3> QED
        BY <3>3, <3>4, <3>5, <1>2
    <2>8. CASE Undo /\ op \in Upgrading
      <3>1. InverseOf(Head(op.undo)) /\ Head(op.undo) \in UpgradeSteps
        BY <2>6, <2>8 DEF Undo
      <3>2. files' = files
        BY <3>1 DEF InverseOf, UpgradeSteps
      <3>3. stub' = stub \/ stub' = [stub EXCEPT ![op.module] = RegisteredBefore]
        BY <3>1 DEF InverseOf, UpgradeSteps
      <3>4. \/ record' = record
            \/ record' = [record EXCEPT ![op.module] = op.before.record[op.module]]
        BY <3>1 DEF InverseOf, UpgradeSteps
      <3> QED
        BY <3>2, <3>3, <3>4, <2>2, <2>3, <2>8, <1>2
    <2>9. CASE UndoFails /\ op \in Installing
      <3>1. op.copied \in SUBSET Files /\ op.new.agents \subseteq Files /\ op.new.skills \subseteq Files
        BY <1>2, <2>9, Commands DEF Manifest
      <3>2. HalfInverse(Head(op.undo)) /\ Head(op.undo) \in InstallSteps
        BY <2>5, <2>9 DEF UndoFails
      <3> QED
        BY <3>1, <3>2, <2>1 DEF HalfInverse, InstallSteps, world
    <2>10. CASE UndoFails /\ op \in Upgrading
      <3>2. HalfInverse(Head(op.undo)) /\ Head(op.undo) \in UpgradeSteps
        BY <2>6, <2>10 DEF UndoFails
      <3> QED
        BY <3>2, <2>4 DEF HalfInverse, UpgradeSteps, world
    <2> QED
      BY <1>1, <2>7, <2>8, <2>9, <2>10
  <1>8. /\ op \in Installing => On("install") /\ On("install")' /\ ~ On("upgrade") /\ ~ On("upgrade")'
        /\ op \in Upgrading => On("upgrade") /\ On("upgrade")' /\ ~ On("install") /\ ~ On("install")'
        /\ ~ On("uninstall")'
    BY <1>1, <1>4, <1>6 DEF Installing, Upgrading, On
  <1>9. Bounded'
    BY <1>1, <1>4, <1>5, <1>6, <1>7, <1>8 DEF SameCommand, Installing, Upgrading
  <1>10. /\ \A step : Owed(step) => Owed(step)' \/ step = Head(op.undo)
         /\ UndoFails => \A step : Owed(step) => Owed(step)'
    BY <1>3, <1>4, <1>5 DEF Owed
  <1> QED
    BY <1>1, <1>4, <1>5, <1>6, <1>8, <1>9, <1>10

LEMMA LeavesBounded ==
  ASSUME Bounded, Leaves
  PROVE  Bounded' /\ op' = Idle
PROOF
  <1> USE DEF Bounded, LifecycleTypeOK
  <1>1. op' = Idle
    BY DEF Leaves, Ends, Killed
  <1>2. CASE Ends
    BY <1>1, <1>2 DEF Ends, world, On, Idle
  <1>3. CASE Killed
    <2>1. stub' \in [Modules -> {None} \cup SUBSET Services]
      BY <1>3 DEF Killed, HalfStub
    <2>2. files' \in [Files -> {None, Foreign, Torn} \cup Manifests]
      BY <1>3 DEF Killed
    <2>3. record' = record
      BY <1>3 DEF Killed
    <2> QED
      BY <1>1, <2>1, <2>2, <2>3 DEF On, Idle
  <1> QED
    BY <1>1, <1>2, <1>3 DEF Leaves

LEMMA BoundedStep ==
  ASSUME Bounded, LifecycleNext
  PROVE  Bounded'
BY NextCases, BeginsBounded, InstallMovesBounded, InstallFailsBounded, UpgradeMovesBounded,
   UpgradeFailsBounded, UninstallMovesBounded, UndoBounded, LeavesBounded
   DEF Begins
LEMMA AtMostOne ==
  ASSUME NEW S, \A f, g \in S : f = g
  PROVE  Cardinality(S) <= 1
PROOF
  <1>1. CASE S = {}
    BY <1>1, FS_EmptySet
  <1>2. CASE S # {}
    <2>1. PICK f \in S : S = {f}
      BY <1>2
    <2>2. Cardinality({f}) = 1
      BY FS_Singleton
    <2> QED
      BY <2>1, <2>2
  <1> QED
    BY <1>1, <1>2
-----------------------------------------------------------------------------
(* What a running command has done so far.                                  *)

(* The parts of a running install.                                          *)
LEMMA InstallParts ==
  ASSUME Bounded, On("install")
  PROVE  /\ op.module \in Modules /\ op.module = op.new.module /\ op.new \in Manifests
         /\ op.new.agents \in SUBSET Files /\ op.new.skills \in SUBSET Files
         /\ op.new.services \in SUBSET Services /\ op.copied \in SUBSET Files
         /\ op.new.agents \cap op.new.skills = {} /\ op.force \in BOOLEAN
         /\ op.stuck \in SUBSET UNDOABLE /\ op.undo \in Seq(UNDOABLE) /\ op.before \in World
         /\ op.what = "install" /\ op.at \in {"services", "copy", "undo", "passed"}
         /\ ~ On("upgrade") /\ ~ On("uninstall")
BY Commands, ManifestsAssumption DEF Bounded, Installing, Manifest, On

LEMMA UpgradeParts ==
  ASSUME Bounded, On("upgrade")
  PROVE  /\ op.module \in Modules /\ op.module = op.new.module /\ op.new \in Manifests
         /\ op.new.services \in SUBSET Services
         /\ op.stuck \in SUBSET UNDOABLE /\ op.undo \in Seq(UNDOABLE) /\ op.before \in World
         /\ op.before.record[op.module] \in Record
         /\ op.before.record[op.module].manifest.services \in SUBSET Services
         /\ op.what = "upgrade"
         /\ op.at \in {"swap", "contract", "update", "verify", "undo", "passed"}
         /\ ~ On("install") /\ ~ On("uninstall")
PROOF
  <1>1. op \in Upgrading /\ op.module \in Modules /\ op.module = op.new.module
        /\ op.new \in Manifests /\ op.before \in World /\ op.before.record[op.module] # None
    BY Commands DEF Bounded, Upgrading
  <1>2. op.before.record[op.module] \in Record
    BY <1>1 DEF World
  <1> QED
    BY <1>1, <1>2, ManifestsAssumption DEF Bounded, Upgrading, Manifest, On, Record

LEMMA InstallDoneStep ==
  ASSUME Bounded, InstallDone, LifecycleNext
  PROVE  InstallDone'
PROOF
  <1> USE DEF InstallDone
  <1>1. CASE Begins
    BY <1>1, BeginsBounded DEF Begins, On
  <1>2. CASE RegisterServices
    <2>1. /\ InstallMoves /\ op'.at = "copy" /\ op'.copied = op.copied
          /\ op.at = "services" /\ files' = files
      BY <1>2, Commands DEF RegisterServices, InstallMoves, Bounded, Installing
    <2>2. /\ On("install") /\ SameCommand /\ op.module \in Modules /\ op.what = "install"
      BY <2>1, InstallMovesBounded, InstallParts
    <2>3. op.new.services # {} => stub'[op.module] = op.new.services
      BY <1>2, <2>2 DEF RegisterServices, Bounded, LifecycleTypeOK
    <2> QED
      BY <2>1, <2>2, <2>3 DEF SameCommand
  <1>3. CASE WriteRecord
    <2>1. InstallMoves /\ op'.at = "passed"
      BY <1>3, Commands DEF WriteRecord, InstallMoves, Bounded, Installing
    <2> QED
      BY <2>1
  <1>4. ASSUME NEW f \in Files, Copy(f)
        PROVE  InstallDone'
    <2>1. /\ InstallMoves /\ op'.at = "copy" /\ op'.copied = op.copied \cup {f}
          /\ op.at = "copy" /\ files' = [files EXCEPT ![f] = op.new] /\ stub' = stub
          /\ f \in Pending
      BY <1>4, Commands DEF Copy, InstallMoves, Bounded, Installing
    <2>2. /\ On("install") /\ SameCommand /\ op.what = "install"
          /\ op.new.agents \cap op.new.skills = {}
          /\ op.copied \in SUBSET Files
      BY <2>1, InstallMovesBounded, InstallParts
    <2>3. \A g \in op.copied \cup {f} : files'[g] = op.new
      BY <2>1, <2>2 DEF Bounded, LifecycleTypeOK
    <2>4. (op.copied \cup {f}) \cap op.new.skills # {} => op.new.agents \subseteq op.copied \cup {f}
      <3>1. CASE op.new.agents \subseteq op.copied
        BY <3>1
      <3>2. CASE ~ (op.new.agents \subseteq op.copied)
        <4>1. f \in op.new.agents
          BY <2>1, <3>2 DEF Pending
        <4>2. op.copied \cap op.new.skills = {}
          BY <2>1, <2>2, <3>2
        <4> QED
          BY <4>1, <4>2, <2>2
      <3> QED
        BY <3>1, <3>2
    <2>5. f \in op.new.agents \cup op.new.skills
      BY <2>1 DEF Pending
    <2> QED
      BY <2>1, <2>2, <2>3, <2>4, <2>5 DEF SameCommand
  <1>5. CASE InstallFails
    <2>1. /\ On("install") /\ SameCommand /\ op'.at = "undo" /\ op'.copied = op.copied
          /\ op.what = "install"
      BY <1>5, InstallFailsBounded, InstallParts
    <2>2. op.at \in {"services", "copy"}
      BY <1>5 DEF InstallFails, RegisterServicesFails, WriteRecordFails, CopyRefused, CopyFails
    <2> QED
      BY <2>1, <2>2 DEF SameCommand
  <1>6. CASE UpgradeMoves \/ UpgradeFails
    BY <1>6, UpgradeMovesBounded, UpgradeFailsBounded DEF On
  <1>7. CASE UninstallMoves
    BY <1>7, UninstallMovesBounded DEF On
  <1>8. CASE Undo \/ UndoFails
    <2>1. ASSUME On("install")'
          PROVE  /\ op'.copied = op.copied /\ op'.new = op.new /\ op'.at = "undo" /\ op.at = "undo"
                 /\ On("install")
      BY <1>8, <2>1, UndoBounded, InstallParts DEF SameCommand
    <2> QED
      BY <2>1
  <1>9. CASE Leaves
    BY <1>9, LeavesBounded DEF On, Idle
  <1> QED
    BY <1>1, <1>2, <1>3, <1>4, <1>5, <1>6, <1>7, <1>8, <1>9, NextCases DEF InstallMoves

(* What undoing one step of an install does to the world: it takes back     *)
(* what the install wrote, wholly when the inverse does its work.           *)
LEMMA InstallUndone ==
  ASSUME Bounded, On("install"), Undo \/ UndoFails
  PROVE  /\ \A f \in Files : files'[f] = files[f] \/ (f \in op.copied /\ files'[f] = None)
         /\ \A x \in Modules \ {op.module} : stub'[x] = stub[x] /\ record'[x] = record[x]
         /\ stub'[op.module] \in {None, stub[op.module]}
         /\ record'[op.module] \in {None, record[op.module]}
         /\ ~ UndoFails =>
              /\ Head(op.undo) = "copy_agents" =>
                    \A f \in op.new.agents \cap op.copied : files'[f] = None
              /\ Head(op.undo) = "copy_skills" =>
                    \A f \in op.new.skills \cap op.copied : files'[f] = None
              /\ Head(op.undo) = "register_services" => stub'[op.module] = None
              /\ Head(op.undo) = "post_install_verify" => record'[op.module] = None
PROOF
  <1>1. /\ op.module \in Modules /\ op.copied \in SUBSET Files
        /\ op.new.agents \in SUBSET Files /\ op.new.skills \in SUBSET Files
    BY InstallParts
  <1>2. Head(op.undo) \in InstallSteps
    BY UndoBounded DEF Bounded
  <1>3. /\ stub \in [Modules -> {None} \cup SUBSET Services]
        /\ record \in [Modules -> {None} \cup Record]
        /\ files \in [Files -> {None, Foreign, Torn} \cup Manifests]
    BY DEF Bounded, LifecycleTypeOK
  <1>4. \A S \in SUBSET Files, f \in Files :
           Removed(S)[f] = IF f \in S THEN None ELSE files[f]
    BY DEF Removed
  <1>5. CASE Undo /\ ~ UndoFails
    <2>1. InverseOf(Head(op.undo))
      BY <1>5 DEF Undo
    <2>2. \/ files' = files /\ Head(op.undo) \notin {"copy_agents", "copy_skills"}
          \/ files' = Removed(op.copied \cap op.new.agents) /\ Head(op.undo) = "copy_agents"
          \/ files' = Removed(op.copied \cap op.new.skills) /\ Head(op.undo) = "copy_skills"
      BY <1>2, <2>1 DEF InverseOf, InstallSteps
    <2>3. \/ stub' = stub /\ Head(op.undo) # "register_services"
          \/ stub' = [stub EXCEPT ![op.module] = None]
      BY <1>2, <2>1 DEF InverseOf, InstallSteps
    <2>4. \/ record' = record /\ Head(op.undo) # "post_install_verify"
          \/ record' = [record EXCEPT ![op.module] = None]
      BY <1>2, <2>1 DEF InverseOf, InstallSteps
    <2>5. /\ \A f \in Files : files'[f] = files[f] \/ (f \in op.copied /\ files'[f] = None)
          /\ Head(op.undo) = "copy_agents" =>
                \A f \in op.new.agents \cap op.copied : files'[f] = None
          /\ Head(op.undo) = "copy_skills" =>
                \A f \in op.new.skills \cap op.copied : files'[f] = None
      <3>1. /\ op.copied \cap op.new.agents \in SUBSET Files
            /\ op.copied \cap op.new.skills \in SUBSET Files
        BY <1>1
      <3>2. CASE files' = files /\ Head(op.undo) \notin {"copy_agents", "copy_skills"}
        BY <3>2
      <3>3. CASE files' = Removed(op.copied \cap op.new.agents) /\ Head(op.undo) = "copy_agents"
        BY <3>1, <3>3, <1>4
      <3>4. CASE files' = Removed(op.copied \cap op.new.skills) /\ Head(op.undo) = "copy_skills"
        BY <3>1, <3>4, <1>4
      <3> QED
        BY <3>2, <3>3, <3>4, <2>2
    <2> QED
      BY <1>1, <1>3, <1>5, <2>3, <2>4, <2>5
  <1>6. CASE UndoFails
    <2>1. HalfInverse(Head(op.undo))
      BY <1>6 DEF UndoFails
    <2>2. stub' = stub /\ record' = record
      BY <1>2, <2>1 DEF HalfInverse, InstallSteps, world
    <2>3. \/ files' = files
          \/ \E S \in SUBSET op.copied : files' = Removed(S)
      <3>1. CASE Head(op.undo) \in {"copy_agents", "copy_skills"}
        <4>1. PICK kept \in SUBSET op.copied :
                files' = Removed((IF Head(op.undo) = "copy_agents" THEN op.new.agents
                                                                   ELSE op.new.skills)
                                    \cap (op.copied \ kept))
          BY <2>1, <3>1 DEF HalfInverse
        <4> QED
          BY <4>1
      <3>2. CASE Head(op.undo) \notin {"copy_agents", "copy_skills"}
        BY <1>2, <2>1, <3>2 DEF HalfInverse, InstallSteps, world
      <3> QED
        BY <3>1, <3>2
    <2>4. ASSUME NEW f \in Files
          PROVE  files'[f] = files[f] \/ (f \in op.copied /\ files'[f] = None)
      <3>1. ASSUME NEW S \in SUBSET op.copied, files' = Removed(S)
            PROVE  files'[f] = files[f] \/ (f \in op.copied /\ files'[f] = None)
        <4>1. S \in SUBSET Files
          BY <1>1
        <4> QED
          BY <4>1, <3>1, <1>4
      <3> QED
        BY <3>1, <2>3
    <2> QED
      BY <1>6, <2>2, <2>4
  <1> QED
    BY <1>5, <1>6

(* So an install that undoes its steps stays traced.                        *)
LEMMA InstallTracedUndo ==
  ASSUME Bounded, InstallTraced, Undo \/ UndoFails
  PROVE  InstallTraced'
PROOF
  <1> SUFFICES ASSUME FreshInstall'
               PROVE  InstallTraced'
    BY DEF InstallTraced
  <1>1. /\ FreshInstall /\ On("install") /\ op.at = "undo" /\ op'.at = "undo"
        /\ op'.new = op.new /\ op'.module = op.module /\ op'.before = op.before
        /\ op'.copied = op.copied /\ op'.force = op.force
    BY UndoBounded, InstallParts DEF FreshInstall, SameCommand
  <1>2. /\ op.copied \in SUBSET Files /\ op.new.agents \in SUBSET Files
        /\ op.new.skills \in SUBSET Files /\ op.module \in Modules
    BY <1>1, InstallParts
  <1>3. ASSUME NEW step, Owed(step)
        PROVE  Owed(step)' \/ (~ UndoFails /\ step = Head(op.undo))
    <2>1. CASE UndoFails
      BY <1>3, <2>1, UndoBounded
    <2>2. CASE ~ UndoFails
      BY <1>3, <2>2, UndoBounded
    <2> QED
      BY <2>1, <2>2
  <1>4. /\ \A x \in Modules \ {op.module} :
              record[x] = op.before.record[x] /\ stub[x] = op.before.stub[x]
        /\ \A f \in Changed : op.before.files[f] = None
        /\ \A f \in op.copied : op.before.files[f] = None
        /\ record[op.module] # None => Owed("post_install_verify")
        /\ stub[op.module] # None => Owed("register_services")
        /\ Kept("copy_agents", op.new.agents) /\ Kept("copy_skills", op.new.skills)
        /\ \E stray \in SUBSET Files :
              /\ \A f, g \in stray : f = g
              /\ Changed \subseteq stray \cup op.copied
    BY <1>1 DEF InstallTraced
  <1>5. Changed' \subseteq Changed
    BY <1>1, <1>4, InstallUndone DEF Changed
  <1>6. /\ record'[op.module] # None => Owed("post_install_verify")'
        /\ stub'[op.module] # None => Owed("register_services")'
    BY <1>1, <1>3, <1>4, InstallUndone
  <1>7. Kept("copy_agents", op.new.agents)'
    BY <1>1, <1>2, <1>3, <1>4, InstallUndone DEF Kept
  <1>8. Kept("copy_skills", op.new.skills)'
    BY <1>1, <1>2, <1>3, <1>4, InstallUndone DEF Kept
  <1>9. \A x \in Modules \ {op.module} :
           record'[x] = op.before.record[x] /\ stub'[x] = op.before.stub[x]
    BY <1>1, <1>4, InstallUndone
  <1>10. \E stray \in SUBSET Files :
              /\ \A f, g \in stray : f = g
              /\ Changed' \subseteq stray \cup op.copied
    BY <1>4, <1>5
  <1> QED
    BY <1>1, <1>4, <1>5, <1>6, <1>7, <1>8, <1>9, <1>10 DEF InstallTraced

LEMMA InstallTracedStep ==
  ASSUME Bounded, InstallDone, InstallTraced, LifecycleNext
  PROVE  InstallTraced'
PROOF
  <1>1. CASE Begins
    <2>1. /\ Bounded' /\ Now' = Now /\ op'.before = Now
          /\ On("install")' => op'.at = "services" /\ op'.copied = {}
      BY <1>1, BeginsBounded DEF Begins, On
    <2>2. files' = op'.before.files /\ stub' = op'.before.stub /\ record' = op'.before.record
      BY <2>1 DEF Now
    <2> QED
      BY <2>1, <2>2 DEF InstallTraced, Changed, FreshInstall
  <1>2. ASSUME FreshInstall, SameCommand, On("install")'
        PROVE  /\ op'.new = op.new /\ op'.module = op.module /\ op'.before = op.before
               /\ op.module \in Modules /\ op.copied \in SUBSET Files
               /\ ~ op.force /\ op.before.record[op.module] = None
    BY <1>2, InstallParts DEF FreshInstall, SameCommand
  <1>3. ASSUME SameCommand, On("install"), FreshInstall'
        PROVE  FreshInstall
    BY <1>3, InstallParts DEF FreshInstall, SameCommand
  <1>4. CASE InstallMoves
    <2> SUFFICES ASSUME FreshInstall'
                 PROVE  InstallTraced'
      BY DEF InstallTraced
    <2>1. /\ FreshInstall /\ SameCommand /\ On("install")' /\ On("install")
          /\ op'.new = op.new /\ op'.module = op.module /\ op'.before = op.before
          /\ op.module \in Modules /\ op.copied \in SUBSET Files /\ ~ op.force
      BY <1>2, <1>3, <1>4, InstallMovesBounded DEF FreshInstall
    <2>2. op.at \in {"services", "copy"}
      BY <1>4 DEF InstallMoves, RegisterServices, WriteRecord, Copy
    <2>3. /\ \A x \in Modules \ {op.module} :
                record[x] = op.before.record[x] /\ stub[x] = op.before.stub[x]
          /\ \A f \in Changed : op.before.files[f] = None
          /\ \A f \in op.copied : op.before.files[f] = None
          /\ record[op.module] = None /\ Changed \subseteq op.copied
      BY <2>1, <2>2 DEF InstallTraced
    <2>4. CASE RegisterServices
      <3>1. op'.at = "copy" /\ op'.copied = op.copied /\ files' = files /\ record' = record
        BY <2>4, Commands DEF RegisterServices, Bounded, Installing
      <3>2. \A x \in Modules \ {op.module} : stub'[x] = stub[x]
        BY <2>4, <2>1 DEF RegisterServices, Bounded, LifecycleTypeOK
      <3>3. Changed' = Changed
        BY <3>1, <2>1 DEF Changed
      <3> QED
        BY <3>1, <3>2, <3>3, <2>1, <2>3 DEF InstallTraced
    <2>5. CASE WriteRecord
      <3>1. op'.at = "passed" /\ op'.copied = op.copied /\ files' = files /\ stub' = stub
        BY <2>5, Commands DEF WriteRecord, Bounded, Installing
      <3>2. \A x \in Modules \ {op.module} : record'[x] = record[x]
        BY <2>5, <2>1 DEF WriteRecord, Bounded, LifecycleTypeOK
      <3>3. Changed' = Changed
        BY <3>1, <2>1 DEF Changed
      <3> QED
        BY <3>1, <3>2, <3>3, <2>1, <2>3 DEF InstallTraced
    <2>6. ASSUME NEW f \in Files, Copy(f)
          PROVE  InstallTraced'
      <3>1. /\ op'.at = "copy" /\ op'.copied = op.copied \cup {f} /\ f \in Pending /\ MayCopy(f)
            /\ files' = [files EXCEPT ![f] = op.new] /\ stub' = stub /\ record' = record
        BY <2>6, Commands DEF Copy, Bounded, Installing
      <3>2. files[f] = None /\ f \notin op.copied
        BY <3>1, <2>1 DEF MayCopy, Pending
      <3>3. op.before.files[f] = None
        BY <3>2, <2>3 DEF Changed
      <3>4. \A g \in Files : g # f => files'[g] = files[g]
        BY <3>1 DEF Bounded, LifecycleTypeOK
      <3>5. Changed' \subseteq Changed \cup {f}
        BY <3>4, <2>1 DEF Changed
      <3> QED
        BY <3>1, <3>3, <3>5, <2>1, <2>3 DEF InstallTraced
    <2> QED
      BY <1>4, <2>4, <2>5, <2>6 DEF InstallMoves
  <1>5. CASE InstallFails
    <2> SUFFICES ASSUME FreshInstall'
                 PROVE  InstallTraced'
      BY DEF InstallTraced
    <2>1. /\ FreshInstall /\ SameCommand /\ On("install")' /\ On("install")
          /\ op'.new = op.new /\ op'.module = op.module /\ op'.before = op.before
          /\ op.module \in Modules /\ op.copied \in SUBSET Files /\ ~ op.force
          /\ op'.at = "undo" /\ op'.copied = op.copied
      BY <1>2, <1>3, <1>5, InstallFailsBounded DEF FreshInstall
    <2>2. op.at \in {"services", "copy"}
      BY <1>5 DEF InstallFails, RegisterServicesFails, WriteRecordFails, CopyRefused, CopyFails
    <2>3. /\ \A x \in Modules \ {op.module} :
                record[x] = op.before.record[x] /\ stub[x] = op.before.stub[x]
          /\ \A f \in Changed : op.before.files[f] = None
          /\ \A f \in op.copied : op.before.files[f] = None
          /\ record[op.module] = None /\ Changed \subseteq op.copied
      BY <2>1, <2>2 DEF InstallTraced
    <2>4. \A step \in ToUndo' : Owed(step)'
      BY DEF Owed
    <2>5. CASE RegisterServicesFails
      <3>1. /\ ToUndo' = {"register_services"} /\ files' = files /\ record' = record
            /\ op.copied = {} /\ stub' \in {stub, HalfStub}
        BY <1>5, <2>5, <2>1, InstallFailsBounded DEF RegisterServicesFails, InstallDone
      <3>2. \A x \in Modules \ {op.module} : stub'[x] = stub[x]
        BY <3>1, <2>1 DEF HalfStub, Bounded, LifecycleTypeOK
      <3>3. Changed' = Changed
        BY <3>1, <2>1 DEF Changed
      <3>4. Owed("register_services")' /\ Kept("copy_agents", op.new.agents)'
            /\ Kept("copy_skills", op.new.skills)'
        BY <3>1, <2>1, <2>4 DEF Kept
      <3> QED
        BY <3>1, <3>2, <3>3, <3>4, <2>1, <2>3 DEF InstallTraced
    <2>6. CASE WriteRecordFails
      <3>1. /\ ToUndo' = InstallSteps /\ files' = files /\ stub' = stub
            /\ record' \in {record, [record EXCEPT ![op.module] = Installed]}
        BY <1>5, <2>6, InstallFailsBounded DEF WriteRecordFails
      <3>2. \A x \in Modules \ {op.module} : record'[x] = record[x]
        BY <3>1, <2>1 DEF Bounded, LifecycleTypeOK
      <3>3. Changed' = Changed
        BY <3>1, <2>1 DEF Changed
      <3>4. \A step \in InstallSteps : Owed(step)'
        BY <3>1, <2>4
      <3>5. /\ Owed("register_services")' /\ Owed("post_install_verify")'
            /\ Kept("copy_agents", op.new.agents)' /\ Kept("copy_skills", op.new.skills)'
        BY <3>4, <2>1 DEF Kept, InstallSteps
      <3>6. \E stray \in SUBSET Files :
                /\ \A g, h \in stray : g = h
                /\ Changed' \subseteq stray \cup op'.copied
        <4>1. {} \in SUBSET Files /\ \A g, h \in {} : g = h
          OBVIOUS
        <4>2. Changed' \subseteq {} \cup op'.copied
          BY <3>3, <2>1, <2>3
        <4> QED
          BY <4>1, <4>2
      <3> QED
        BY <3>1, <3>2, <3>3, <3>5, <3>6, <2>1, <2>3 DEF InstallTraced
    <2>7. ASSUME NEW f \in Files, CopyRefused(f) \/ CopyFails(f)
          PROVE  InstallTraced'
      <3>1. /\ ToUndo' = UndoneAfter(CopyStep) /\ stub' = stub /\ record' = record
            /\ op.at = "copy" /\ f \in Pending
        BY <1>5, <2>7, InstallFailsBounded DEF CopyRefused, CopyFails, world
      <3>2. \A g \in Files : g # f => files'[g] = files[g]
        BY <2>7 DEF CopyRefused, CopyFails, world, Bounded, LifecycleTypeOK
      <3>3. files' = files \/ files[f] = None
        BY <2>7, <2>1 DEF CopyRefused, CopyFails, MayCopy, world
      <3>4. f \notin op.copied
        BY <3>1 DEF Pending
      <3>5. /\ Changed' \subseteq {f} \cup Changed
            /\ \A g \in Changed' : op.before.files[g] = None
        <4>1. files[f] = None => op.before.files[f] = None
          BY <3>4, <2>3 DEF Changed
        <4>2. Changed' \subseteq {f} \cup Changed
          BY <3>2, <2>1 DEF Changed
        <4>3. files' = files => Changed' = Changed
          BY <2>1 DEF Changed
        <4> QED
          BY <4>1, <4>2, <4>3, <3>3, <2>3
      <3>6. /\ Owed("register_services")' /\ Owed("copy_agents")'
            /\ CopyStep = "copy_skills" => Owed("copy_skills")'
        BY <3>1, <2>4 DEF UndoneAfter, CopyStep
      <3>7. CopyStep # "copy_skills" => op.copied \cap op.new.skills = {}
        BY <2>1, <2>2, <3>1 DEF CopyStep, InstallDone
      <3>8. Kept("copy_agents", op.new.agents)' /\ Kept("copy_skills", op.new.skills)'
        BY <3>6, <3>7, <2>1 DEF Kept
      <3>9. \E stray \in SUBSET Files :
                /\ \A g, h \in stray : g = h
                /\ Changed' \subseteq stray \cup op'.copied
        <4>1. {f} \in SUBSET Files /\ \A g, h \in {f} : g = h
          OBVIOUS
        <4>2. Changed' \subseteq {f} \cup op'.copied
          BY <3>5, <2>1, <2>3
        <4> QED
          BY <4>1, <4>2
      <3> QED
        BY <3>1, <3>5, <3>6, <3>8, <3>9, <2>1, <2>3 DEF InstallTraced
    <2> QED
      BY <1>5, <2>5, <2>6, <2>7 DEF InstallFails
  <1>6. CASE UpgradeMoves \/ UpgradeFails
    BY <1>6, UpgradeMovesBounded, UpgradeFailsBounded DEF On, InstallTraced, FreshInstall
  <1>7. CASE UninstallMoves
    BY <1>7, UninstallMovesBounded DEF On, InstallTraced, FreshInstall
  <1>8. CASE Undo \/ UndoFails
    BY <1>8, InstallTracedUndo
  <1>9. CASE Leaves
    BY <1>9, LeavesBounded DEF On, Idle, InstallTraced, FreshInstall
  <1> QED
    BY <1>1, <1>4, <1>5, <1>6, <1>7, <1>8, <1>9, NextCases

(* Undoing one step of an upgrade writes what it found.                     *)
LEMMA UpgradeTracedUndo ==
  ASSUME Bounded, UpgradeTraced, Undo \/ UndoFails
  PROVE  UpgradeTraced'
PROOF
  <1> SUFFICES ASSUME On("upgrade")'
               PROVE  UpgradeTraced'
    BY DEF UpgradeTraced
  <1>1. /\ On("upgrade") /\ op.at = "undo" /\ op'.at = "undo"
        /\ op'.module = op.module /\ op'.before = op.before /\ op'.new = op.new
        /\ op.module \in Modules
        /\ op.before.record[op.module] \in Record
        /\ Head(op.undo) \in UpgradeSteps
    BY UndoBounded, UpgradeParts DEF SameCommand, Bounded
  <1>2. /\ stub \in [Modules -> {None} \cup SUBSET Services]
        /\ record \in [Modules -> {None} \cup Record]
    BY DEF Bounded, LifecycleTypeOK
  <1>3. ASSUME NEW step, Owed(step)
        PROVE  Owed(step)' \/ (~ UndoFails /\ step = Head(op.undo))
    <2>1. CASE UndoFails
      BY <1>3, <2>1, UndoBounded
    <2>2. CASE ~ UndoFails
      BY <1>3, <2>2, UndoBounded
    <2> QED
      BY <2>1, <2>2
  <1>4. /\ files = op.before.files
        /\ \A x \in Modules \ {op.module} : record[x] = op.before.record[x]
        /\ record[op.module] # op.before.record[op.module] => Owed("update_install_record")
        /\ stub[op.module] # op.before.record[op.module].manifest.services => Owed("swap_services")
    BY <1>1 DEF UpgradeTraced
  <1>5. CASE Undo /\ ~ UndoFails
    <2>1. InverseOf(Head(op.undo))
      BY <1>5 DEF Undo
    <2>2. files' = files
      BY <1>1, <2>1 DEF InverseOf, UpgradeSteps
    <2>3. \/ stub' = stub /\ Head(op.undo) # "swap_services"
          \/ stub' = [stub EXCEPT ![op.module] = RegisteredBefore]
      BY <1>1, <2>1 DEF InverseOf, UpgradeSteps
    <2>4. \/ record' = record /\ Head(op.undo) # "update_install_record"
          \/ record' = [record EXCEPT ![op.module] = op.before.record[op.module]]
      BY <1>1, <2>1 DEF InverseOf, UpgradeSteps
    <2>5. /\ \A x \in Modules \ {op.module} : record'[x] = record[x]
          /\ record'[op.module] # op.before.record[op.module] =>
                record' = record /\ Head(op.undo) # "update_install_record"
          /\ stub'[op.module] # op.before.record[op.module].manifest.services =>
                stub' = stub /\ Head(op.undo) # "swap_services"
      BY <1>1, <1>2, <2>3, <2>4 DEF RegisteredBefore
    <2> QED
      BY <1>1, <1>3, <1>4, <2>2, <2>5 DEF UpgradeTraced
  <1>6. CASE UndoFails
    <2>1. HalfInverse(Head(op.undo))
      BY <1>6 DEF UndoFails
    <2>2. files' = files /\ record' = record
      BY <1>1, <2>1 DEF HalfInverse, UpgradeSteps, world
    <2>3. stub' # stub => Head(op.undo) = "swap_services"
      BY <1>1, <2>1 DEF HalfInverse, UpgradeSteps, world
    <2>4. stub' # stub => Owed("swap_services")
      BY <2>3, UndoBounded DEF Owed
    <2>5. stub' # stub => Owed("swap_services")'
      BY <1>6, <2>4, UndoBounded
    <2> QED
      BY <1>1, <1>3, <1>4, <1>6, <2>2, <2>5 DEF UpgradeTraced
  <1> QED
    BY <1>5, <1>6

LEMMA UpgradeTracedStep ==
  ASSUME Bounded, UpgradeTraced, LifecycleNext
  PROVE  UpgradeTraced'
PROOF
  <1>1. CASE Begins
    <2>1. /\ Now' = Now /\ op'.before = Now
          /\ On("upgrade")' => op'.at = "swap"
      BY <1>1, BeginsBounded DEF Begins, On
    <2>2. files' = op'.before.files /\ stub' = op'.before.stub /\ record' = op'.before.record
      BY <2>1 DEF Now
    <2> QED
      BY <2>1, <2>2 DEF UpgradeTraced
  <1>2. CASE UpgradeMoves \/ UpgradeFails
    <2>1. /\ On("upgrade") /\ On("upgrade")' /\ op'.module = op.module /\ op'.before = op.before
          /\ op'.new = op.new /\ op.module \in Modules
      BY <1>2, UpgradeMovesBounded, UpgradeFailsBounded, UpgradeParts DEF SameCommand
    <2>2. /\ stub \in [Modules -> {None} \cup SUBSET Services]
          /\ record \in [Modules -> {None} \cup Record]
      BY DEF Bounded, LifecycleTypeOK
    <2>3. CASE SwapServices
      <3>1. /\ op.at = "swap" /\ op'.at = "contract" /\ files' = files /\ record' = record
            /\ stub'[op.module] = op.new.services
        BY <2>1, <2>2, <2>3, Commands DEF SwapServices, Bounded, Upgrading
      <3> QED
        BY <3>1, <2>1 DEF UpgradeTraced
    <2>4. CASE ApplyContract
      <3>1. op.at = "contract" /\ op'.at = "update" /\ UNCHANGED <<files, stub, record>>
        BY <2>4, Commands DEF ApplyContract, Bounded, Upgrading, world
      <3> QED
        BY <3>1, <2>1 DEF UpgradeTraced
    <2>5. CASE UpdateRecord
      <3>1. /\ op.at = "update" /\ op'.at = "verify" /\ files' = files /\ stub' = stub
            /\ \A x \in Modules \ {op.module} : record'[x] = record[x]
        BY <2>1, <2>2, <2>5, Commands DEF UpdateRecord, Bounded, Upgrading
      <3> QED
        BY <3>1, <2>1 DEF UpgradeTraced
    <2>6. CASE VerifyUpgrade
      <3>1. op.at = "verify" /\ op'.at = "passed" /\ UNCHANGED <<files, stub, record>>
        BY <2>6, Commands DEF VerifyUpgrade, Bounded, Upgrading, world
      <3> QED
        BY <3>1, <2>1 DEF UpgradeTraced
    <2>7. CASE UpgradeFails
      <3>1. /\ op'.at = "undo" /\ Owed("swap_services")'
            /\ op.at \in {"update", "verify"} => Owed("update_install_record")'
        BY <2>7, UpgradeFailsBounded DEF Owed
      <3>2. /\ files' = files
            /\ \A x \in Modules \ {op.module} : record'[x] = record[x]
            /\ record' = record \/ op.at = "update"
            /\ op.at \in {"swap", "contract", "update", "verify"}
        BY <2>1, <2>2, <2>7
           DEF UpgradeFails, SwapServicesFails, ApplyContractFails, UpdateRecordFails,
               VerifyUpgradeFails, world
      <3> QED
        BY <3>1, <3>2, <2>1 DEF UpgradeTraced
    <2> QED
      BY <1>2, <2>3, <2>4, <2>5, <2>6, <2>7 DEF UpgradeMoves
  <1>3. CASE InstallMoves \/ InstallFails
    BY <1>3, InstallMovesBounded, InstallFailsBounded DEF On, UpgradeTraced
  <1>4. CASE UninstallMoves
    BY <1>4, UninstallMovesBounded DEF On, UpgradeTraced
  <1>5. CASE Undo \/ UndoFails
    BY <1>5, UpgradeTracedUndo
  <1>6. CASE Leaves
    BY <1>6, LeavesBounded DEF On, Idle, UpgradeTraced
  <1> QED
    BY <1>1, <1>2, <1>3, <1>4, <1>5, <1>6, NextCases

(* Only the last step of a command reports success.                         *)
LEMMA PassStep ==
  ASSUME Bounded, InstallDone, UpgradeTraced, PassMeansDone, LifecycleNext
  PROVE  PassMeansDone'
PROOF
  <1>1. CASE Begins
    BY <1>1, BeginsBounded DEF Begins, PassMeansDone
  <1>2. CASE InstallMoves
    <2>1. /\ On("install") /\ op'.what = "install" /\ op'.new = op.new /\ op.module = op.new.module
          /\ op.module \in Modules /\ op.copied \in SUBSET Files
          /\ op.new.agents \in SUBSET Files /\ op.new.skills \in SUBSET Files
      BY <1>2, InstallMovesBounded, InstallParts DEF SameCommand
    <2>2. CASE WriteRecord
      <3>1. /\ op.at = "copy" /\ Pending = {} /\ files' = files /\ stub' = stub
            /\ record'[op.module] = Installed
        BY <2>2, <2>1 DEF WriteRecord, Bounded, LifecycleTypeOK
      <3>2. Installed \in Record /\ Installed.manifest = op.new
        BY <2>1, InstallParts DEF Installed, Record
      <3>3. op.new.agents \cup op.new.skills \subseteq op.copied
        BY <3>1 DEF Pending
      <3>4. /\ \A f \in op.copied : files[f] = op.new
            /\ op.new.services # {} => stub[op.module] = op.new.services
        BY <3>1, <2>1 DEF InstallDone
      <3> QED
        BY <3>1, <3>2, <3>3, <3>4, <2>1, NoRecordAssumption DEF PassMeansDone, Complete
    <2>3. CASE RegisterServices \/ \E f \in Files : Copy(f)
      <3>1. op'.at = "copy"
        BY <2>3, Commands DEF RegisterServices, Copy, Bounded, Installing
      <3> QED
        BY <3>1 DEF PassMeansDone
    <2> QED
      BY <1>2, <2>2, <2>3 DEF InstallMoves
  <1>3. CASE InstallFails \/ UpgradeFails \/ Undo \/ UndoFails
    BY <1>3, InstallFailsBounded, UpgradeFailsBounded, UndoBounded DEF PassMeansDone
  <1>4. CASE UpgradeMoves
    <2>1. /\ On("upgrade") /\ op'.what = "upgrade" /\ op'.new = op.new /\ op'.module = op.module
      BY <1>4, UpgradeMovesBounded, UpgradeParts DEF SameCommand
    <2>2. CASE VerifyUpgrade
      <3>1. /\ op.at = "verify" /\ UNCHANGED <<files, stub, record>>
            /\ record[op.module].manifest = op.new
        BY <2>2 DEF VerifyUpgrade, world
      <3>2. stub[op.module] = op.new.services
        BY <3>1, <2>1 DEF UpgradeTraced
      <3> QED
        BY <3>1, <3>2, <2>1 DEF PassMeansDone
    <2>3. CASE SwapServices \/ ApplyContract \/ UpdateRecord
      <3>1. op'.at \in {"contract", "update", "verify"}
        BY <2>3, Commands DEF SwapServices, ApplyContract, UpdateRecord, Bounded, Upgrading
      <3> QED
        BY <3>1 DEF PassMeansDone
    <2> QED
      BY <1>4, <2>2, <2>3 DEF UpgradeMoves
  <1>5. CASE UninstallMoves
    <2>1. /\ op \in Uninstalling /\ op'.what = "uninstall" /\ op'.module = op.module
          /\ op'.before = op.before
      BY <1>5, UninstallMovesBounded, Commands DEF SameCommand, Bounded, Uninstalling
    <2>2. CASE Confirm
      <3>1. /\ UNCHANGED <<files, stub, record>>
            /\ op'.at = IF Leftovers = {} THEN "passed" ELSE "failed"
        BY <2>1, <2>2 DEF Confirm, world, Uninstalling
      <3>2. Leftovers = {} =>
              /\ record[op.module] = None /\ stub[op.module] = None
              /\ \A f \in op.before.record[op.module].files : files[f] = None
        BY DEF Leftovers
      <3> QED
        BY <3>1, <3>2, <2>1 DEF PassMeansDone
    <2>3. CASE ~ Confirm
      <3>1. op'.at # "passed"
        BY <1>5, <2>1, <2>3
           DEF UninstallMoves, Remove, RemoveTolerated, UnregisterServices, UnregisterTolerated,
               ClearRecord, ClearRecordFails, Uninstalling
      <3> QED
        BY <3>1 DEF PassMeansDone
    <2> QED
      BY <2>2, <2>3
  <1>6. CASE Leaves
    BY <1>6, LeavesBounded DEF Idle, PassMeansDone
  <1> QED
    BY <1>1, <1>2, <1>3, <1>4, <1>5, <1>6, NextCases

-----------------------------------------------------------------------------
(* The theorems.                                                            *)

(* Every step of a command, fault or kill keeps the inductive invariant.   *)
THEOREM LifecycleInvStep == LifecycleInv /\ [LifecycleNext]_lvars => LifecycleInv'
PROOF
  <1>1. CASE LifecycleNext
    BY <1>1, BoundedStep, InstallDoneStep, InstallTracedStep, UpgradeTracedStep, PassStep
       DEF LifecycleInv
  <1>2. CASE UNCHANGED lvars
    <2>1. files' = files /\ stub' = stub /\ record' = record /\ op' = op
      BY <1>2 DEF lvars
    <2>2. ToUndo' = ToUndo
      BY <2>1 DEF ToUndo
    <2>3. Bounded' <=> Bounded
      BY <2>1, <2>2 DEF Bounded, LifecycleTypeOK, On
    <2>4. InstallDone' <=> InstallDone
      BY <2>1 DEF InstallDone, On
    <2>5. Changed' = Changed
      BY <2>1 DEF Changed
    <2>6. InstallTraced' <=> InstallTraced
      BY <2>1, <2>2, <2>5 DEF InstallTraced, FreshInstall, On, Owed, Kept
    <2>7. UpgradeTraced' <=> UpgradeTraced
      BY <2>1, <2>2 DEF UpgradeTraced, On, Owed
    <2>8. PassMeansDone' <=> PassMeansDone
      BY <2>1 DEF PassMeansDone, Complete
    <2> QED
      BY <2>3, <2>4, <2>6, <2>7, <2>8 DEF LifecycleInv
  <1> QED
    BY <1>1, <1>2

(* The inductive invariant holds in every reachable state: what a running  *)
(* command has written is known to the step that would undo it.            *)
THEOREM LifecycleInvariant == LifecycleSpec => []LifecycleInv
PROOF
  <1>1. LifecycleInit => LifecycleInv
    BY DEF LifecycleInit, LifecycleInv, Bounded, LifecycleTypeOK, InstallDone, InstallTraced,
           FreshInstall, UpgradeTraced, PassMeansDone, On, Idle
  <1> QED
    BY <1>1, LifecycleInvStep, PTL DEF LifecycleSpec

(* Files, stubs, records and the running command have their types,         *)
(* whatever failed or was killed; in particular _run_rollback only ever    *)
(* holds steps that have an inverse.                                       *)
THEOREM LifecycleTypes == LifecycleSpec => []LifecycleTypeOK
PROOF
  <1>1. LifecycleInv => LifecycleTypeOK
    BY DEF LifecycleInv, Bounded
  <1> QED
    BY <1>1, LifecycleInvariant, PTL

(* After the last inverse nothing is left to undo.                          *)
LEMMA NothingOwed ==
  ASSUME Bounded, RolledBack
  PROVE  \A step : Owed(step) <=> step \in op.stuck
PROOF
  <1>1. op.undo = <<>>
    BY DEF RolledBack
  <1>2. ToUndo = {}
    BY <1>1 DEF ToUndo
  <1> QED
    BY <1>2 DEF Owed

(* An install of a module that was not installed, without --force, that    *)
(* fails in any step and whose inverses all do their work takes everything *)
(* back but at most the one file whose copy broke off.                     *)
THEOREM UndoneInstallLeavesNothing == LifecycleSpec => []FreshInstallUndone
PROOF
  <1>1. LifecycleInv => FreshInstallUndone
    <2> SUFFICES ASSUME LifecycleInv, RolledBack, op.what = "install", op.stuck = {}, ~ op.force,
                        op.before.record[op.module] = None
                 PROVE  /\ record = op.before.record
                        /\ stub = [op.before.stub EXCEPT ![op.module] = None]
                        /\ Cardinality(Changed) <= 1
                        /\ \A f \in Changed : op.before.files[f] = None
      BY DEF FreshInstallUndone, Changed
    <2>1. /\ op.at = "undo" /\ On("install") /\ FreshInstall /\ Bounded
          /\ \A step : ~ Owed(step)
      BY NothingOwed DEF RolledBack, On, FreshInstall, LifecycleInv
    <2>2. /\ op.module \in Modules /\ op.before \in World
          /\ op.copied \in SUBSET Files /\ op.copied \subseteq op.new.agents \cup op.new.skills
      BY <2>1, InstallParts DEF LifecycleInv, InstallDone
    <2>3. /\ \A x \in Modules \ {op.module} :
                record[x] = op.before.record[x] /\ stub[x] = op.before.stub[x]
          /\ record[op.module] = None /\ stub[op.module] = None
          /\ \A f \in Changed : op.before.files[f] = None
          /\ Kept("copy_agents", op.new.agents) /\ Kept("copy_skills", op.new.skills)
      BY <2>1 DEF LifecycleInv, InstallTraced
    <2>4. PICK stray \in SUBSET Files :
             (\A f, g \in stray : f = g) /\ Changed \subseteq stray \cup op.copied
      BY <2>1 DEF LifecycleInv, InstallTraced
    <2>5. /\ record \in [Modules -> {None} \cup Record]
          /\ stub \in [Modules -> {None} \cup SUBSET Services]
          /\ op.before.record \in [Modules -> {None} \cup Record]
          /\ op.before.stub \in [Modules -> {None} \cup SUBSET Services]
      BY <2>1, <2>2 DEF Bounded, LifecycleTypeOK, World
    <2>6. record = op.before.record
      BY <2>2, <2>3, <2>5
    <2>7. stub = [op.before.stub EXCEPT ![op.module] = None]
      BY <2>2, <2>3, <2>5
    <2>8. Changed \cap op.copied = {}
      BY <2>1, <2>2, <2>3 DEF Kept, Changed
    <2>9. \A f, g \in Changed : f = g
      BY <2>4, <2>8
    <2> QED
      BY <2>3, <2>6, <2>7, <2>9, AtMostOne
  <1> QED
    BY <1>1, LifecycleInvariant, PTL

(* A failed upgrade leaves the old record and the old services registered, *)
(* unless the result reports that one of the two could not be put back.    *)
THEOREM FailedUpgradeIsUndone == LifecycleSpec => []FailedUpgradeRestores
PROOF
  <1>1. LifecycleInv => FailedUpgradeRestores
    <2> SUFFICES ASSUME LifecycleInv, RolledBack, op.what = "upgrade"
                 PROVE  /\ files = op.before.files
                        /\ "update_install_record" \notin op.stuck => record = op.before.record
                        /\ "swap_services" \notin op.stuck =>
                             stub[op.module] = op.before.record[op.module].manifest.services
      BY DEF FailedUpgradeRestores
    <2>1. op.at = "undo" /\ On("upgrade") /\ Bounded /\ \A step : Owed(step) => step \in op.stuck
      BY NothingOwed DEF RolledBack, On, LifecycleInv
    <2>2. /\ record \in [Modules -> {None} \cup Record] /\ op.module \in Modules
          /\ op.before.record \in [Modules -> {None} \cup Record]
      BY <2>1, UpgradeParts DEF Bounded, LifecycleTypeOK, World
    <2>3. /\ files = op.before.files
          /\ \A x \in Modules \ {op.module} : record[x] = op.before.record[x]
          /\ "update_install_record" \notin op.stuck =>
                record[op.module] = op.before.record[op.module]
          /\ "swap_services" \notin op.stuck =>
                stub[op.module] = op.before.record[op.module].manifest.services
      BY <2>1 DEF LifecycleInv, UpgradeTraced
    <2>4. "update_install_record" \notin op.stuck => record = op.before.record
      BY <2>2, <2>3
    <2> QED
      BY <2>3, <2>4
  <1> QED
    BY <1>1, LifecycleInvariant, PTL

(* A command that reports success has done its work, whatever earlier      *)
(* commands left behind.                                                   *)
THEOREM PassedCommandHasDone == LifecycleSpec => []PassMeansDone
PROOF
  <1>1. LifecycleInv => PassMeansDone
    BY DEF LifecycleInv
  <1> QED
    BY <1>1, LifecycleInvariant, PTL

----------------------------------------------------------------------------
(* The resolver.                                                           *)

(* Comparing versions, number by number.                                   *)
LEMMA BeforeExpands ==
  ASSUME NEW u \in Versions, NEW v \in Versions
  PROVE  Before(u, v) <=> \/ u[1] < v[1]
                          \/ u[1] = v[1] /\ u[2] < v[2]
                          \/ u[1] = v[1] /\ u[2] = v[2] /\ u[3] < v[3]
<1>1. /\ (\A j \in 1..(1 - 1) : u[j] = v[j]) <=> TRUE
      /\ (\A j \in 1..(2 - 1) : u[j] = v[j]) <=> u[1] = v[1]
      /\ (\A j \in 1..(3 - 1) : u[j] = v[j]) <=> u[1] = v[1] /\ u[2] = v[2]
  OBVIOUS
<1>2. 1..3 = {1, 2, 3}
  OBVIOUS
<1>3. Before(u, v) <=> \E i \in {1, 2, 3} : u[i] < v[i] /\ \A j \in 1..(i - 1) : u[j] = v[j]
  BY <1>2 DEF Before
<1>. QED BY <1>1, <1>3

LEMMA VersionParts ==
  ASSUME NEW v \in Versions
  PROVE  v[1] \in Nat /\ v[2] \in Nat /\ v[3] \in Nat /\ v = <<v[1], v[2], v[3]>>
BY DEF Versions

LEMMA RangeBounds ==
  ASSUME NEW r \in Ranges
  PROVE  Low(r) \in Versions /\ High(r) \in Versions
<1>1. r.base \in Versions /\ r.op \in {"^", "~", "="}
  BY DEF Ranges
<1>. QED BY <1>1, VersionParts DEF Low, High, Versions

(* The interval of a range holds the versions that the range means.        *)
LEMMA ContainsIsInRange ==
  ASSUME NEW r \in Ranges, NEW v \in Versions, Unparsable \notin Ranges
  PROVE  RangeContains(r, v) <=> InRange(r, v)
<1>. DEFINE b == r.base
<1>1. b \in Versions /\ r.op \in {"^", "~", "="} /\ r # Unparsable
  BY DEF Ranges
<1>2. /\ v[1] \in Nat /\ v[2] \in Nat /\ v[3] \in Nat /\ v = <<v[1], v[2], v[3]>>
      /\ b[1] \in Nat /\ b[2] \in Nat /\ b[3] \in Nat /\ b = <<b[1], b[2], b[3]>>
  BY <1>1, VersionParts
<1>3. Before(v, b) <=> \/ v[1] < b[1]
                       \/ v[1] = b[1] /\ v[2] < b[2]
                       \/ v[1] = b[1] /\ v[2] = b[2] /\ v[3] < b[3]
  BY <1>1, BeforeExpands
<1>4. Before(v, High(r)) <=> \/ v[1] < High(r)[1]
                             \/ v[1] = High(r)[1] /\ v[2] < High(r)[2]
                             \/ v[1] = High(r)[1] /\ v[2] = High(r)[2] /\ v[3] < High(r)[3]
  BY RangeBounds, BeforeExpands
<1>5. CASE r.op = "^" /\ b[1] > 0
  <2>1. High(r) = <<b[1] + 1, 0, 0>>
    BY <1>5 DEF High
  <2>. HIDE DEF b
  <2>2. Before(v, High(r)) <=> v[1] < b[1] + 1
    BY <1>2, <1>4, <2>1
  <2>. QED BY <1>1, <1>2, <1>3, <1>5, <2>2 DEF RangeContains, InRange, Low, b
<1>6. CASE r.op = "~" \/ (r.op = "^" /\ b[1] = 0)
  <2>1. High(r) = <<b[1], b[2] + 1, 0>>
    BY <1>6 DEF High
  <2>. HIDE DEF b
  <2>2. Before(v, High(r)) <=> v[1] < b[1] \/ (v[1] = b[1] /\ v[2] < b[2] + 1)
    BY <1>2, <1>4, <2>1
  <2>. QED BY <1>1, <1>2, <1>3, <1>6, <2>2 DEF RangeContains, InRange, Low, b
<1>7. CASE r.op = "="
  <2>1. High(r) = <<b[1], b[2], b[3] + 1>>
    BY <1>7 DEF High
  <2>. HIDE DEF b
  <2>2. Before(v, High(r)) <=> \/ v[1] < b[1]
                               \/ v[1] = b[1] /\ v[2] < b[2]
                               \/ v[1] = b[1] /\ v[2] = b[2] /\ v[3] < b[3] + 1
    BY <1>2, <1>4, <2>1
  <2>3. v = b <=> v[1] = b[1] /\ v[2] = b[2] /\ v[3] = b[3]
    BY <1>2
  <2>. QED BY <1>1, <1>2, <1>3, <1>7, <2>2, <2>3 DEF RangeContains, InRange, Low, b
<1>8. b[1] > 0 \/ b[1] = 0
  BY <1>2
<1>. QED BY <1>1, <1>5, <1>6, <1>7, <1>8

LEMMA BeforeChains ==
  ASSUME NEW u \in Versions, NEW v \in Versions, NEW w \in Versions,
         ~ Before(v, u), Before(v, w)
  PROVE  Before(u, w)
BY BeforeExpands, VersionParts

(* Two ranges that hold one version are not called a conflict.             *)
LEMMA SharedVersionOverlaps ==
  ASSUME NEW a \in Ranges, NEW b \in Ranges, NEW v \in Versions,
         RangeContains(a, v), RangeContains(b, v)
  PROVE  RangesOverlap(a, b)
BY RangeBounds, BeforeChains DEF RangeContains, RangesOverlap

(* Manifests are a finite sequence; so are their names.                    *)
LEMMA ManifestsShape ==
  ASSUME NEW ms \in Inputs
  PROVE  /\ Len(ms) \in Nat /\ DOMAIN ms = 1..Len(ms)
         /\ \A i \in DOMAIN ms :
               /\ ms[i].name \in Nat /\ ms[i].version \in Versions
               /\ DOMAIN ms[i].requires \subseteq Nat
               /\ \A d \in DOMAIN ms[i].requires : ms[i].requires[d] \in Ranges \cup {Unparsable}
<1>1. ms = [i \in 1..Len(ms) |-> ms[i]] /\ Len(ms) \in Nat
  BY InputsAssumption
<1>2. DOMAIN ms = 1..Len(ms)
  BY <1>1
<1>. QED BY <1>1, <1>2, InputsAssumption

LEMMA NamesFinite ==
  ASSUME NEW ms \in Inputs
  PROVE  Names(ms) \subseteq Nat /\ IsFiniteSet(Names(ms)) /\ Cardinality(Names(ms)) \in Nat
<1>. DEFINE f == [i \in DOMAIN ms |-> ms[i].name]
<1>1. f \in Surjection(DOMAIN ms, Names(ms))
  BY DEF Names, Surjection
<1>2. IsFiniteSet(DOMAIN ms)
  BY ManifestsShape, FS_Interval
<1>3. IsFiniteSet(Names(ms))
  BY <1>1, <1>2, FS_Surjection
<1>. QED BY <1>3, ManifestsShape, FS_CardinalityType DEF Names

(* No name is given twice when there are as many names as manifests.       *)
LEMMA CountMeansDistinct ==
  ASSUME NEW ms \in Inputs
  PROVE  Cardinality(Names(ms)) = Len(ms) <=> ~ Duplicated(ms)
<1>. DEFINE f == [i \in DOMAIN ms |-> ms[i].name]
<1>1. f \in Surjection(DOMAIN ms, Names(ms))
  BY DEF Names, Surjection
<1>2. IsFiniteSet(DOMAIN ms) /\ Cardinality(DOMAIN ms) = Len(ms)
  <2>1. Len(ms) \in Nat /\ DOMAIN ms = 1..Len(ms)
    BY ManifestsShape
  <2>2. Cardinality(1..Len(ms)) = IF 1 > Len(ms) THEN 0 ELSE Len(ms) - 1 + 1
    BY <2>1, FS_Interval
  <2>3. IsFiniteSet(1..Len(ms))
    BY <2>1, FS_Interval
  <2>. QED BY <2>1, <2>2, <2>3
<1>3. Cardinality(Names(ms)) = Len(ms) <=> f \in Injection(DOMAIN ms, Names(ms))
  BY <1>1, <1>2, FS_Surjection
<1>4. f \in Injection(DOMAIN ms, Names(ms)) <=>
        \A i, j \in DOMAIN ms : ms[i].name = ms[j].name => i = j
  BY <1>1 DEF Injection, IsInjective, Surjection
<1>5. (\A i, j \in DOMAIN ms : ms[i].name = ms[j].name => i = j) <=> ~ Duplicated(ms)
  <2>1. DOMAIN ms \subseteq Nat
    BY ManifestsShape
  <2>. QED BY <2>1 DEF Duplicated
<1>. QED BY <1>3, <1>4, <1>5

LEMMA ByNameUnique ==
  ASSUME NEW ms \in Inputs, ~ Duplicated(ms), NEW k \in DOMAIN ms
  PROVE  ByName(ms)[ms[k].name] = ms[k]
<1>1. DOMAIN ms \subseteq Nat
  BY ManifestsShape
<1>2. \A i \in DOMAIN ms : ms[i].name = ms[k].name => i = k
  BY <1>1 DEF Duplicated
<1>3. \E i \in DOMAIN ms :
         ms[i].name = ms[k].name /\ \A j \in DOMAIN ms : ms[j].name = ms[k].name => i <= j
  BY <1>1, <1>2
<1>4. (CHOOSE i \in DOMAIN ms :
         ms[i].name = ms[k].name /\ \A j \in DOMAIN ms : ms[j].name = ms[k].name => i <= j) = k
  BY <1>2, <1>3
<1>5. ms[k].name \in Names(ms)
  BY DEF Names
<1>. QED BY <1>4, <1>5 DEF ByName

(* What the modules at hand must be: each one there that another needs,    *)
(* in a version it accepts.                                                *)
Satisfied(ms) ==
  \A i \in DOMAIN ms : \A dep \in DOMAIN ms[i].requires :
     \E j \in DOMAIN ms : ms[j].name = dep /\ InRange(ms[i].requires[dep], ms[j].version)

(* resolve finds nothing wrong just when that is so.                       *)
LEMMA CleanIsSatisfied ==
  ASSUME NEW ms \in Inputs
  PROVE  Clean(ms) <=> Cardinality(Names(ms)) = Len(ms) /\ Satisfied(ms)
<1>. USE CountMeansDistinct
<1>1. ASSUME Clean(ms) PROVE Satisfied(ms)
  <2>. SUFFICES ASSUME NEW i \in DOMAIN ms, NEW dep \in DOMAIN ms[i].requires
               PROVE  \E j \in DOMAIN ms : ms[j].name = dep /\ InRange(ms[i].requires[dep], ms[j].version)
    BY DEF Satisfied
  <2>1. dep \in Required(ms)
    BY DEF Required
  <2>2. dep \in Names(ms)
    BY <1>1, <2>1 DEF Clean, Absent
  <2>3. PICK j \in DOMAIN ms : ms[j].name = dep
    BY <2>2 DEF Names
  <2>4. ByName(ms)[dep] = ms[j]
    BY <1>1, <2>3, ByNameUnique DEF Clean
  <2>5. /\ ms[i].requires[dep] # Unparsable
        /\ RangeContains(ms[i].requires[dep], ms[j].version)
    BY <1>1, <2>2, <2>4 DEF Clean, Unsatisfied
  <2>6. ms[i].requires[dep] \in Ranges /\ ms[j].version \in Versions
    BY <2>5, ManifestsShape
  <2>. QED BY <2>3, <2>5, <2>6, ContainsIsInRange, InputsAssumption
<1>2. ASSUME ~ Duplicated(ms), Satisfied(ms) PROVE Clean(ms)
  <2>1. ASSUME NEW i \in DOMAIN ms, NEW dep \in DOMAIN ms[i].requires
        PROVE  /\ dep \in Names(ms) /\ ByName(ms)[dep].version \in Versions
               /\ ms[i].requires[dep] \in Ranges /\ ms[i].requires[dep] # Unparsable
               /\ RangeContains(ms[i].requires[dep], ByName(ms)[dep].version)
    <3>1. PICK j \in DOMAIN ms : ms[j].name = dep /\ InRange(ms[i].requires[dep], ms[j].version)
      BY <1>2 DEF Satisfied
    <3>2. ByName(ms)[dep] = ms[j]
      BY <1>2, <3>1, ByNameUnique
    <3>3. ms[i].requires[dep] # Unparsable
      BY <3>1 DEF InRange
    <3>4. ms[i].requires[dep] \in Ranges /\ ms[j].version \in Versions
      BY <3>3, ManifestsShape
    <3>5. dep \in Names(ms)
      BY <3>1 DEF Names
    <3>. QED BY <3>1, <3>2, <3>3, <3>4, <3>5, ContainsIsInRange, InputsAssumption
  <2>2. ~ Disjoint(ms)
    <3>. SUFFICES ASSUME NEW i \in DOMAIN ms, NEW j \in DOMAIN ms,
                        NEW dep \in DOMAIN ms[i].requires \cap DOMAIN ms[j].requires
                 PROVE  /\ Unparsable \notin {ms[i].requires[dep], ms[j].requires[dep]}
                        /\ RangesOverlap(ms[i].requires[dep], ms[j].requires[dep])
      BY DEF Disjoint
    <3>. QED BY <2>1, SharedVersionOverlaps
  <2>3. ~ Unsatisfied(ms)
    BY <2>1 DEF Unsatisfied
  <2>4. Absent(ms) = {}
    BY <2>1 DEF Absent, Required
  <2>. QED BY <1>2, <2>2, <2>3, <2>4 DEF Clean
<1>3. Clean(ms) => ~ Duplicated(ms)
  BY DEF Clean
<1>. QED BY <1>1, <1>2, <1>3

LEMMA InstallableMeans ==
  ASSUME NEW ms \in Inputs
  PROVE  Installable(ms) <=> Clean(ms) /\ ~ HasCycle(Graph(ms))
BY CleanIsSatisfied DEF Installable, Satisfied

LEMMA LeastIn ==
  ASSUME NEW S \in SUBSET Nat, S # {}
  PROVE  Least(S) \in S
<1>1. PICK n \in S : \A o \in S : ~ (<<o, n>> \in OpToRel(<, Nat))
  BY WFMin, NatLessThanWellFounded
<1>2. \A o \in S : n <= o
  <2>. SUFFICES ASSUME NEW o \in S PROVE n <= o
    OBVIOUS
  <2>1. o \in Nat /\ n \in Nat
    OBVIOUS
  <2>2. ~ (o < n)
    BY <1>1, <2>1 DEF OpToRel
  <2>. QED BY <2>1, <2>2
<1>. QED BY <1>2 DEF Least

(* The modules of the call, and the state of the two loops over them.      *)
Nodes == Names(manifests)

ResolverTypeOK ==
  /\ manifests \in Inputs
  /\ phase \in {"cycle", "order", "done"}
  /\ path \in Seq(Nodes) /\ left \in Seq(SUBSET Nodes) /\ Len(left) = Len(path)
  /\ visited \in SUBSET Nodes /\ order \in Seq(Nodes)

(* The modules in progress are distinct and none is done with; each one    *)
(* requires the next; what the search has followed from a module leads to  *)
(* modules done with, or to the next in progress.                          *)
InProgress ==
  /\ \A i, j \in 1..Len(path) : path[i] = path[j] => i = j
  /\ \A i \in 1..Len(path) : path[i] \notin visited
  /\ \A i \in 1..Len(path) : left[i] \subseteq Requires(path[i])
  /\ \A i \in 1..Len(path) : i + 1 \in 1..Len(path) => path[i + 1] \in Requires(path[i])
  /\ \A i \in 1..Len(path) : \A d \in Requires(path[i]) \ left[i] :
        d \in visited \/ (i + 1 \in 1..Len(path) /\ d = path[i + 1])

(* The modules done with require each other only, without a cycle.         *)
DoneWith ==
  /\ \A n \in visited : Requires(n) \subseteq visited
  /\ \A S \in SUBSET visited : S # {} => \E n \in S : Requires(n) \cap S = {}

(* A cycle the search reports is one; when it reports none, every module   *)
(* is done with.                                                           *)
IsCycle(c) ==
  /\ Len(c) \in Nat /\ Len(c) > 1 /\ c[1] = c[Len(c)]
  /\ \A i \in 1..(Len(c) - 1) : c[i] \in Nodes /\ c[i + 1] \in Requires(c[i])

SearchTells ==
  /\ cycle # NoCycle => phase = "done" /\ IsCycle(cycle)
  /\ phase # "cycle" /\ cycle = NoCycle => visited = Nodes

(* The order so far: no module twice, each one after all it requires.      *)
OrderRight ==
  /\ \A i, j \in 1..Len(order) : order[i] = order[j] => i = j
  /\ \A i \in 1..Len(order) : Requires(order[i]) \subseteq {order[j] : j \in 1..(i - 1)}
  /\ phase = "order" => Clean(manifests) /\ cycle = NoCycle
  /\ phase = "done" /\ Clean(manifests) /\ cycle = NoCycle => Range(order) = Nodes

ResolverInv == ResolverTypeOK /\ InProgress /\ DoneWith /\ SearchTells /\ OrderRight

LEMMA GraphShape ==
  ASSUME NEW ms \in Inputs
  PROVE  Graph(ms) \in [Names(ms) -> SUBSET Names(ms)] /\ Names(ms) \in SUBSET Nat
BY NamesFinite DEF Graph

LEMMA RequiresNodes ==
  ASSUME ResolverTypeOK
  PROVE  Nodes \in SUBSET Nat /\ \A n \in Nodes : Requires(n) \in SUBSET Nodes
BY GraphShape DEF ResolverTypeOK, Nodes, Requires

LEMMA ResolverStarts ==
  ASSUME ResolverInit
  PROVE  ResolverInv
<1>1. ResolverTypeOK
  BY DEF ResolverInit, ResolverTypeOK, NoCycle
<1>2. InProgress /\ DoneWith
  BY DEF ResolverInit, InProgress, DoneWith
<1>3. SearchTells
  BY DEF ResolverInit, SearchTells
<1>4. OrderRight
  BY DEF ResolverInit, OrderRight
<1>. QED BY <1>1, <1>2, <1>3, <1>4 DEF ResolverInv

(* What the steps of the search keep by leaving it alone.                  *)
LEMMA SearchKeepsOrder ==
  ASSUME ResolverInv, Searching, phase' \in {"cycle", "done"}, phase' = "done" => cycle' # NoCycle
  PROVE  OrderRight'
<1>1. order' = order /\ manifests' = manifests
  BY DEF Searching
<1>2. NoCycle' = NoCycle
  BY DEF NoCycle
<1>3. phase' # "order" /\ ~ (phase' = "done" /\ cycle' = NoCycle')
  BY <1>2
<1>4. /\ \A i, j \in 1..Len(order) : order[i] = order[j] => i = j
      /\ \A i \in 1..Len(order) : Requires(order[i]) \subseteq {order[j] : j \in 1..(i - 1)}
  BY DEF ResolverInv, OrderRight
<1>. QED BY <1>1, <1>3, <1>4 DEF OrderRight, Requires

LEMMA SearchGoesOn ==
  ASSUME ResolverInv, phase = "cycle", phase' = phase, cycle' = cycle
  PROVE  SearchTells'
<1>1. cycle = NoCycle
  BY DEF ResolverInv, SearchTells
<1>. QED BY <1>1 DEF SearchTells, NoCycle

LEMMA RootKeeps ==
  ASSUME ResolverInv, Root
  PROVE  ResolverInv'
<1>. DEFINE r == Least(Unvisited)
<1>1. r \in Nodes /\ r \notin visited
  BY RequiresNodes, LeastIn DEF ResolverInv, Root, Unvisited, Nodes
<1>2. Requires(r) \in SUBSET Nodes
  BY <1>1, RequiresNodes DEF ResolverInv
<1>3. /\ manifests' = manifests /\ phase = "cycle" /\ phase' = phase /\ path' = <<r>>
      /\ left' = <<Requires(r)>> /\ visited' = visited /\ cycle' = cycle /\ order' = order
  BY DEF Root, Searching
<1>. HIDE DEF r
<1>4. ResolverTypeOK'
  BY <1>1, <1>2, <1>3 DEF ResolverInv, ResolverTypeOK, Nodes
<1>5. InProgress'
  <2>1. Len(path') = 1 /\ path'[1] = r /\ left'[1] = Requires(r)
    BY <1>3
  <2>. QED BY <1>1, <1>3, <2>1 DEF InProgress, Requires
<1>6. DoneWith'
  BY <1>3 DEF ResolverInv, DoneWith, Requires
<1>7. SearchTells'
  BY <1>3, SearchGoesOn
<1>8. OrderRight'
  BY <1>3, SearchKeepsOrder DEF Root
<1>. QED BY <1>4, <1>5, <1>6, <1>7, <1>8 DEF ResolverInv

(* The innermost module, and the one it requires that is followed next.    *)
LEMMA FollowingMeans ==
  ASSUME ResolverInv, Following
  PROVE  /\ Top \in Nat /\ Top > 0 /\ Len(left) = Top
         /\ path[Top] \in Nodes /\ left[Top] \in SUBSET Nodes
         /\ Dependency \in left[Top] /\ Dependency \in Nodes /\ Dependency \in Requires(path[Top])
         /\ Requires(Dependency) \in SUBSET Nodes
         /\ Rest \in Seq(SUBSET Nodes) /\ Len(Rest) = Top /\ Rest[Top] = left[Top] \ {Dependency}
         /\ \A i \in 1..(Top - 1) : Rest[i] = left[i]
         /\ manifests' = manifests /\ phase = "cycle" /\ order' = order
<1>1. /\ path \in Seq(Nodes) /\ left \in Seq(SUBSET Nodes) /\ Len(left) = Top /\ path # << >>
      /\ left[Top] # {}
  BY DEF ResolverInv, ResolverTypeOK, Following, Top
<1>2. Top \in Nat /\ Top > 0 /\ Top \in 1..Len(path) /\ Top \in 1..Len(left)
  BY <1>1 DEF Top
<1>3. path[Top] \in Nodes /\ left[Top] \in SUBSET Nodes
  BY <1>1, <1>2
<1>4. Dependency \in left[Top]
  BY <1>1, <1>3, RequiresNodes, LeastIn DEF Dependency, ResolverInv
<1>5. Dependency \in Requires(path[Top])
  BY <1>2, <1>4 DEF ResolverInv, InProgress
<1>6. Requires(Dependency) \in SUBSET Nodes
  BY <1>3, <1>4, RequiresNodes DEF ResolverInv
<1>7. Rest = [left EXCEPT ![Top] = left[Top] \ {Dependency}]
  BY DEF Rest
<1>8. /\ Rest \in Seq(SUBSET Nodes) /\ Len(Rest) = Top /\ Rest[Top] = left[Top] \ {Dependency}
      /\ \A i \in 1..(Top - 1) : Rest[i] = left[i]
  BY <1>1, <1>2, <1>3, <1>7
<1>. QED BY <1>1, <1>2, <1>3, <1>4, <1>5, <1>6, <1>8 DEF Following, Searching

LEMMA DescendKeeps ==
  ASSUME ResolverInv, Descend
  PROVE  ResolverInv'
<1>. DEFINE d == Dependency  k == Top
<1>1. /\ k \in Nat /\ k > 0 /\ Len(left) = k /\ Len(path) = k
      /\ path[k] \in Nodes /\ left[k] \in SUBSET Nodes
      /\ d \in left[k] /\ d \in Nodes /\ d \in Requires(path[k])
      /\ Requires(d) \in SUBSET Nodes
      /\ Rest \in Seq(SUBSET Nodes) /\ Len(Rest) = k /\ Rest[k] = left[k] \ {d}
      /\ \A i \in 1..(k - 1) : Rest[i] = left[i]
      /\ manifests' = manifests /\ phase = "cycle" /\ order' = order
  BY FollowingMeans DEF Descend, Top
<1>2. /\ path' = Append(path, d) /\ left' = Append(Rest, Requires(d))
      /\ phase' = phase /\ visited' = visited /\ cycle' = cycle
      /\ d \notin Range(path) \cup visited
  BY DEF Descend
<1>3. /\ path \in Seq(Nodes) /\ visited \in SUBSET Nodes /\ order \in Seq(Nodes)
      /\ manifests \in Inputs /\ InProgress
  BY DEF ResolverInv, ResolverTypeOK
<1>. HIDE DEF d, k
<1>4. /\ Len(path') = k + 1 /\ path'[k + 1] = d /\ path' \in Seq(Nodes)
      /\ \A i \in 1..k : path'[i] = path[i]
  BY <1>1, <1>2, <1>3
<1>5. /\ Len(left') = k + 1 /\ left'[k + 1] = Requires(d) /\ left'[k] = left[k] \ {d}
      /\ \A i \in 1..(k - 1) : left'[i] = left[i]
      /\ left' \in Seq(SUBSET Nodes)
  BY <1>1, <1>2
<1>6. \A i \in 1..k : path[i] # d
  BY <1>1, <1>2, <1>3 DEF Range
<1>7. ResolverTypeOK'
  BY <1>1, <1>2, <1>3, <1>4, <1>5 DEF ResolverTypeOK, Nodes
<1>8. InProgress'
  <2>1. \A i \in 1..Len(path') : i \in 1..k \/ i = k + 1
    BY <1>1, <1>4
  <2>2. \A i \in 1..Len(path') : i \in 1..(k - 1) \/ i = k \/ i = k + 1
    BY <1>1, <1>4
  <2>3. \A i, j \in 1..Len(path') : path'[i] = path'[j] => i = j
    BY <1>1, <1>3, <1>4, <1>6, <2>1 DEF InProgress
  <2>4. \A i \in 1..Len(path') : path'[i] \notin visited'
    BY <1>1, <1>2, <1>3, <1>4, <2>1 DEF InProgress
  <2>5. \A i \in 1..Len(path') : left'[i] \subseteq Requires(path'[i])
    <3>. SUFFICES ASSUME NEW i \in 1..Len(path') PROVE left'[i] \subseteq Requires(path'[i])
      OBVIOUS
    <3>1. CASE i \in 1..(k - 1)
      BY <1>1, <1>3, <1>4, <1>5, <3>1 DEF InProgress
    <3>2. CASE i = k
      BY <1>1, <1>3, <1>4, <1>5, <3>2 DEF InProgress
    <3>3. CASE i = k + 1
      BY <1>4, <1>5, <3>3
    <3>. QED BY <2>2, <3>1, <3>2, <3>3
  <2>6. \A i \in 1..Len(path') : i + 1 \in 1..Len(path') => path'[i + 1] \in Requires(path'[i])
    <3>. SUFFICES ASSUME NEW i \in 1..Len(path'), i + 1 \in 1..Len(path')
                 PROVE  path'[i + 1] \in Requires(path'[i])
      OBVIOUS
    <3>1. CASE i \in 1..(k - 1)
      BY <1>1, <1>3, <1>4, <3>1 DEF InProgress
    <3>2. CASE i = k
      BY <1>1, <1>4, <3>2
    <3>. QED BY <1>1, <1>4, <3>1, <3>2
  <2>7. \A i \in 1..Len(path') : \A n \in Requires(path'[i]) \ left'[i] :
          n \in visited' \/ (i + 1 \in 1..Len(path') /\ n = path'[i + 1])
    <3>. SUFFICES ASSUME NEW i \in 1..Len(path'), NEW n \in Requires(path'[i]) \ left'[i]
                 PROVE  n \in visited \/ (i + 1 \in 1..Len(path') /\ n = path'[i + 1])
      BY <1>2
    <3>1. CASE i \in 1..(k - 1)
      <4>1. i \in 1..k /\ i + 1 \in 1..k /\ i + 1 \in 1..Len(path')
        BY <1>1, <1>4, <3>1
      <4>2. path'[i] = path[i] /\ left'[i] = left[i] /\ path'[i + 1] = path[i + 1]
        BY <1>4, <1>5, <3>1, <4>1
      <4>. QED BY <1>1, <1>3, <4>1, <4>2 DEF InProgress
    <3>2. CASE i = k
      <4>1. k \in 1..k /\ ~ (k + 1 \in 1..k) /\ k + 1 \in 1..Len(path')
        BY <1>1, <1>4
      <4>2. path'[k] = path[k]
        BY <1>4, <4>1
      <4>3. n = d \/ n \in Requires(path[k]) \ left[k]
        BY <1>5, <3>2, <4>2
      <4>. QED BY <1>1, <1>3, <1>4, <3>2, <4>1, <4>3 DEF InProgress
    <3>3. CASE i = k + 1
      BY <1>4, <1>5, <3>3
    <3>. QED BY <2>2, <3>1, <3>2, <3>3
  <2>. QED BY <1>1, <2>3, <2>4, <2>5, <2>6, <2>7 DEF InProgress, Requires
<1>9. DoneWith'
  BY <1>1, <1>2 DEF ResolverInv, DoneWith, Requires
<1>10. SearchTells'
  BY <1>1, <1>2, SearchGoesOn
<1>11. OrderRight'
  BY <1>1, <1>2, SearchKeepsOrder DEF Descend, Following
<1>. QED BY <1>7, <1>8, <1>9, <1>10, <1>11 DEF ResolverInv

LEMMA SkipKeeps ==
  ASSUME ResolverInv, Skip
  PROVE  ResolverInv'
<1>. DEFINE d == Dependency  k == Top
<1>1. /\ k \in Nat /\ k > 0 /\ Len(left) = k /\ Len(path) = k
      /\ Rest \in Seq(SUBSET Nodes) /\ Len(Rest) = k /\ Rest[k] = left[k] \ {d}
      /\ \A i \in 1..(k - 1) : Rest[i] = left[i]
      /\ manifests' = manifests /\ phase = "cycle" /\ order' = order
  BY FollowingMeans DEF Skip, Top
<1>2. /\ path' = path /\ left' = Rest /\ phase' = phase /\ visited' = visited /\ cycle' = cycle
      /\ d \in visited
  BY DEF Skip
<1>3. ResolverTypeOK /\ InProgress
  BY DEF ResolverInv
<1>. HIDE DEF d, k
<1>4. ResolverTypeOK'
  BY <1>1, <1>2, <1>3 DEF ResolverTypeOK, Nodes
<1>5. \A i \in 1..k : left'[i] \subseteq left[i] /\ left[i] \ left'[i] \subseteq visited
  <2>1. \A i \in 1..k : i \in 1..(k - 1) \/ i = k
    BY <1>1
  <2>. QED BY <1>1, <1>2, <2>1
<1>6. InProgress'
  <2>1. \A i \in 1..Len(path') : left'[i] \subseteq Requires(path'[i])
    BY <1>1, <1>2, <1>3, <1>5 DEF InProgress
  <2>2. \A i \in 1..Len(path') : \A n \in Requires(path'[i]) \ left'[i] :
          n \in visited' \/ (i + 1 \in 1..Len(path') /\ n = path'[i + 1])
    BY <1>1, <1>2, <1>3, <1>5 DEF InProgress
  <2>. QED BY <1>1, <1>2, <1>3, <2>1, <2>2 DEF InProgress, Requires
<1>7. DoneWith'
  BY <1>1, <1>2 DEF ResolverInv, DoneWith, Requires
<1>8. SearchTells'
  BY <1>1, <1>2, SearchGoesOn
<1>9. OrderRight'
  BY <1>1, <1>2, SearchKeepsOrder DEF Skip, Following
<1>. QED BY <1>4, <1>6, <1>7, <1>8, <1>9 DEF ResolverInv

LEMMA ReturnKeeps ==
  ASSUME ResolverInv, Return
  PROVE  ResolverInv'
<1>. DEFINE k == Top  n == path[Top]
<1>1. /\ path \in Seq(Nodes) /\ left \in Seq(SUBSET Nodes) /\ Len(left) = k /\ Len(path) = k
      /\ path # << >> /\ left[k] = {} /\ visited \in SUBSET Nodes /\ InProgress /\ DoneWith
      /\ manifests \in Inputs /\ order \in Seq(Nodes)
  BY DEF ResolverInv, ResolverTypeOK, Return, Top
<1>2. k \in Nat /\ k > 0 /\ k \in 1..k /\ k - 1 \in Nat
  BY <1>1 DEF Top
<1>3. n \in Nodes
  BY <1>1, <1>2
<1>4. /\ path' = SubSeq(path, 1, k - 1) /\ left' = SubSeq(left, 1, k - 1)
      /\ visited' = visited \cup {n} /\ phase' = phase /\ phase = "cycle" /\ cycle' = cycle
      /\ manifests' = manifests /\ order' = order
  BY DEF Return, Searching
<1>5. n \notin visited /\ Requires(n) \subseteq visited
  <2>1. ~ (k + 1 \in 1..k)
    BY <1>2
  <2>. QED BY <1>1, <1>2, <2>1 DEF InProgress
<1>. HIDE DEF k
<1>6. /\ path' \in Seq(Nodes) /\ left' \in Seq(SUBSET Nodes) /\ Len(path') = k - 1 /\ Len(left') = k - 1
      /\ \A i \in 1..(k - 1) : path'[i] = path[i] /\ left'[i] = left[i]
  BY <1>1, <1>2, <1>4
<1>7. ResolverTypeOK'
  BY <1>1, <1>3, <1>4, <1>6 DEF ResolverTypeOK, Nodes
<1>8. InProgress'
  <2>0. \A i \in 1..(k - 1) : i \in 1..k /\ i # k /\ i + 1 \in 1..k
    BY <1>2
  <2>1. \A i, j \in 1..Len(path') : path'[i] = path'[j] => i = j
    BY <1>1, <1>6, <2>0 DEF InProgress
  <2>2. \A i \in 1..Len(path') : path'[i] \notin visited'
    <3>1. n = path[k]
      BY DEF k
    <3>. QED BY <1>1, <1>2, <1>4, <1>6, <2>0, <3>1 DEF InProgress
  <2>3. \A i \in 1..Len(path') : left'[i] \subseteq Requires(path'[i])
    BY <1>1, <1>6, <2>0 DEF InProgress
  <2>4. \A i \in 1..Len(path') : i + 1 \in 1..Len(path') => path'[i + 1] \in Requires(path'[i])
    BY <1>1, <1>6, <2>0 DEF InProgress
  <2>5. \A i \in 1..Len(path') : \A d \in Requires(path'[i]) \ left'[i] :
          d \in visited' \/ (i + 1 \in 1..Len(path') /\ d = path'[i + 1])
    <3>. SUFFICES ASSUME NEW i \in 1..(k - 1), NEW d \in Requires(path[i]) \ left[i]
                 PROVE  d \in visited' \/ (i + 1 \in 1..(k - 1) /\ d = path'[i + 1])
      BY <1>6
    <3>1. d \in visited \/ d = path[i + 1]
      BY <1>1, <2>0 DEF InProgress
    <3>2. i + 1 = k \/ i + 1 \in 1..(k - 1)
      BY <1>2
    <3>3. n = path[k]
      BY DEF k
    <3>. QED BY <1>4, <1>6, <3>1, <3>2, <3>3
  <2>. QED BY <1>4, <2>1, <2>2, <2>3, <2>4, <2>5 DEF InProgress, Requires
<1>9. DoneWith'
  <2>. HIDE DEF n
  <2>1. \A x \in visited' : Requires(x) \subseteq visited'
    BY <1>1, <1>4, <1>5 DEF DoneWith
  <2>2. ASSUME NEW S \in SUBSET visited', S # {}
        PROVE  \E x \in S : Requires(x) \cap S = {}
    <3>1. CASE S \ {n} = {}
      <4>1. S = {n}
        BY <2>2, <3>1
      <4>. QED BY <1>5, <4>1
    <3>2. CASE S \ {n} # {}
      <4>1. S \ {n} \in SUBSET visited
        BY <1>4
      <4>2. PICK x \in S \ {n} : Requires(x) \cap (S \ {n}) = {}
        BY <1>1, <3>2, <4>1 DEF DoneWith
      <4>3. Requires(x) \subseteq visited
        BY <1>1, <4>1 DEF DoneWith
      <4>. QED BY <1>5, <4>2, <4>3
    <3>. QED BY <3>1, <3>2
  <2>. QED BY <1>4, <2>1, <2>2 DEF DoneWith, Requires
<1>10. SearchTells'
  BY <1>4, SearchGoesOn
<1>11. OrderRight'
  BY <1>4, SearchKeepsOrder DEF Return
<1>. QED BY <1>7, <1>8, <1>9, <1>10, <1>11 DEF ResolverInv

LEMMA CloseCycleKeeps ==
  ASSUME ResolverInv, CloseCycle
  PROVE  ResolverInv'
<1>. DEFINE d == Dependency  k == Top
            s == CHOOSE i \in DOMAIN path : path[i] = d /\ \A j \in DOMAIN path : path[j] = d => i <= j
            t == SubSeq(path, s, k)
<1>1. /\ k \in Nat /\ k > 0 /\ Len(path) = k /\ path[k] \in Nodes /\ d \in Nodes
      /\ d \in Requires(path[k])
      /\ manifests' = manifests /\ phase = "cycle" /\ order' = order
  BY FollowingMeans DEF CloseCycle, Top
<1>2. /\ d \in Range(path) /\ cycle' = Append(t, d) /\ phase' = "done"
      /\ path' = path /\ left' = left /\ visited' = visited
  BY DEF CloseCycle
<1>3. ResolverTypeOK /\ InProgress /\ path \in Seq(Nodes) /\ DOMAIN path = 1..k
  BY DEF ResolverInv, ResolverTypeOK, Top
<1>4. s \in 1..k /\ path[s] = d
  <2>1. PICK i \in 1..k : path[i] = d
    BY <1>2, <1>3 DEF Range
  <2>2. \A j \in DOMAIN path : path[j] = d => j = i
    BY <1>1, <1>3, <2>1 DEF InProgress
  <2>3. path[i] = d /\ \A j \in DOMAIN path : path[j] = d => i <= j
    BY <1>1, <2>1, <2>2
  <2>. QED BY <1>3, <2>1, <2>3
<1>. HIDE DEF d, k, s
<1>5. /\ t \in Seq(Nodes) /\ Len(t) = k - s + 1
      /\ \A i \in 1..(k - s + 1) : t[i] = path[s + i - 1]
  BY <1>1, <1>3, <1>4
<1>. HIDE DEF t
<1>6. /\ Len(cycle') = k - s + 2 /\ cycle'[k - s + 2] = d
      /\ \A i \in 1..(k - s + 1) : cycle'[i] = path[s + i - 1]
  <2>1. k - s + 1 \in Nat /\ (k - s + 1) + 1 = k - s + 2
    BY <1>1, <1>4
  <2>2. /\ Len(Append(t, d)) = Len(t) + 1 /\ Append(t, d)[Len(t) + 1] = d
        /\ \A i \in 1..Len(t) : Append(t, d)[i] = t[i]
    BY <1>1, <1>5
  <2>. QED BY <1>2, <1>5, <2>1, <2>2
<1>7. cycle' # NoCycle
  BY <1>1, <1>4, <1>6 DEF NoCycle
<1>8. IsCycle(cycle')
  <2>1. Len(cycle') \in Nat /\ Len(cycle') > 1
    BY <1>1, <1>4, <1>6
  <2>2. cycle'[1] = cycle'[Len(cycle')]
    BY <1>1, <1>4, <1>6
  <2>3. ASSUME NEW i \in 1..(Len(cycle') - 1)
        PROVE  cycle'[i] \in Nodes /\ cycle'[i + 1] \in Requires(cycle'[i])
    <3>1. /\ i \in 1..(k - s + 1) /\ s + i - 1 \in 1..k /\ cycle'[i] = path[s + i - 1]
      BY <1>1, <1>4, <1>6
    <3>2. cycle'[i] \in Nodes
      BY <1>1, <1>3, <3>1
    <3>3. CASE i = k - s + 1
      <4>1. s + i - 1 = k /\ i + 1 = k - s + 2
        BY <1>1, <1>4, <3>3
      <4>. QED BY <1>1, <1>6, <3>1, <3>2, <4>1
    <3>4. CASE i # k - s + 1
      <4>1. i + 1 \in 1..(k - s + 1) /\ s + (i + 1) - 1 = (s + i - 1) + 1 /\ (s + i - 1) + 1 \in 1..k
        BY <1>1, <1>4, <3>1, <3>4
      <4>2. path[(s + i - 1) + 1] \in Requires(path[s + i - 1])
        BY <1>1, <1>3, <3>1, <4>1 DEF InProgress
      <4>. QED BY <1>6, <3>1, <3>2, <4>1, <4>2
    <3>. QED BY <3>3, <3>4
  <2>. QED BY <2>1, <2>2, <2>3 DEF IsCycle
<1>9. ResolverTypeOK'
  BY <1>1, <1>2, <1>3 DEF ResolverTypeOK, Nodes
<1>10. InProgress' /\ DoneWith'
  BY <1>1, <1>2 DEF ResolverInv, InProgress, DoneWith, Requires
<1>11. SearchTells'
  <2>1. IsCycle(cycle)'
    BY <1>1, <1>8 DEF IsCycle, Nodes, Requires
  <2>. QED BY <1>2, <1>7, <2>1 DEF SearchTells, NoCycle
<1>12. OrderRight'
  BY <1>2, <1>7, SearchKeepsOrder DEF CloseCycle, Following
<1>. QED BY <1>9, <1>10, <1>11, <1>12 DEF ResolverInv

LEMMA ExhaustedKeeps ==
  ASSUME ResolverInv, Exhausted
  PROVE  ResolverInv'
<1>1. /\ manifests' = manifests /\ order' = order /\ path' = path /\ left' = left
      /\ visited' = visited /\ cycle' = cycle /\ phase = "cycle"
      /\ phase' = IF Clean(manifests) THEN "order" ELSE "done"
  BY DEF Exhausted, Searching
<1>2. visited = Nodes
  BY DEF ResolverInv, ResolverTypeOK, Exhausted, Unvisited, Nodes
<1>3. cycle = NoCycle
  BY <1>1 DEF ResolverInv, SearchTells
<1>4. ResolverTypeOK'
  BY <1>1 DEF ResolverInv, ResolverTypeOK, Nodes
<1>5. InProgress' /\ DoneWith'
  BY <1>1 DEF ResolverInv, InProgress, DoneWith, Requires
<1>6. SearchTells'
  BY <1>1, <1>2, <1>3 DEF SearchTells, NoCycle, Nodes
<1>7. OrderRight'
  <2>1. /\ \A i, j \in 1..Len(order) : order[i] = order[j] => i = j
        /\ \A i \in 1..Len(order) : Requires(order[i]) \subseteq {order[j] : j \in 1..(i - 1)}
    BY DEF ResolverInv, OrderRight
  <2>2. (phase' = "order" => Clean(manifests')) /\ ~ (phase' = "done" /\ Clean(manifests'))
    BY <1>1
  <2>3. cycle' = NoCycle /\ NoCycle' = NoCycle
    BY <1>1, <1>3 DEF NoCycle
  <2>. QED BY <1>1, <2>1, <2>2, <2>3 DEF OrderRight, Requires
<1>. QED BY <1>4, <1>5, <1>6, <1>7 DEF ResolverInv

LEMMA PickKeeps ==
  ASSUME ResolverInv, Pick
  PROVE  ResolverInv'
<1>. DEFINE n == Least(Ready)  k == Len(order)
<1>1. /\ manifests' = manifests /\ order' = Append(order, n) /\ path' = path /\ left' = left
      /\ visited' = visited /\ cycle' = cycle /\ phase = "order" /\ phase' = phase
  BY DEF Pick
<1>2. order \in Seq(Nodes) /\ k \in Nat /\ ResolverTypeOK /\ OrderRight
  BY DEF ResolverInv, ResolverTypeOK
<1>3. n \in Nodes /\ n \notin Range(order) /\ Requires(n) \subseteq Range(order)
  <2>1. Ready \in SUBSET Nat
    BY <1>2, RequiresNodes DEF Ready, Nodes
  <2>2. n \in Ready
    BY <2>1, LeastIn DEF Pick
  <2>. QED BY <2>2 DEF Ready, Nodes
<1>. HIDE DEF n, k
<1>4. /\ order' \in Seq(Nodes) /\ Len(order') = k + 1 /\ order'[k + 1] = n
      /\ \A i \in 1..k : order'[i] = order[i]
  BY <1>1, <1>2, <1>3 DEF k
<1>5. Range(order) = {order[j] : j \in 1..k}
  BY <1>2 DEF Range, k
<1>6. ResolverTypeOK'
  BY <1>1, <1>2, <1>4 DEF ResolverTypeOK, Nodes
<1>7. InProgress' /\ DoneWith' /\ SearchTells'
  <2>1. InProgress /\ DoneWith /\ SearchTells
    BY DEF ResolverInv
  <2>2. IsCycle(cycle)' <=> IsCycle(cycle)
    BY <1>1 DEF IsCycle, Nodes, Requires
  <2>. QED BY <1>1, <2>1, <2>2 DEF InProgress, DoneWith, SearchTells, Requires, Nodes, NoCycle
<1>8. OrderRight'
  <2>1. \A i \in 1..(k + 1) : i \in 1..k \/ i = k + 1
    BY <1>2
  <2>2. \A i, j \in 1..Len(order') : order'[i] = order'[j] => i = j
    BY <1>2, <1>3, <1>4, <1>5, <2>1 DEF OrderRight, k
  <2>3. ASSUME NEW i \in 1..Len(order')
        PROVE  Requires(order'[i]) \subseteq {order'[j] : j \in 1..(i - 1)}
    <3>1. CASE i \in 1..k
      <4>1. Requires(order[i]) \subseteq {order[j] : j \in 1..(i - 1)}
        BY <1>2, <3>1 DEF OrderRight, k
      <4>2. \A j \in 1..(i - 1) : order'[j] = order[j]
        BY <1>2, <1>4, <3>1
      <4>. QED BY <1>4, <3>1, <4>1, <4>2
    <3>2. CASE i = k + 1
      <4>1. i - 1 = k
        BY <1>2, <3>2
      <4>. QED BY <1>3, <1>4, <1>5, <3>2, <4>1
    <3>. QED BY <1>4, <2>1, <3>1, <3>2
  <2>4. Clean(manifests) /\ cycle = NoCycle
    BY <1>1, <1>2 DEF OrderRight
  <2>. QED BY <1>1, <2>2, <2>3, <2>4 DEF OrderRight, Requires, NoCycle
<1>. QED BY <1>6, <1>7, <1>8 DEF ResolverInv

(* An order without repetitions counts its modules.                        *)
LEMMA OrderCounts ==
  ASSUME NEW S, NEW list \in Seq(S), Range(list) = S,
         \A i, j \in 1..Len(list) : list[i] = list[j] => i = j
  PROVE  Cardinality(S) = Len(list)
<1>1. list \in [1..Len(list) -> S] /\ Len(list) \in Nat
  OBVIOUS
<1>2. list \in Bijection(1..Len(list), S)
  BY <1>1 DEF Bijection, Injection, Surjection, IsInjective, Range
<1>. QED BY <1>1, <1>2, FS_CountingElements DEF ExistsBijection

(* No cycle is found: there is none.                                       *)
LEMMA NoneFoundNoneThere ==
  ASSUME ResolverInv, phase # "cycle", cycle = NoCycle
  PROVE  ~ HasCycle(Graph(manifests))
<1>1. visited = Nodes /\ DoneWith /\ manifests \in Inputs
  BY DEF ResolverInv, SearchTells, ResolverTypeOK
<1>2. DOMAIN Graph(manifests) = Nodes
  BY DEF Graph, Nodes
<1>. QED BY <1>1, <1>2 DEF HasCycle, DoneWith, Requires

LEMMA SortedKeeps ==
  ASSUME ResolverInv, Sorted
  PROVE  ResolverInv'
<1>1. /\ manifests' = manifests /\ order' = order /\ path' = path /\ left' = left
      /\ visited' = visited /\ phase = "order" /\ phase' = "done" /\ Ready = {}
      /\ cycle' = IF Len(order) = Cardinality(Names(manifests)) THEN cycle
                  ELSE <<"cycle-detected-by-topo">>
  BY DEF Sorted
<1>2. order \in Seq(Nodes) /\ ResolverTypeOK /\ OrderRight /\ cycle = NoCycle
  BY <1>1 DEF ResolverInv, ResolverTypeOK, OrderRight
<1>3. Range(order) = Nodes
  <2>. DEFINE S == Nodes \ Range(order)
  <2>1. ASSUME NEW n \in S PROVE Requires(n) \cap S # {}
    <3>1. ~ (Requires(n) \subseteq Range(order))
      BY <1>1 DEF Ready, Nodes
    <3>. QED BY <1>2, <3>1, RequiresNodes
  <2>2. DOMAIN Graph(manifests) = Nodes
    BY DEF Graph, Nodes
  <2>3. S = {}
    BY <1>1, <1>2, <2>1, <2>2, NoneFoundNoneThere DEF HasCycle, Requires
  <2>4. Range(order) \subseteq Nodes
    BY <1>2 DEF Range
  <2>. QED BY <2>3, <2>4
<1>4. Cardinality(Nodes) = Len(order)
  BY <1>2, <1>3, OrderCounts DEF OrderRight
<1>5. cycle' = NoCycle
  BY <1>1, <1>2, <1>4 DEF Nodes
<1>6. ResolverTypeOK'
  BY <1>1, <1>2 DEF ResolverTypeOK, Nodes
<1>7. InProgress' /\ DoneWith'
  BY <1>1 DEF ResolverInv, InProgress, DoneWith, Requires
<1>8. SearchTells'
  <2>1. visited = Nodes
    BY <1>1, <1>2 DEF ResolverInv, SearchTells
  <2>. QED BY <1>1, <1>5, <2>1 DEF SearchTells, NoCycle, Nodes
<1>9. OrderRight'
  <2>1. /\ \A i, j \in 1..Len(order) : order[i] = order[j] => i = j
        /\ \A i \in 1..Len(order) : Requires(order[i]) \subseteq {order[j] : j \in 1..(i - 1)}
    BY <1>2 DEF OrderRight
  <2>. QED BY <1>1, <1>3, <2>1 DEF OrderRight, Requires, Nodes
<1>. QED BY <1>6, <1>7, <1>8, <1>9 DEF ResolverInv

(* A cycle that is found is one of the graph.                              *)
LEMMA FoundIsThere ==
  ASSUME manifests \in Inputs, NEW c, IsCycle(c)
  PROVE  HasCycle(Graph(manifests))
<1>. DEFINE S == {c[i] : i \in 1..(Len(c) - 1)}
<1>1. Len(c) \in Nat /\ Len(c) > 1 /\ 1 \in 1..(Len(c) - 1)
  BY DEF IsCycle
<1>2. S # {} /\ S \subseteq Nodes
  BY <1>1 DEF IsCycle
<1>3. ASSUME NEW n \in S PROVE Requires(n) \cap S # {}
  <2>1. PICK i \in 1..(Len(c) - 1) : n = c[i]
    OBVIOUS
  <2>2. c[i + 1] \in Requires(n)
    BY <2>1 DEF IsCycle
  <2>3. c[i + 1] \in S
    <3>1. CASE i + 1 \in 1..(Len(c) - 1)
      BY <3>1
    <3>2. CASE i + 1 = Len(c)
      BY <1>1, <3>2 DEF IsCycle
    <3>. QED BY <1>1, <3>1, <3>2
  <2>. QED BY <2>2, <2>3
<1>4. DOMAIN Graph(manifests) = Nodes
  BY DEF Graph, Nodes
<1>. HIDE DEF S
<1>. QED BY <1>2, <1>3, <1>4 DEF HasCycle, Requires

LEMMA InvIsExact ==
  ASSUME ResolverInv
  PROVE  ResolverExact
<1>. SUFFICES ASSUME phase = "done"
             PROVE  /\ Accepted <=> Installable(manifests)
                    /\ Accepted => /\ Len(order) = Len(manifests) /\ Range(order) = Names(manifests)
                                   /\ \A i \in DOMAIN order :
                                         Requires(order[i]) \subseteq {order[j] : j \in 1..(i - 1)}
                    /\ cycle # NoCycle <=> HasCycle(Graph(manifests))
                    /\ cycle # NoCycle => IsCycle(cycle)
  BY DEF ResolverExact, IsCycle
<1>1. manifests \in Inputs /\ order \in Seq(Nodes) /\ SearchTells /\ OrderRight
  BY DEF ResolverInv, ResolverTypeOK
<1>2. cycle # NoCycle => IsCycle(cycle)
  BY <1>1 DEF SearchTells
<1>3. cycle # NoCycle <=> HasCycle(Graph(manifests))
  BY <1>1, <1>2, FoundIsThere, NoneFoundNoneThere
<1>4. Accepted <=> Installable(manifests)
  BY <1>1, <1>3, InstallableMeans DEF Accepted
<1>5. ASSUME Accepted PROVE Len(order) = Len(manifests) /\ Range(order) = Names(manifests)
  <2>1. Range(order) = Nodes
    BY <1>1, <1>5 DEF Accepted, OrderRight
  <2>2. Cardinality(Nodes) = Len(order)
    BY <1>1, <2>1, OrderCounts DEF OrderRight
  <2>3. Cardinality(Names(manifests)) = Len(manifests)
    BY <1>1, <1>5, CleanIsSatisfied DEF Accepted
  <2>. QED BY <2>1, <2>2, <2>3 DEF Nodes
<1>6. \A i \in DOMAIN order : Requires(order[i]) \subseteq {order[j] : j \in 1..(i - 1)}
  <2>1. DOMAIN order = 1..Len(order)
    BY <1>1
  <2>. QED BY <1>1, <2>1 DEF OrderRight
<1>. QED BY <1>2, <1>3, <1>4, <1>5, <1>6

(* Whatever the manifests, however many and however they require each      *)
(* other, resolve accepts exactly what can be installed, with an order     *)
(* that works, and reports a cycle just when there is one.                 *)
THEOREM ResolverIsExact == ResolverSpec => [](ResolverInv /\ ResolverExact)
<1>1. ResolverInit => ResolverInv
  BY ResolverStarts
<1>2. ResolverInv /\ [ResolverNext]_rsvars => ResolverInv'
  <2>. SUFFICES ASSUME ResolverInv, [ResolverNext]_rsvars PROVE ResolverInv'
    OBVIOUS
  <2>1. CASE UNCHANGED rsvars
    <3>1. /\ manifests' = manifests /\ order' = order /\ path' = path /\ left' = left
          /\ visited' = visited /\ phase' = phase /\ cycle' = cycle
      BY <2>1 DEF rsvars
    <3>2. IsCycle(cycle)' <=> IsCycle(cycle)
      BY <3>1 DEF IsCycle, Nodes, Requires
    <3>3. NoCycle' = NoCycle
      BY DEF NoCycle
    <3>4. ResolverTypeOK'
      BY <3>1 DEF ResolverInv, ResolverTypeOK, Nodes
    <3>5. InProgress' /\ DoneWith'
      BY <3>1 DEF ResolverInv, InProgress, DoneWith, Requires
    <3>6. SearchTells'
      BY <3>1, <3>2, <3>3 DEF ResolverInv, SearchTells, Nodes
    <3>7. OrderRight'
      <4>1. OrderRight
        BY DEF ResolverInv
      <4>2. /\ \A i, j \in 1..Len(order) : order[i] = order[j] => i = j
            /\ \A i \in 1..Len(order) : Requires(order[i]) \subseteq {order[j] : j \in 1..(i - 1)}
        BY <4>1 DEF OrderRight
      <4>3. Clean(manifests') = Clean(manifests) /\ Range(order') = Range(order) /\ Nodes' = Nodes
        BY <3>1 DEF Nodes
      <4>4. /\ phase' = "order" => Clean(manifests') /\ cycle' = NoCycle
            /\ phase' = "done" /\ Clean(manifests') /\ cycle' = NoCycle => Range(order') = Nodes'
        BY <3>1, <4>1, <4>3 DEF OrderRight
      <4>. QED BY <3>1, <3>3, <4>2, <4>4 DEF OrderRight, Requires
    <3>. QED BY <3>4, <3>5, <3>6, <3>7 DEF ResolverInv
  <2>. QED BY <2>1, RootKeeps, DescendKeeps, SkipKeeps, CloseCycleKeeps, ReturnKeeps, ExhaustedKeeps,
               PickKeeps, SortedKeeps DEF ResolverNext
<1>3. ResolverInv => ResolverExact
  BY InvIsExact
<1>. QED BY <1>1, <1>2, <1>3, PTL DEF ResolverSpec

(* What the two loops have still to do: modules to enter, requirements to  *)
(* follow, modules to leave, modules to place, phases to end.              *)
ToEnter == Nodes \ (visited \cup Range(path))
ToFollow ==
  {e \in Nodes \X Nodes :
     /\ e[1] \notin visited /\ e[2] \in Requires(e[1])
     /\ \A i \in 1..Len(path) : path[i] = e[1] => e[2] \in left[i]}
ToLeave == Nodes \ visited
ToPlace == Nodes \ Range(order)
ToEnd == {p \in {"cycle", "order"} : phase = "cycle" \/ phase = p}

Advances ==
  /\ ToEnter' \subseteq ToEnter /\ ToFollow' \subseteq ToFollow /\ ToLeave' \subseteq ToLeave
  /\ ToPlace' \subseteq ToPlace /\ ToEnd' \subseteq ToEnd
  /\ \/ ToEnter' # ToEnter \/ ToFollow' # ToFollow \/ ToLeave' # ToLeave
     \/ ToPlace' # ToPlace \/ ToEnd' # ToEnd

FinitelyMuch ==
  /\ IsFiniteSet(ToEnter) /\ IsFiniteSet(ToFollow) /\ IsFiniteSet(ToLeave)
  /\ IsFiniteSet(ToPlace) /\ IsFiniteSet(ToEnd)

LEMMA FiniteWork ==
  ASSUME ResolverInv
  PROVE  FinitelyMuch
<1>1. IsFiniteSet(Nodes)
  BY NamesFinite DEF ResolverInv, ResolverTypeOK, Nodes
<1>2. IsFiniteSet(Nodes \X Nodes)
  BY <1>1, FS_Product
<1>3. IsFiniteSet(ToFollow)
  BY <1>2, FS_Subset DEF ToFollow
<1>4. IsFiniteSet(ToEnter) /\ IsFiniteSet(ToLeave) /\ IsFiniteSet(ToPlace)
  BY <1>1, FS_Subset DEF ToEnter, ToLeave, ToPlace
<1>5. IsFiniteSet(ToEnd)
  <2>1. IsFiniteSet({"cycle"} \cup {"order"})
    BY FS_Singleton, FS_Union
  <2>2. ToEnd \in SUBSET ({"cycle"} \cup {"order"})
    BY DEF ToEnd
  <2>. QED BY <2>1, <2>2, FS_Subset
<1>. QED BY <1>3, <1>4, <1>5 DEF FinitelyMuch

LEMMA StepsAdvance ==
  ASSUME ResolverInv, ResolverNext
  PROVE  Advances
<1>. DEFINE d == Dependency  k == Top
<1>1. ResolverTypeOK /\ InProgress /\ path \in Seq(Nodes) /\ k \in Nat /\ Len(path) = k
  BY DEF ResolverInv, ResolverTypeOK, Top
<1>2. Range(path) = {path[i] : i \in 1..k} /\ Range(order) = {order[i] : i \in 1..Len(order)}
  BY <1>1 DEF Range, ResolverTypeOK
<1>3. CASE Root
  <2>. DEFINE r == Least(Unvisited)
  <2>1. r \in Nodes /\ r \notin visited
    BY <1>3, RequiresNodes, LeastIn DEF ResolverInv, Root, Unvisited, Nodes
  <2>2. /\ manifests' = manifests /\ phase' = phase /\ path = << >> /\ path' = <<r>>
        /\ left' = <<Requires(r)>> /\ visited' = visited /\ order' = order
    BY <1>3 DEF Root, Searching
  <2>. HIDE DEF r
  <2>3. Range(path) = {} /\ Range(path') = {r}
    BY <2>2 DEF Range
  <2>4. Len(path') = 1 /\ path'[1] = r /\ left'[1] = Requires(r) /\ Len(path) = 0
    BY <2>2
  <2>5. ToEnter' \subseteq ToEnter /\ ToEnter' # ToEnter
    BY <2>1, <2>2, <2>3 DEF ToEnter, Nodes
  <2>6. ToFollow' \subseteq ToFollow
    BY <2>2, <2>4 DEF ToFollow, Nodes, Requires
  <2>7. ToLeave' = ToLeave /\ ToPlace' = ToPlace /\ ToEnd' = ToEnd
    BY <2>2 DEF ToLeave, ToPlace, ToEnd, Nodes
  <2>. QED BY <2>5, <2>6, <2>7 DEF Advances
<1>4. ASSUME Descend \/ Skip PROVE Advances
  <2>1. /\ k \in Nat /\ k > 0 /\ k \in 1..k /\ path[k] \in Nodes /\ path[k] \notin visited
        /\ d \in left[k] /\ d \in Nodes /\ d \in Requires(path[k])
        /\ Rest \in Seq(SUBSET Nodes) /\ Len(Rest) = k /\ Rest[k] = left[k] \ {d}
        /\ \A i \in 1..(k - 1) : Rest[i] = left[i]
        /\ manifests' = manifests /\ order' = order
    BY <1>1, <1>4, FollowingMeans DEF Descend, Skip, Top, InProgress
  <2>2. phase' = phase /\ visited' = visited
    BY <1>4 DEF Descend, Skip
  <2>3. \/ d \in Nodes \ (visited \cup Range(path)) /\ path' = Append(path, d)
           /\ left' = Append(Rest, Requires(d))
        \/ path' = path /\ left' = Rest
    BY <1>4, <2>1 DEF Descend, Skip
  <2>. HIDE DEF d, k
  <2>4. /\ Len(path') \in Nat /\ Len(path') >= k
        /\ \A i \in 1..k : path'[i] = path[i] /\ left'[i] \subseteq left[i]
        /\ d \notin left'[k]
    <3>1. \A i \in 1..k : i \in 1..(k - 1) \/ i = k
      BY <2>1
    <3>2. \A i \in 1..k : Rest[i] \subseteq left[i]
      BY <2>1, <3>1
    <3>. QED BY <1>1, <2>1, <2>3, <3>2
  <2>5. Range(path) \subseteq Range(path')
    <3>1. path' \in Seq(Nodes)
      BY <1>1, <2>3
    <3>2. Range(path') = {path'[i] : i \in 1..Len(path')}
      BY <3>1 DEF Range
    <3>. QED BY <1>2, <2>1, <2>4, <3>2
  <2>6. ToEnter' \subseteq ToEnter
    BY <2>1, <2>2, <2>5 DEF ToEnter, Nodes
  <2>7. ToFollow' \subseteq ToFollow
    <3>. SUFFICES ASSUME NEW e \in ToFollow' PROVE e \in ToFollow
      OBVIOUS
    <3>1. /\ e \in Nodes \X Nodes /\ e[1] \notin visited /\ e[2] \in Requires(e[1])
          /\ \A i \in 1..Len(path') : path'[i] = e[1] => e[2] \in left'[i]
      BY <2>1, <2>2 DEF ToFollow, Nodes, Requires
    <3>2. \A i \in 1..k : i \in 1..Len(path')
      BY <2>1, <2>4
    <3>. QED BY <1>1, <2>4, <3>1, <3>2 DEF ToFollow
  <2>8. ToFollow' # ToFollow
    <3>1. <<path[k], d>> \notin ToFollow'
      <4>1. k \in 1..Len(path') /\ path'[k] = path[k]
        BY <2>1, <2>4
      <4>. QED BY <2>4, <4>1 DEF ToFollow
    <3>2. \A i \in 1..Len(path) : path[i] = path[k] => d \in left[i]
      BY <1>1, <2>1 DEF InProgress
    <3>3. <<path[k], d>> \in ToFollow
      BY <2>1, <3>2 DEF ToFollow
    <3>. QED BY <3>1, <3>3
  <2>9. ToLeave' = ToLeave /\ ToPlace' = ToPlace /\ ToEnd' = ToEnd
    BY <2>1, <2>2 DEF ToLeave, ToPlace, ToEnd, Nodes
  <2>. QED BY <2>6, <2>7, <2>8, <2>9 DEF Advances
<1>5. CASE Return
  <2>. DEFINE n == path[Top]
  <2>1. /\ path # << >> /\ left[Top] = {} /\ visited' = visited \cup {n} /\ phase' = phase
        /\ path' = SubSeq(path, 1, k - 1) /\ left' = SubSeq(left, 1, k - 1)
        /\ manifests' = manifests /\ order' = order
    BY <1>5 DEF Return, Searching
  <2>2. k > 0 /\ k \in 1..k /\ k - 1 \in Nat /\ left \in Seq(SUBSET Nodes) /\ Len(left) = k
    BY <1>1, <2>1 DEF ResolverTypeOK, Top
  <2>3. n = path[k] /\ n \in Nodes /\ n \notin visited
    BY <1>1, <2>2 DEF InProgress
  <2>. HIDE DEF k, n
  <2>4. /\ Len(path') = k - 1 /\ path' \in Seq(Nodes)
        /\ \A i \in 1..(k - 1) : path'[i] = path[i] /\ left'[i] = left[i]
    BY <1>1, <2>1, <2>2
  <2>5. \A i \in 1..k : i \in 1..(k - 1) \/ i = k
    BY <1>1
  <2>6. Range(path') = {path'[i] : i \in 1..(k - 1)}
    BY <2>4 DEF Range
  <2>7. Range(path) \subseteq Range(path') \cup {n}
    BY <1>2, <2>3, <2>4, <2>5, <2>6
  <2>8. ToEnter' \subseteq ToEnter
    BY <2>1, <2>7 DEF ToEnter, Nodes
  <2>9. ToFollow' \subseteq ToFollow
    <3>. SUFFICES ASSUME NEW e \in ToFollow' PROVE e \in ToFollow
      OBVIOUS
    <3>1. /\ e \in Nodes \X Nodes /\ e[1] \notin visited' /\ e[2] \in Requires(e[1])
          /\ \A i \in 1..(k - 1) : path'[i] = e[1] => e[2] \in left'[i]
      BY <2>1, <2>4 DEF ToFollow, Nodes, Requires
    <3>2. e[1] \notin visited /\ e[1] # n
      BY <2>1, <3>1
    <3>3. \A i \in 1..k : path[i] = e[1] => e[2] \in left[i]
      BY <2>3, <2>4, <2>5, <3>1, <3>2
    <3>. QED BY <1>1, <3>1, <3>2, <3>3 DEF ToFollow
  <2>10. ToLeave' \subseteq ToLeave /\ ToLeave' # ToLeave
    BY <2>1, <2>3 DEF ToLeave, Nodes
  <2>11. ToPlace' = ToPlace /\ ToEnd' = ToEnd
    BY <2>1 DEF ToPlace, ToEnd, Nodes
  <2>. QED BY <2>8, <2>9, <2>10, <2>11 DEF Advances
<1>6. CASE CloseCycle \/ Exhausted
  <2>1. /\ manifests' = manifests /\ order' = order /\ path' = path /\ left' = left
        /\ visited' = visited /\ phase = "cycle" /\ phase' \in {"order", "done"}
    BY <1>6 DEF CloseCycle, Exhausted, Following, Searching
  <2>2. ToEnter' = ToEnter /\ ToFollow' = ToFollow /\ ToLeave' = ToLeave /\ ToPlace' = ToPlace
    BY <2>1 DEF ToEnter, ToFollow, ToLeave, ToPlace, Nodes, Requires
  <2>3. ToEnd' \subseteq ToEnd /\ "cycle" \in ToEnd /\ "cycle" \notin ToEnd'
    BY <2>1 DEF ToEnd
  <2>. QED BY <2>2, <2>3 DEF Advances
<1>7. CASE Sorted
  <2>1. /\ manifests' = manifests /\ order' = order /\ path' = path /\ left' = left
        /\ visited' = visited /\ phase = "order" /\ phase' = "done"
    BY <1>7 DEF Sorted
  <2>2. ToEnter' = ToEnter /\ ToFollow' = ToFollow /\ ToLeave' = ToLeave /\ ToPlace' = ToPlace
    BY <2>1 DEF ToEnter, ToFollow, ToLeave, ToPlace, Nodes, Requires
  <2>3. ToEnd' \subseteq ToEnd /\ "order" \in ToEnd /\ "order" \notin ToEnd'
    BY <2>1 DEF ToEnd
  <2>. QED BY <2>2, <2>3 DEF Advances
<1>8. CASE Pick
  <2>. DEFINE n == Least(Ready)
  <2>1. /\ manifests' = manifests /\ order' = Append(order, n) /\ path' = path /\ left' = left
        /\ visited' = visited /\ phase' = phase
    BY <1>8 DEF Pick
  <2>2. n \in Nodes /\ n \notin Range(order)
    <3>1. Ready \in SUBSET Nat
      BY <1>1, RequiresNodes DEF Ready, Nodes
    <3>2. n \in Ready
      BY <1>8, <3>1, LeastIn DEF Pick
    <3>. QED BY <3>2 DEF Ready, Nodes
  <2>. HIDE DEF n
  <2>3. Range(order') = Range(order) \cup {n}
    <3>1. order \in Seq(Nodes) /\ order' \in Seq(Nodes) /\ Len(order') = Len(order) + 1
      BY <1>1, <2>1, <2>2 DEF ResolverTypeOK
    <3>2. /\ order'[Len(order) + 1] = n
          /\ \A i \in 1..Len(order) : order'[i] = order[i]
      BY <1>1, <2>1, <2>2 DEF ResolverTypeOK
    <3>3. Range(order') = {order'[i] : i \in 1..(Len(order) + 1)}
      BY <3>1 DEF Range
    <3>4. \A i \in 1..(Len(order) + 1) : i \in 1..Len(order) \/ i = Len(order) + 1
      BY <3>1
    <3>5. Len(order) \in Nat
      BY <3>1
    <3>6. 1..Len(order) \subseteq 1..(Len(order) + 1) /\ Len(order) + 1 \in 1..(Len(order) + 1)
      BY <3>5
    <3>. QED BY <1>2, <3>2, <3>3, <3>4, <3>6
  <2>4. ToPlace' \subseteq ToPlace /\ ToPlace' # ToPlace
    BY <2>1, <2>2, <2>3 DEF ToPlace, Nodes
  <2>5. ToEnter' = ToEnter /\ ToFollow' = ToFollow /\ ToLeave' = ToLeave /\ ToEnd' = ToEnd
    BY <2>1 DEF ToEnter, ToFollow, ToLeave, ToEnd, Nodes, Requires
  <2>. QED BY <2>4, <2>5 DEF Advances
<1>. QED BY <1>3, <1>4, <1>5, <1>6, <1>7, <1>8 DEF ResolverNext

(* Every call of resolve ends: finitely much is to be done, and each round *)
(* of its loops takes something off and adds nothing.                      *)
THEOREM ResolverHalts == ResolverSpec => []FinitelyMuch /\ [][Advances]_rsvars
<1>1. ResolverInv => FinitelyMuch
  BY FiniteWork
<1>2. ResolverInv /\ [ResolverNext]_rsvars => [Advances]_rsvars
  BY StepsAdvance
<1>. QED BY <1>1, <1>2, ResolverIsExact, PTL DEF ResolverSpec
=============================================================================
