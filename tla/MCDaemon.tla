------------------------------ MODULE MCDaemon ------------------------------
(* What the daemon and the RLM service keep going or keep up to date beside  *)
(* the requests: the services, the mirror of the tasks, the code index. They *)
(* share no state: a behaviour runs one of them, the others keep still.      *)
EXTENDS TaskMirror, CodeIndex, DaemonServices

VARIABLE part

allVars == <<part, mvars, ivars, vars>>

\* The callee g of f goes, and with it the call.
MCPlaces == {<<"f", 1>>, <<"g", 2>>}
MCChunks == [with |-> [p \in MCPlaces |-> IF p[1] = "f" THEN {"g"} ELSE {}],
             without |-> [p \in {<<"f", 1>>} |-> {}]]

InMirror(A)   == part = "mirror" /\ A /\ UNCHANGED <<part, ivars, vars>>
InIndex(A)    == part = "index" /\ A /\ UNCHANGED <<part, mvars, vars>>
InServices(A) == part = "services" /\ A /\ UNCHANGED <<part, mvars, ivars>>

\* Where a component keeps still its initial state is any one.
MCInit ==
    /\ part \in {"mirror", "index", "services"}
    /\ MirrorInit /\ IndexInit /\ Init
    /\ part # "index" => source = "with"
    /\ part # "services" => redisUp

MCNext == InMirror(MirrorNext) \/ InIndex(IndexNext) \/ InServices(Next)

MCSpec == MCInit /\ [][MCNext]_allVars

\* The types of the three components.
DaemonTypeOK == MirrorTypeOK /\ IndexTypeOK /\ ServicesTypeOK
=============================================================================
