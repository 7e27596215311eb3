--------------------------- MODULE MCCollaboration ---------------------------
(* The protocols by which sessions and agents hand work to each other. They  *)
(* share no state: a behaviour runs one of them, the others keep still.      *)
EXTENDS StepWalk, StepWorkflow, PartySession, AuditLoop, A2AClient

VARIABLE part

allVars == <<part, walkVars, flowVars, partyVars, loopVars, vars>>

MCPlans == {[files |-> n, loc |-> 0, tests |-> n \div 2, migration |-> n > 0, api |-> n > 0, floor |-> 3] :
              n \in {4, 24}}
MCHistories == {[total |-> 12, nearest |-> <<0, 40, 60>>], [total |-> 12, nearest |-> <<10, 40, 60>>]}
MCLayers == {{}, {"E"}}
MCFirstRows == {<<10, {"E"}>>, <<70, {"R", "P", "E", "T", "D"}>>}

InWalk(A)  == /\ part = "walk" /\ A
              /\ UNCHANGED <<part, flowVars, partyVars, loopVars, vars>>
InFlow(A)  == /\ part = "flow" /\ A
              /\ UNCHANGED <<part, walkVars, partyVars, loopVars, vars>>
InParty(A) == /\ part = "party" /\ A
              /\ UNCHANGED <<part, walkVars, flowVars, loopVars, vars>>
InLoop(A)  == /\ part = "loop" /\ A
              /\ UNCHANGED <<part, walkVars, flowVars, partyVars, vars>>
InA2A(A)   == /\ part = "a2a" /\ A
              /\ UNCHANGED <<part, walkVars, flowVars, partyVars, loopVars>>

\* Where a component keeps still its initial state is any one.
Still == handoff = CHOOSE h \in {Fresh("plan", Row(t)) : t \in Tasks} : TRUE

MCInit ==
    /\ part \in {"walk", "flow", "party", "loop", "a2a"}
    /\ WalkInit /\ (part # "walk" => Still)
    /\ FlowInit /\ PartyInit /\ Init
    /\ LoopInit /\ (part = "loop" \/ info = {}) /\ info # Rows

MCNext == InWalk(WalkNext) \/ InFlow(FlowNext) \/ InParty(PartyNext)
          \/ InLoop(LoopNext) \/ InA2A(Next)

\* The fairness of each protocol, while it is the one that runs.
MCFairness ==
    /\ WF_allVars(InFlow(ComeUp))
    /\ \A s \in Sessions : WF_allVars(InFlow(SessionNext(s)))
    /\ WF_allVars(InLoop(ReadFindings)) /\ WF_allVars(InLoop(CreateTasks))
    /\ \A a \in Auditors : WF_allVars(InLoop(Select(a) \/ Insert(a)))
    /\ \A f \in Rows : /\ WF_allVars(InLoop(ReAudit(f)))
                       /\ WF_allVars(InLoop(Close(f)))
    /\ WF_allVars(InA2A(Tick))
    /\ SF_allVars(InA2A(\E c \in Callers : Send(c)))
    /\ \A c \in Callers : WF_allVars(InA2A(Proceeds(c)))

MCSpec == MCInit /\ [][MCNext]_allVars /\ MCFairness

\* The types of all five protocols.
CollaborationTypeOK == WalkTypeOK /\ FlowTypeOK /\ PartyTypeOK /\ LoopTypeOK /\ A2ATypeOK
=============================================================================
