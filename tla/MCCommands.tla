----------------------------- MODULE MCCommands -----------------------------
(***************************************************************************)
(* Any command beside one that writes; a verifier beside two that inject   *)
(* faults; and, when no command may run, processes on one run root, with a *)
(* release of two stages, one of one stage and one in the wrong order.     *)
(***************************************************************************)
EXTENDS Commands, RunRoot

CONSTANTS p1, p2, p3

Session(a, b, c) == [p \in {p1, p2, p3} |-> CASE p = p1 -> a [] p = p2 -> b [] OTHER -> c]

RootSession == Session({}, {}, {})

MCSessions ==
    {Session(Command, {ImportRoadGraph, QualifyRoadGraph, InjectSyntheticFault}, {}),
     Session({VerifySyntheticFault}, {InjectSyntheticFault}, {InjectSyntheticFault}),
     RootSession}

MCDefinitions ==
    LET detect == [id |-> "detect", dependencies |-> {}]
        report == [id |-> "report", dependencies |-> {"detect"}]
    IN  {<<detect, report>>, <<detect>>, <<report, detect>>}

NoCommands ==
    /\ \A p \in Process : calls[p] = Idle
    /\ outages = 0 /\ \A f \in File : files[f] = Absent

NoRoot == ~rootMade /\ \A p \in Opener : Stands(p, "away")

MCInit == CommandsInit /\ RootInit

MCNext ==
    \/ NoRoot /\ CommandsNext /\ UNCHANGED rootVars
    \/ NoCommands /\ RootNext /\ UNCHANGED commandVars

MCSpec == MCInit /\ [][MCNext]_<<commandVars, rootVars>>
=============================================================================
