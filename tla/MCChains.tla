------------------------------- MODULE MCChains -------------------------------
(* The attack chain qualified three ways: replayed on labs of this process, on  *)
(* the application in containers, on the providers alone.                       *)
EXTENDS ChainReplay, ChainQualification

\* The code's own plans and times.
PlannedAdvances == {90, 181}

\* Two clean runs, the patched one and a control that stops short.
ThreeKinds == <<[scenario |-> "primary_vulnerable", actions |-> <<"login", "share">>],
                [scenario |-> "primary_vulnerable", actions |-> <<"login", "share">>],
                [scenario |-> "primary_patched", actions |-> <<"login", "share">>],
                [scenario |-> "fresh_session", actions |-> <<"login">>]>>
LoginShare   == <<"login", "share">>
TwoProviders == <<"database", "queue">>
WinnerState  == <<0, "winner">>
LabelOf(i) == IF i = "stale" THEN "rev0" ELSE "rev1"

VARIABLE way

Replaying  == way = "lab" /\ ChainNext /\ UNCHANGED <<way, qvars>>
Qualifying == way = "docker" /\ QNext /\ UNCHANGED <<way, chainVars>>
Fairly(A)  == way = "docker" /\ A /\ NoMishap /\ UNCHANGED <<way, chainVars>>

\* The part that is not used starts in one way only.
AllInit ==
  /\ ChainInit /\ QInit
  /\ \/ /\ way = "lab" /\ qual.kind = "provider" /\ Exact(qual.inputs)
        /\ built = "first"
     \/ way = "docker" /\ run.campaign = "m5"

\* The fairness of the two specifications.
AllSpec == /\ AllInit /\ [][Replaying \/ Qualifying]_<<way, chainVars, qvars>>
           /\ WF_chainVars(way = "lab" /\ Progress /\ UNCHANGED <<way, qvars>>)
           /\ WF_qvars(Fairly(Driver)) /\ WF_qvars(Fairly(RunStep))
           /\ WF_qvars(Fairly(ProvStep))

\* Whatever step of a campaign fails, it comes to its end, and so does each of
\* the materialized qualifications.
ChainsEnd ==
  /\ way = "lab" => CampaignEnds
  /\ way = "docker" => QualificationEnds
===============================================================================
