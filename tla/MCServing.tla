------------------------------ MODULE MCServing ------------------------------
(* Instances for TLC of the way from documents to answers: the three parts of  *)
(* MCPipeline, and one profile's store while it is built, served and changed   *)
(* (Serving), which shares no state with them.                                 *)
EXTENDS MCPipeline, Serving

CONSTANTS a, b, c1

TwoSources  == <<a, b>>
BothSources == {a, b}
OnlyB       == {b}
OnlyA       == {a}
OneCall     == {c1}
AllCalls    == {"resolve", "status", "expand", "inputs", "export", "explain"}

ServingIdle ==
    /\ documents = <<>> /\ ledger = {} /\ proj = {} /\ copy = {} /\ job = NoJob
    /\ attached = FALSE /\ issued = {} /\ traces = <<>> /\ spent = {}
    /\ calls = [c \in Calls |-> NoCall]

Init == \/ PipelineInit /\ ServingIdle
        \/ part = "serve" /\ WalkIdle /\ TextIdle /\ ResIdle /\ ServingInit

Next == \/ PipelineNext /\ UNCHANGED servingVars
        \/ part = "serve" /\ ServingNext /\ UNCHANGED <<part, walkVars, textVars, resVars>>

Spec == Init /\ [][Next]_<<allVars, servingVars>>
=============================================================================
