--------------------------- MODULE StaticAnalysis ---------------------------
(***************************************************************************)
(* The static analyses: those on a finished graph (GraphAnalyses), the     *)
(* values of indexes, path conditions over the graph built from a          *)
(* function's statements, and, before them, the symbols of a project and   *)
(* what its calls mean, what a pattern binds, and what the frontends write *)
(* down of an operation and of a function's statements.                    *)
(* A behaviour is one analysis of one input; the other machines stand      *)
(* still with nothing to do.                                               *)
(***************************************************************************)
EXTENDS GraphAnalyses, SelectorValues, PathConditions, ReferenceResolution, OperationLowering,
        StatementLowering, SourceCollection

Analyses == {"flow", "selectors", "calls", "values", "routes", "candidates", "conditions", "symbols",
             "bindings", "operations", "statements", "collection"}

frontVars == <<bindingVars, operationVars, lowerVars, collectionVars>>
allVars == <<graphVars, selectorVars, proofVars, symbolVars, frontVars>>

SelectorIdle ==
    /\ code = <<>> /\ before = <<>> /\ after = <<>>
    /\ todo = <<>> /\ updates = 0 /\ exceeded = FALSE

ProofIdle ==
    /\ query = <<>> /\ graph = [edges |-> {}, statements |-> <<>>]
    /\ prefixes = <<>> /\ doubts = TRUE /\ verdict = "unknown"

SymbolIdle ==
    /\ project = <<>> /\ merged = <<>> /\ index = <<>>
    /\ linked = 0 /\ links = {} /\ unresolved = {}

BindingIdle == binding = <<>> /\ resolution = <<>>

OperationIdle == operation = <<>> /\ lowered = <<>>

LowerIdle == source = <<>> /\ lowering = <<>>

CollectionIdle == syntax = <<>> /\ agenda = <<>> /\ context = <<>>

Init ==
    /\ analysis \in Analyses
    /\ GraphInit
    /\ IF analysis = "selectors" THEN SelectorInit ELSE SelectorIdle
    /\ IF analysis = "conditions" THEN ProofInit ELSE ProofIdle
    /\ IF analysis = "symbols" THEN SymbolInit ELSE SymbolIdle
    /\ IF analysis = "bindings" THEN BindingInit ELSE BindingIdle
    /\ IF analysis = "operations" THEN OperationInit ELSE OperationIdle
    /\ IF analysis = "statements" THEN LowerInit ELSE LowerIdle
    /\ IF analysis = "collection" THEN CollectionInit ELSE CollectionIdle

OnGraph == GraphNext /\ UNCHANGED <<selectorVars, proofVars, symbolVars, frontVars>>
Selectors == analysis = "selectors" /\ SelectorNext /\ UNCHANGED <<graphVars, proofVars, symbolVars, frontVars>>
Conditions == analysis = "conditions" /\ ProofNext /\ UNCHANGED <<graphVars, selectorVars, symbolVars, frontVars>>
Symbols == analysis = "symbols" /\ SymbolNext /\ UNCHANGED <<graphVars, selectorVars, proofVars, frontVars>>

Destructured == BindingNext /\ UNCHANGED <<operationVars, lowerVars, collectionVars>>
Operated == OperationNext /\ UNCHANGED <<bindingVars, lowerVars, collectionVars>>
Stated == LowerNext /\ UNCHANGED <<bindingVars, operationVars, collectionVars>>
ReadFile == CollectionNext /\ UNCHANGED <<bindingVars, operationVars, lowerVars>>
Frontend ==
    /\ \/ analysis = "bindings" /\ Destructured
       \/ analysis = "operations" /\ Operated
       \/ analysis = "statements" /\ Stated
       \/ analysis = "collection" /\ ReadFile
    /\ UNCHANGED <<graphVars, selectorVars, proofVars, symbolVars>>

Next == OnGraph \/ Selectors \/ Conditions \/ Symbols \/ Frontend

Spec == Init /\ [][Next]_allVars

-------------------------------------------------------------------------------
(***************************************************************************)
(* Properties.                                                             *)
(***************************************************************************)
\* What is written down of the code is what its runs say: the constants an index can
\* be; the symbol of a name is the one of the language's rules, whatever thread was
\* first, and a call means every override; a pattern without a diagnostic binds a name
\* to everything it can be made from and for certain only to what it is made from, an
\* operation passes on all it stores, and a function without a limitation has all its
\* runs in the graph.
MeaningIsExact ==
    /\ analysis = "selectors" => KeysByRuns /\ StrongWriteIsSure
    /\ analysis = "symbols" => MembersByRules /\ OneNode /\ OrderDoesNotMatter /\ CallsCoverOverrides
    /\ analysis = "bindings" => BoundByInputs /\ SureInputsAreReal
    /\ analysis = "operations" => AssignedValuesFlow /\ SureTransfersAreReal
    /\ analysis = "statements" => StatementsKeepRuns
    /\ analysis = "collection" => ReadAsWritten

\* What the proof of a path says is so: a path called satisfiable is one the function
\* can take, and one called infeasible is taken by no run at its first arrival.
VerdictsAreTrue == analysis = "conditions" => PathIsReal /\ InfeasibleOnFirstVisit
===============================================================================
