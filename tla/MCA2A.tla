------------------------------- MODULE MCA2A -------------------------------
(* A small instance of A2A for TLC: the AP tree and a nested pipeline. *)
EXTENDS A2A

Leaf == [subs |-> << >>, sequential |-> FALSE]
Over1(sub) == [subs |-> <<sub>>, sequential |-> FALSE]
Workflow(subs) == [subs |-> subs, sequential |-> TRUE]

\* The AP skills without the validator, which the pipeline names; a pipeline
\* whose last step is a pipeline itself; a pipeline that names the orchestrator.
MCCatalogs ==
  {("orchestrator" :> Over1("pipeline") @@ "extractor" :> Leaf @@ "poster" :> Leaf
      @@ "pipeline" :> Workflow(<<"extractor", "validator", "poster">>)),
   ("orchestrator" :> Over1("pipeline") @@ "extractor" :> Leaf @@ "poster" :> Leaf
      @@ "validator" :> Leaf @@ "inner" :> Workflow(<<"validator", "poster">>)
      @@ "pipeline" :> Workflow(<<"extractor", "inner">>)),
   ("orchestrator" :> Over1("pipeline")
      @@ "pipeline" :> Workflow(<<"extractor", "orchestrator">>))}

MCMessages ==
  UNION {{[context |-> c, authed |-> TRUE, parts |-> <<"bytes", "bad_mime">>],
          [context |-> c, authed |-> TRUE, parts |-> <<"text", "uri">>],
          [context |-> c, authed |-> FALSE, parts |-> <<"text">>]} : c \in Contexts}

MCObjects == {<<"invoices", "a.pdf">>}
NoPrefix == << >>
ContextSymmetry == Permutations(Contexts) \cup Permutations(Requests)
===========================================================================
