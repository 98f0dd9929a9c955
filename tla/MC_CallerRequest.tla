-------------------------- MODULE MC_CallerRequest --------------------------
(***************************************************************************)
(* Instances of a summarised request for TLC: one local provider and two   *)
(* that need a credential, each with one model.                            *)
(***************************************************************************)
EXTENDS CallerRequest, TLC

CONSTANTS r1, r2, local, cloud, other, llama, opus, gpt, home, work

ServesAll == llama :> local @@ opus :> cloud @@ gpt :> other

\* Model ids sort by the name of their provider.
SortsBefore == opus :> {} @@ gpt :> {opus} @@ llama :> {opus, gpt}

Body(p, m, b) == [profile |-> p, model |-> m, background |-> b]

\* A request that names nothing, at once; a job of a profile; a named model in a job.
SomeBodies == {Body(Unset, Unset, FALSE), Body(work, Unset, TRUE), Body(Unset, gpt, TRUE)}

JobBodies == {Body(home, Unset, TRUE)}

\* Requests differ in nothing but their name.
RequestSymmetry == Permutations(Request)

SomeLists == {{}, {other}}
===============================================================================
