-------------------------- MODULE MC_QuerySummary --------------------------
(***************************************************************************)
(* Instances of a summarised query for TLC.                                *)
(***************************************************************************)
EXTENDS QuerySummary, TLC

CONSTANTS u1, u2, u3, blog, shop, mail, example, test

\* A blog's page, one of a shop below the same domain, and an address that has no host.
HostOfAll == u1 :> blog @@ u2 :> shop @@ u3 :> None
WithinAll == blog :> {example} @@ shop :> {example, shop} @@ mail :> {test}

Link(via, to) == [via |-> via, to |-> to, title |-> TRUE]

Containers ==
    {Link("direct", u1), Link("direct", u2), Link("redirect", u1), Link("redirect", u3),
     Link("redirect", None), Link("internal", u2),
     [via |-> "direct", to |-> u3, title |-> FALSE], [via |-> "none", to |-> None, title |-> TRUE]}

\* Up to three containers of the first layout, or of one tried later.
SomePages ==
    {[markers |-> {}, layouts |-> <<first, second>>] :
        first \in BoundedSeq(Containers, 3), second \in BoundedSeq({Link("direct", u2)}, 1)}
    \cup {[markers |-> markers, layouts |-> <<>>] :
             markers \in {{"captcha"}, {"consent"}, {"captcha", "consent"}}}

\* Nothing to read; too little in the first container; furniture among the text; words
\* around blanks and blank lines; one long word.
SomeDocuments ==
    {<<>>,
     << <<<<"letter">>>>, <<<<"letter", "space", "tab", "letter">>>> >>,
     << <<<<"furniture", "letter">>, <<"letter", "space">>, <<>>, <<"mark">>, <<>>, <<"letter", "letter">>>> >>,
     << <<<<"letter", "invisible", "letter">>, <<"space">>, <<>>, <<>>, <<"letter">>>> >>,
     << <<[i \in 1 .. 9 |-> "letter"]>> >>}

Person(ceiling, pages) ==
    [default_model |-> Unset, max_content_chars |-> ceiling, disabled_providers |-> Unset,
     job_retention_hours |-> Unset, default_profile |-> Unset, safe_search |-> Unset,
     read_top_pages |-> pages]

SomePersons == {Person(Unset, Unset), Person(10, 1), Person(7, 9), Person(0, 1)}

SomeBlocked == {{}, {example}, {shop}}

SomeQueries ==
    {[max_results |-> n, site |-> site, fetch_pages |-> Unset, max_pages |-> Unset] :
        n \in {1, 3}, site \in {None, shop}}
    \cup {[max_results |-> 3, site |-> None, fetch_pages |-> TRUE, max_pages |-> 1],
          [max_results |-> 3, site |-> None, fetch_pages |-> FALSE, max_pages |-> Unset]}

\* A Claude model with either adapter, and a model nobody has catalogued.
SomeModels ==
    {[adapter |-> "anthropic", model |-> "claude-opus-5"],
     [adapter |-> "openai_compatible", model |-> "claude-opus-5"],
     [adapter |-> "openai_compatible", model |-> "vendor/claude"]}

\* Asked for nothing, for more than most models write, and for too little to think in.
SomeAsks ==
    [max_output_tokens : {2000, 200000, 1000}, temperature : {"default", Absent},
     json_mode : BOOLEAN, effort : {Absent, "low", "max"}]

SomeRefusals ==
    {{}, {"temperature"}, {"response_format"}, {"max_tokens"}, {"thinking"}, {"reasoning_effort"},
     {"temperature", "response_format"}, {"messages"}}

Answer(blank, fenced, fence, fenceObject, whole, wholeObject) ==
    [blank |-> blank, fenced |-> fenced, fence |-> fence, fence_object |-> fenceObject,
     whole |-> whole, whole_object |-> wholeObject]

SomeReplies ==
    {Answer(TRUE, FALSE, "prose", "prose", "prose", "prose")}
    \cup {Answer(FALSE, FALSE, "prose", "prose", whole, object) :
             whole \in {"prose", "summary", "useless"}, object \in {"prose", "summary", "useless"}}
    \cup {Answer(FALSE, TRUE, fence, fenceObject, "prose", object) :
             fence \in {"prose", "summary", "useless"}, fenceObject \in {"prose", "summary"},
             object \in {"prose", "summary"}}
===============================================================================
