------------------------------ MODULE PageText ------------------------------
(***************************************************************************)
(* The text a model is given: how it is taken out of a page                *)
(* (src/app/services/text/extractor.py), cleaned (cleaner.py) and cut to   *)
(* what the model's window and the person's ceiling leave room for         *)
(* (truncate.py).                                                          *)
(*                                                                         *)
(* A character is a record: its kind, the address it comes from, and the   *)
(* rank it shows when it stands for the heading of a result.  A phrase of  *)
(* page furniture is one character of kind "furniture"; the folding of     *)
(* typographic characters into ASCII is done before the text is drawn.     *)
(***************************************************************************)
EXTENDS Integers, SequencesExt

CONSTANTS
    MinContentChars,      \* _MIN_CONTENT_CHARS
    MinMeaningfulLine,    \* _MIN_MEANINGFUL_LINE
    ReservedTokens,       \* RESERVED_OUTPUT_TOKENS and PROMPT_OVERHEAD_TOKENS
    CharsPerToken,        \* CHARS_PER_TOKEN
    None                  \* Python's None

ASSUME PageTextAssumption ==
    /\ MinContentChars \in Nat /\ MinMeaningfulLine \in Nat
    /\ ReservedTokens \in Nat /\ CharsPerToken \in Nat \ {0}
    /\ None \notin Nat

-------------------------------------------------------------------------------
Kind == {"letter", "mark", "furniture", "invisible", "space", "tab", "newline"}

Char(kind, of) == [kind |-> kind, of |-> of, rank |-> 0]

Space == Char("space", None)
Newline == Char("newline", None)

Blank(c) == c.kind \in {"space", "tab"}
White(c) == Blank(c) \/ c.kind = "newline"
Visible(c) == c.kind # "invisible"

\* rstrip and strip.
RStripped(text) ==
    SubSeq(text, 1, SelectLastInSeq(text, LAMBDA c : ~ White(c)))

Stripped(text) ==
    LET first == SelectInSeq(text, LAMBDA c : ~ White(c))
    IN  IF first = 0 THEN <<>> ELSE RStripped(SubSeq(text, first, Len(text)))

Joined(texts, between) ==
    IF texts = <<>> THEN <<>>
    ELSE FoldLeft(LAMBDA sofar, text : sofar \o between \o text, Head(texts), Tail(texts))

\* The elements of a sequence that are in a set, in their order.
Among(seq, set) ==
    FoldLeft(LAMBDA kept, e : IF e \in set THEN Append(kept, e) ELSE kept, <<>>, seq)

-------------------------------------------------------------------------------
\* _is_noise: page furniture, or a short line without a letter.
Noise(line) ==
    LET bare == Stripped(line)
    IN  /\ bare # <<>>
        /\ \/ \E i \in DOMAIN bare : bare[i].kind = "furniture"
           \/ /\ Len(bare) < MinMeaningfulLine
              /\ \A i \in DOMAIN bare : bare[i].kind # "letter"

\* collapse_whitespace, one character further: one space for a run of blanks, none
\* before a newline, and two newlines for more.
Collapse(sofar, c) ==
    LET endsBlank == sofar # <<>> /\ Blank(Last(sofar))
        bare == IF endsBlank THEN Front(sofar) ELSE sofar
    IN  CASE Blank(c) -> IF endsBlank THEN sofar ELSE Append(sofar, Space)
          [] c.kind = "newline" -> IF IsSuffix(<<Newline, Newline>>, bare) THEN bare
                                   ELSE Append(bare, Newline)
          [] OTHER -> Append(sofar, c)

\* What the cleaner keeps of a page's lines.
KeptLines(lines) ==
    LET seen == [i \in DOMAIN lines |-> Among(lines[i], {c \in ToSet(lines[i]) : Visible(c)})]
    IN  Among(seen, {line \in ToSet(seen) : ~ Noise(line)})

\* clean_text, from the lines of the raw text.
Clean(lines) == Stripped(FoldLeft(Collapse, <<>>, Joined(KeptLines(lines), <<Newline>>)))

\* _best_container: the first of the candidates, in the order of the selectors, that
\* holds enough text; a candidate is the lines of one container.
Best(candidates) ==
    LET chars(lines) == FlattenSeq([i \in DOMAIN lines |-> Stripped(lines[i])])
        fit == SelectInSeq(candidates, LAMBDA lines : Len(chars(lines)) >= MinContentChars)
    IN  IF fit = 0 THEN <<>> ELSE candidates[fit]

\* extract_content, as far as the text.
Extract(candidates) == Clean(Best(candidates))

-------------------------------------------------------------------------------
\* Mutant: the share of the limit that must be kept is not looked at.
KeepsEnough_Always(boundary, limit) == boundary >= 0

\* A word boundary is honoured when it keeps four fifths of the limit.
KeepsEnough(boundary, limit) == boundary >= (4 * limit) \div 5

\* truncate.
Truncate(text, limit) ==
    IF limit <= 0 THEN [text |-> <<>>, truncated |-> TRUE]
    ELSE IF Len(text) <= limit THEN [text |-> text, truncated |-> FALSE]
    ELSE LET window == SubSeq(text, 1, limit)
             boundary ==
                 SelectLastInSeq(window, LAMBDA c : c.kind \in {"space", "newline"}) - 1
         IN  [text |-> RStripped(IF KeepsEnough(boundary, limit)
                                 THEN SubSeq(window, 1, boundary) ELSE window),
              truncated |-> TRUE]

\* char_budget_for_context.
CharBudget(window, ceiling) ==
    IF window = None THEN ceiling
    ELSE LET usable == window - ReservedTokens
         IN  IF usable <= 0 THEN 0
             ELSE IF ceiling <= usable * CharsPerToken THEN ceiling
             ELSE usable * CharsPerToken
===============================================================================
