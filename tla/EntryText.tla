------------------------------- MODULE EntryText -------------------------------
(* The statement of one document, read line by line (firstMeaningful of      *)
(* internal/ingestion/ingestion.go): which text of an entry is published as  *)
(* its decision, whatever examples and comments stand around it.             *)
EXTENDS Ingestion

CONSTANTS
    Leading, Inside, Trailing,  \* the runs of lines around and within a hidden region
    Regions                 \* pairs of the lines that open and close one

\* A region opens with a fence, or with a line that holds the start of a
\* comment and not its end.
ASSUME TextAssumption ==
    /\ \A b \in Leading \cup Inside \cup Trailing : b \in Seq(Range(b))
    /\ \A r \in Regions : IF r[1].kind = "fence" THEN r[1].run \in Nat \ {0}
                                                 ELSE r[1].opens /\ ~r[1].closes

VARIABLES
    parts,      \* the document: before, open, inside, close, after
    at,         \* lines read
    reader      \* the variables of the loop

textVars == <<parts, at, reader>>

Body(p) == p.before \o <<p.open>> \o p.inside \o <<p.close>> \o p.after

TextInit ==
    /\ \E b \in Leading, i \in Inside, a \in Trailing, r \in Regions :
          parts = [before |-> b, open |-> r[1], inside |-> i, close |-> r[2], after |-> a]
    /\ at = 0 /\ reader = Reading

Read ==
    /\ at < Len(Body(parts))
    /\ at' = at + 1
    /\ reader' = ReadLine(Body(parts), reader, at + 1)
    /\ UNCHANGED parts

TextSpec == TextInit /\ [][Read]_textVars

------------------------------------------------------------------------------
(* Properties *)

\* A line that ends the region another one opened (CommonMark's rule for
\* fences: the same character, at least as long a run, nothing after it).
Ends(open, l) ==
    IF open.kind = "fence"
    THEN l.kind = "fence" /\ l.mark = open.mark /\ l.run >= open.run /\ ~l.info
    ELSE l.closes

Visible(lines) == LET s == ReadAll(lines) IN s.run = 0 /\ ~s.comment

\* What stands inside a fenced example or a comment never changes the statement
\* of the entry, be it markers of another length, headings named Summary or
\* ordinary text (ingestion.go:436, "Mixed or shorter markers inside an example
\* are example content, not exits").
ExamplesChangeNothing ==
    /\ at = Len(Body(parts))
    /\ Visible(parts.before)
    /\ Ends(parts.open, parts.close)
    /\ \A i \in DOMAIN parts.inside : ~Ends(parts.open, parts.inside[i])
    => Chosen(reader) = firstMeaningful(Body([parts EXCEPT !.inside = <<>>]))
==============================================================================
