------------------------------- MODULE Drafts -------------------------------
(***************************************************************************)
(* What the analyzers read and what they report.  A draft is a sequence of *)
(* sections, a body a sequence of paragraphs, a paragraph a sequence of    *)
(* phrases: a phrase is a word or a sentence by what the rules tell apart, *)
(* so a configured pattern is the phrase it matches and a configured alias *)
(* the heading it stands for.  A line is the position of its section.      *)
(***************************************************************************)
EXTENDS Naturals, Sequences, SequencesExt

CONSTANT Intents    \* question -> its significant words, in their order

\* A heading is its normalized text; the section of a draft without headings has level 0.
Section(name, level, body) == [name |-> name, level |-> level, body |-> body]

Sections(d) == DOMAIN d

Headings(d) == {i \in Sections(d) : d[i].level > 0}

Phrases(body) == FlattenSeq(body)

Words(body) == Len(Phrases(body))

Says(body, patterns) == ToSet(Phrases(body)) \cap patterns # {}

Count(body, patterns) == Len(SelectSeq(Phrases(body), LAMBDA p : p \in patterns))

\* The content of a draft, with and without its headings.
Bodies(d) == FlattenSeq([i \in Sections(d) |-> d[i].body])

Whole(d) == FlattenSeq([i \in Sections(d) |-> <<<<d[i].name>>>> \o d[i].body])

\* The first section with one of these headings, or none.
FirstNamed(d, aliases) ==
  {i \in Headings(d) : d[i].name \in aliases /\ \A j \in 1..(i - 1) : d[j].name \notin aliases}

\* Is one of the others within the window around the first of these?
First(body, patterns) ==
  LET p == Phrases(body)
  IN  {k \in DOMAIN p : p[k] \in patterns /\ \A j \in 1..(k - 1) : p[j] \notin patterns}

Near(body, patterns, others, before, after) ==
  \E k \in First(body, patterns), j \in DOMAIN Phrases(body) :
    k <= j + before /\ j <= k + after /\ Phrases(body)[j] \in others

Titles(d) == {i \in Headings(d) : d[i].level = 1}

\* A required section [name, leading]: the title may stand for a leading one.
Matched(d, section) ==
  \/ \E i \in Headings(d) : d[i].name = section.name
  \/ section.leading /\ Titles(d) # {}

\* The questions of a FAQ section: the paragraphs that begin with one.
Entries(body) == {k \in DOMAIN body : Head(body[k]) \in DOMAIN Intents}

Malformed == {"malformed heading"}

MalformedHeadings(d) == {i \in Sections(d) : Says(d[i].body, Malformed)}

-----------------------------------------------------------------------------

(* A finding: what identifies it among those of its code is what was matched, in   *)
(* which section, at which place; the analyzers build their identifiers of these.  *)
(* The section and line of its location are Blank and 0 when the rule gives none; a   *)
(* rule does not say of which module it is.                                        *)
Finding(code, severity, matched, within, nth, section, line, spot) ==
  [module |-> "none", code |-> code, severity |-> severity, confidence |-> "high",
   id |-> <<matched, within, nth>>, section |-> section, line |-> line, spot |-> spot]

\* No text: a section or a match that a finding does not have, the title of a draft without one.
Blank == ""

\* About the draft as a whole.
OfDraft(code, severity, matched) == Finding(code, severity, matched, Blank, 0, Blank, 0, 0)

When(cond, finding) == IF cond THEN {finding} ELSE {}

\* About a section; the lined rules also say where it begins.
OfSection(d, i, code, severity, matched) ==
  Finding(code, severity, matched, d[i].name, 0, d[i].name, 0, i)

OfLines(d, i, code, severity, matched) ==
  Finding(code, severity, matched, d[i].name, 0, d[i].name, i, i)

\* About the k-th entry of a FAQ: its line counts from the start of the body.
OfEntry(d, i, k, code, severity, matched) ==
  Finding(code, severity, matched, d[i].body[k][1], 0, d[i].name, k, k)

\* About the headings from line i on.
OfHeading(i, code, severity, matched, nth) ==
  Finding(code, severity, matched, Blank, nth, Blank, i, i)

\* A rule may identify what it finds in a way of its own.
Identified(finding, id) == [finding EXCEPT !.id = id]

Uncertain(finding) == [finding EXCEPT !.confidence = "medium"]

\* What an analyzer returns: of the findings of one code and identifier, the first.
Distinct(module, findings) ==
  {[f EXCEPT !.module = module] :
     f \in {f \in findings : \A g \in findings :
              (g.code = f.code /\ g.id = f.id) => f.spot <= g.spot}}

=============================================================================
