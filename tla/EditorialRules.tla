--------------------------- MODULE EditorialRules ---------------------------
(***************************************************************************)
(* The editorial and the evidence analyzer: one operator per rule, from a  *)
(* draft to the set of its findings.                                       *)
(***************************************************************************)
EXTENDS Drafts

CONSTANTS
  Editorial,    \* the editorial profile: required sections, thresholds, patterns
  Evidence      \* the evidence profile

-----------------------------------------------------------------------------
(* Editorial. *)

MissingRequiredSection(d) ==
  {OfSection(<<[name |-> s.name]>>, 1, "missing-required-section", "high", Blank) :
     s \in {s \in Editorial.required : ~Matched(d, s)}}

DuplicateH1(d) ==
  {OfHeading(i, "duplicate-h1", "high", Blank, 0) :
     i \in {i \in Titles(d) : Cardinality({j \in Titles(d) : j < i}) = 1}}

InvalidHeadingHierarchy(d) ==
  {OfHeading(i, "invalid-heading-hierarchy", "medium", Blank, i) :
     i \in {i \in Headings(d) \ {1} : d[i].level > d[i - 1].level + 1}}

ThinSection(d) ==
  {OfLines(d, i, "thin-section", "medium", Blank) :
     i \in {i \in Sections(d) :
              LET required == {s \in Editorial.required : s.name = d[i].name}
                  least == IF required = {} THEN Editorial.minWords
                           ELSE (CHOOSE s \in required : TRUE).minWords
              IN  Words(d[i].body) \in 1..(least - 1)}}

LongParagraph(d) ==
  UNION {{Identified(OfSection(d, i, "long-paragraph", "low", Blank), <<Blank, d[i].name, k>>) :
            k \in {k \in DOMAIN d[i].body : Len(d[i].body[k]) > Editorial.maxParagraph}} :
           i \in Sections(d)}

\* The position counts from the start of the paragraph, not of the section.
LongSentence(d) ==
  UNION {UNION {{Identified(OfSection(d, i, "long-sentence", "medium", Blank),
                            <<Blank, d[i].name, n>>) :
                   n \in {n \in DOMAIN d[i].body[k] : d[i].body[k][n] = "long sentence"}} :
                  k \in DOMAIN d[i].body} :
           i \in Sections(d)}

FormattingCorruption(d) ==
  LET text == Bodies(d)
  IN  {OfDraft("formatting-corruption", "high", t) : t \in
         {t \in Editorial.mergedTokens : Says(text, {t})} \cup
         {t \in Editorial.gluedNames : Says(Whole(d), {t})}}
      \cup {Uncertain(OfDraft("formatting-corruption", f[2], f[1])) :
              f \in {f \in {<<"camelCase", "high">>, <<"unspaced", "medium">>} :
                       Says(text, {f[1]})}}

MalformedMarkdownHeading(d) ==
  {OfHeading(i, "malformed-markdown-heading", "high", Blank, i) : i \in MalformedHeadings(d)}

RepeatedSectionHeading(d) ==
  {OfHeading(i, "repeated-section-heading", "medium", d[i].name, 0) :
     i \in {i \in Headings(d) :
              /\ \A j \in 1..(i - 1) : d[j].name # d[i].name
              /\ \E j \in Headings(d) \ {i} : d[j].name = d[i].name}}

TonePatterns(d, patterns, code) ==
  {OfDraft(code, "medium", p) : p \in {p \in patterns : Says(Whole(d), {p})}}

PromotionalTone(d) == TonePatterns(d, Editorial.promotionalTone, "promotional-tone")

DiagnosticTone(d) == TonePatterns(d, Editorial.diagnosticTone, "diagnostic-tone")

EditorialFindings(d) ==
  UNION {MissingRequiredSection(d), DuplicateH1(d), InvalidHeadingHierarchy(d), ThinSection(d),
         LongParagraph(d), LongSentence(d), FormattingCorruption(d),
         MalformedMarkdownHeading(d), RepeatedSectionHeading(d), PromotionalTone(d),
         DiagnosticTone(d)}

AnalyzeEditorial(d) == Distinct("editorial", EditorialFindings(d))

-----------------------------------------------------------------------------
(* Evidence.  A placeholder is a phrase, its resolved form another. *)

Notes(d) == FirstNamed(d, Evidence.notes)

Placeholders(body) == SelectSeq(Phrases(body), LAMBDA p : p \in Evidence.placeholders)

Verified(body) == Says(body, Evidence.verification)

UnresolvedSourcePlaceholder(d) ==
  When(Placeholders(Whole(d)) # << >>, OfDraft("unresolved-source-placeholder", "high", Blank))

MissingRequiredSourcePlaceholder(d) ==
  When(\E p \in Evidence.requiredPlaceholders : ~Says(Whole(d), {p, Evidence.resolved[p]}),
       OfDraft("missing-required-source-placeholder", "high", Blank))

MissingRequiredSourceSection(d) ==
  {OfSection(<<[name |-> s.name]>>, 1, "missing-required-source-section", "high", Blank) :
     s \in {s \in Evidence.required : \A i \in Headings(d) : d[i].name # s.name}}

MissingEvidenceNotes(d) ==
  {OfLines(d, i, "missing-evidence-notes", "high", Blank) :
     i \in {i \in Notes(d) : Placeholders(d[i].body) # << >> /\ ~Verified(d[i].body)}}

PatternMarkers(d, markers, code) ==
  {OfDraft(code, "medium", p) : p \in {p \in markers : Says(Whole(d), {p})}}

\* A marker in a paragraph that says nothing of its evidence.
Unsupported(d, markers, code, severity) ==
  {OfSection(d, f[1], code, severity, f[2]) :
     f \in {f \in Sections(d) \X markers :
              \E k \in DOMAIN d[f[1]].body :
                Says(<<d[f[1]].body[k]>>, {f[2]}) /\ ~Verified(<<d[f[1]].body[k]>>)}}

RecommendationWithoutEvidence(d) ==
  Unsupported(d, Evidence.recommendations, "recommendation-without-evidence", "medium")

\* Faulty variant: one verification anywhere in the section will do.
MedicalStatementInUnverifiedSection(d) ==
  {OfSection(d, f[1], "medical-statement-without-evidence", "high", f[2]) :
     f \in {f \in Sections(d) \X Evidence.medicalClaims :
              Says(d[f[1]].body, {f[2]}) /\ ~Verified(d[f[1]].body)}}

MedicalStatementWithoutEvidence(d) ==
  Unsupported(d, Evidence.medicalClaims, "medical-statement-without-evidence", "high")

MissingVerificationMarker(d) ==
  When(/\ Says(Whole(d), Evidence.factual \cup Evidence.recommendations \cup Evidence.manufacturer)
       /\ ~Verified(Whole(d)),
       OfDraft("missing-verification-marker", "medium", Blank))

DuplicateCitationPlaceholder(d) ==
  {OfDraft("duplicate-citation-placeholder", "medium", p) :
     p \in {p \in Evidence.placeholders : Count(Whole(d), {p}) > 1}}

\* Sections that share the heading of the notes are left out with them.
OrphanSourceReference(d) ==
  UNION {{OfDraft("orphan-source-reference", "medium", p) :
            p \in {p \in Evidence.placeholders :
                     /\ ~Says(d[n].body, {p})
                     /\ \E i \in Sections(d) : d[i].name # d[n].name /\ Says(d[i].body, {p})}} :
           n \in Notes(d)}

EvidenceFindings(d) ==
  UNION {UnresolvedSourcePlaceholder(d), MissingRequiredSourcePlaceholder(d),
         MissingRequiredSourceSection(d), MissingEvidenceNotes(d),
         PatternMarkers(d, Evidence.factual, "unsupported-factual-statement"),
         PatternMarkers(d, Evidence.manufacturer, "manufacturer-claim-indicator"),
         RecommendationWithoutEvidence(d), MedicalStatementWithoutEvidence(d),
         MissingVerificationMarker(d), DuplicateCitationPlaceholder(d),
         OrphanSourceReference(d)}

AnalyzeEvidence(d) == Distinct("evidence", EvidenceFindings(d))

=============================================================================
