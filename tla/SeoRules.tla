------------------------------ MODULE SeoRules ------------------------------
(***************************************************************************)
(* The SEO and the AI-SEO analyzer: one operator per rule, from a draft to *)
(* the set of its findings.                                                *)
(***************************************************************************)
EXTENDS Drafts

CONSTANTS
  Seo,          \* the SEO profile
  AiSeo         \* the AI-SEO profile

-----------------------------------------------------------------------------
(* SEO. *)

Title(d) == {i \in Titles(d) : \A j \in Titles(d) : i <= j}

MissingH1(d) == When(Titles(d) = {}, OfHeading(1, "missing-h1", "high", Blank, 0))

SeoDuplicateH1(d) ==
  {OfHeading(i, "duplicate-h1", "high", Blank, 0) :
     i \in {i \in Titles(d) : Cardinality({j \in Titles(d) : j < i}) = 1}}

SeoHeadingHierarchy(d) ==
  {OfHeading(i, "invalid-heading-hierarchy", "medium", Blank, i) :
     i \in {i \in Headings(d) \ {1} : d[i].level > d[i - 1].level + 1}}

\* A rule on the text of the title, which is "" when there is none.
TitleIn(d, bad, code, severity) ==
  IF Title(d) = {} THEN When(Blank \in bad, OfDraft(code, severity, Blank))
  ELSE {OfHeading(i, code, severity, Blank, 0) : i \in {i \in Title(d) : d[i].name \in bad}}

WeakTitleKeywordCoverage(d) ==
  TitleIn(d, Seo.offTopicTitles, "weak-title-keyword-coverage", "medium")

TitleTooShort(d) == TitleIn(d, Seo.shortTitles \cup {Blank}, "title-too-short", "high")

TitleTooLong(d) == TitleIn(d, Seo.longTitles, "title-too-long", "medium")

\* The length of the candidate description: the builder has cut it already.
MetaDescription(d) ==
  LET lengths == {Words(d[i].body) : i \in FirstNamed(d, Seo.metaSections)}
  IN  IF lengths = {} THEN 0 ELSE Min(lengths \cup {Seo.metaCut})

MetaRule(d, lengths, code) == When(MetaDescription(d) \in lengths, OfDraft(code, "medium", Blank))

MissingMetaDescriptionCandidate(d) == MetaRule(d, {0}, "missing-meta-description-candidate")

MetaDescriptionTooShort(d) ==
  MetaRule(d, 1..(Seo.metaMin - 1), "meta-description-too-short")

MetaDescriptionTooLong(d) ==
  MetaRule(d, (Seo.metaMax + 1)..Seo.metaCut, "meta-description-too-long")

MissingRequiredTopicEntity(d) ==
  {OfDraft("missing-required-topic-entity", "medium", e) :
     e \in {e \in Seo.entities : ~Says(Whole(d), {e})}}

ThinContentSection(d) ==
  {OfLines(d, i, "thin-content-section", "medium", Blank) :
     i \in {i \in Sections(d) : Words(d[i].body) \in 1..(Seo.minWords - 1)}}

Faq(d) == FirstNamed(d, Seo.faqSections)

MissingFaqSection(d) == When(Faq(d) = {}, OfDraft("missing-faq-section", "medium", Blank))

InsufficientFaqQuestionCount(d) ==
  {OfSection(d, i, "insufficient-faq-question-count", "medium", Blank) :
     i \in {i \in Faq(d) : Cardinality(Entries(d[i].body)) < Seo.minFaq}}

DuplicateFaqQuestion(d) ==
  UNION {{OfEntry(d, i, k, "duplicate-faq-question", "medium", Blank) :
            k \in {k \in Entries(d[i].body) :
                     \E j \in Entries(d[i].body) :
                       j < k /\ d[i].body[j][1] = d[i].body[k][1]}} :
           i \in Faq(d)}

IndirectAnswers(d, faq, patterns) ==
  UNION {{OfEntry(d, i, at[1], "indirect-faq-answer", "low", at[2]) :
            at \in {at \in Entries(d[i].body) \X patterns :
                      Says(<<Tail(d[i].body[at[1]])>>, {at[2]})}} :
           i \in faq}

SeoIndirectFaqAnswer(d) == IndirectAnswers(d, Faq(d), Seo.indirect)

\* Topics a section speaks of without the link it should carry.
Unlinked(d, topics, link, code, severity) ==
  {OfLines(d, f[1], code, severity, f[2]) :
     f \in {f \in Sections(d) \X topics :
              Says(d[f[1]].body, {f[2]}) /\ ~Says(d[f[1]].body, {link})}}

MissingInternalLinkOpportunity(d) ==
  Unlinked(d, Seo.internalTopics, "internal link", "missing-internal-link-opportunity", "low")

MissingExternalCitationOpportunity(d) ==
  Unlinked(d, Seo.externalTopics, "external link", "missing-external-citation-opportunity",
           "medium")

\* The significant words a text holds, its questions' included.
Significant(body) ==
  LET p == ToSet(Phrases(body)) IN p \cup UNION {ToSet(Intents[q]) : q \in p \cap DOMAIN Intents}

\* At least a share of percent of the words of the question, rounded up.
Covers(body, q, percent) ==
  100 * Cardinality(ToSet(Intents[q]) \cap Significant(body))
    >= percent * Cardinality(ToSet(Intents[q]))

SearchIntentGap(d) ==
  {OfDraft("search-intent-gap", "medium", q) :
     q \in {q \in Seo.searchQuestions :
              /\ Intents[q] # << >>
              /\ ~Covers(Whole(d), q, 60)
              /\ \A i \in Faq(d) : \A k \in Entries(d[i].body) :
                   ~Covers(<<<<d[i].body[k][1]>>>>, q, 50)}}

SeoMissingRequiredSection(d) ==
  {OfSection(<<[name |-> s.name]>>, 1, "missing-required-section", "high", Blank) :
     s \in {s \in Seo.required : ~Matched(d, s)}}

SeoFindings(d) ==
  UNION {MissingH1(d), SeoDuplicateH1(d), SeoHeadingHierarchy(d), WeakTitleKeywordCoverage(d),
         TitleTooShort(d), TitleTooLong(d), MissingMetaDescriptionCandidate(d),
         MetaDescriptionTooShort(d), MetaDescriptionTooLong(d), MissingRequiredTopicEntity(d),
         ThinContentSection(d), MissingFaqSection(d), InsufficientFaqQuestionCount(d),
         DuplicateFaqQuestion(d), SeoIndirectFaqAnswer(d), MissingInternalLinkOpportunity(d),
         MissingExternalCitationOpportunity(d), SearchIntentGap(d),
         SeoMissingRequiredSection(d)}

AnalyzeSeo(d) == Distinct("seo", SeoFindings(d))

-----------------------------------------------------------------------------
(* AI-SEO. *)

\* The rules that look at one section at a time.
InSections(d, Flawed(_), code, severity) ==
  {OfSection(d, i, code, severity, Blank) : i \in {i \in Sections(d) : Flawed(d[i])}}

Names(body) == UNION {AiSeo.entities[e] : e \in {e \in DOMAIN AiSeo.entities :
                                                   Says(body, AiSeo.entities[e])}}

IncompleteCanonicalEntityCoverage(d) ==
  {OfDraft("incomplete-canonical-entity-coverage", "medium", e) :
     e \in {e \in DOMAIN AiSeo.entities : ~Says(Whole(d), AiSeo.entities[e])}}

AmbiguousEntityReference(d) ==
  {OfLines(d, i, "ambiguous-entity-reference", "medium", Blank) :
     i \in {i \in Sections(d) : /\ AiSeo.aliases # {}
                                /\ Count(d[i].body, AiSeo.pronouns) >= 2
                                /\ ~Says(d[i].body, AiSeo.aliases)}}

ExcessivePronounWithoutAntecedent(d) ==
  InSections(d, LAMBDA s : Count(s.body, AiSeo.pronouns) >= 3 /\ Names(s.body) = {},
             "excessive-pronoun-without-antecedent", "medium")

MissingDirectAnswerOpening(d) ==
  {OfLines(d, i, "missing-direct-answer-opening", "medium", Blank) :
     i \in {i \in FirstNamed(d, AiSeo.summaries) :
              /\ AiSeo.directAnswers # {}
              /\ 1 \notin First(d[i].body, AiSeo.directAnswers)}}

AiSeoIndirectFaqAnswer(d) == IndirectAnswers(d, FirstNamed(d, AiSeo.faqSections), AiSeo.indirect)

PoorSectionChunkability(d) ==
  InSections(d, LAMBDA s : /\ Words(s.body) > AiSeo.maxSection
                           /\ \E k \in DOMAIN s.body : Len(s.body[k]) > AiSeo.maxParagraph,
             "poor-section-chunkability", "medium")

SectionTooLongForRetrieval(d) ==
  InSections(d, LAMBDA s : Words(s.body) > AiSeo.maxSection,
             "section-too-long-for-retrieval", "medium")

SectionTooThinToStandAlone(d) ==
  InSections(d, LAMBDA s : Words(s.body) \in 1..(AiSeo.minWords - 1),
             "section-too-thin-to-stand-alone", "medium")

\* An empty body opens with no words at all.
MissingHeadingLedContext(d) ==
  InSections(d, LAMBDA s : /\ s.level > 0
                           /\ Words(s.body) = 0 \/ 1 \in First(s.body, AiSeo.briefSentences),
             "missing-heading-led-context", "medium")

\* Markers that nothing near them qualifies.
Unqualified(d, markers, Qualified(_, _), code, severity) ==
  {OfSection(d, f[1], code, severity, f[2]) :
     f \in {f \in Sections(d) \X markers :
              Says(d[f[1]].body, {f[2]}) /\ ~Qualified(d[f[1]].body, {f[2]})}}

Hedged(body, marker) == Near(body, marker, AiSeo.uncertainty, AiSeo.window, AiSeo.window)

LowSourceTransparency(d) ==
  Unqualified(d, AiSeo.sourced, Hedged, "low-source-transparency", "medium")

MissingManufacturerVersusVerifiedLabeling(d) ==
  Unqualified(d, AiSeo.manufacturer,
              LAMBDA body, marker : \/ Hedged(body, marker)
                                    \/ Near(body, marker, {"verified"}, 0, AiSeo.window),
              "missing-manufacturer-versus-verified-labeling", "medium")

UnsupportedAuthoritativePhrasing(d) ==
  Unqualified(d, AiSeo.authoritative, Hedged, "unsupported-authoritative-phrasing", "high")

IncompleteAudienceQuestionCoverage(d) ==
  {OfDraft("incomplete-audience-question-coverage", "medium", q) :
     q \in {q \in AiSeo.audience :
              \/ Intents[q] = << >>
              \/ /\ ~Covers(Whole(d), q, 60)
                 /\ \A i \in FirstNamed(d, AiSeo.faqSections) : \A k \in Entries(d[i].body) :
                      ~Covers(<<d[i].body[k]>>, q, 50)}}

\* Of the profile alone: two questions whose first two significant words are the same.
DuplicatedQuestionCoverage(d) ==
  LET bucket(q) == SubSeq(Intents[q], 1, Min({2, Len(Intents[q])}))
  IN  {OfDraft("duplicated-question-coverage", "low", Blank) :
         q \in {q \in AiSeo.audience : \E other \in AiSeo.audience \ {q} :
                  bucket(q) = bucket(other) /\ bucket(q) # << >>}}

ContradictorySuitabilityOrLimitation(d) ==
  LET code == "contradictory-suitability-or-limitation"
      both(i, pair) == Says(d[i].body, {pair[1]}) /\ Says(d[i].body, {pair[2]})
      negatives(pair) == {i \in Sections(d) : Says(d[i].body, {pair[2]})}
      open(pair) == /\ \A i \in Sections(d) : ~both(i, pair)
                    /\ \E i \in Sections(d) : Says(d[i].body, {pair[1]})
  IN  {OfSection(d, f[1], code, "high", f[2][1]) :
         f \in {f \in Sections(d) \X AiSeo.contradictions : both(f[1], f[2])}}
      \cup {Identified(OfSection(d, Min(negatives(pair)), code, "high", pair[1]),
                     <<pair[1], "document", 0>>) :
              pair \in {pair \in AiSeo.contradictions : open(pair) /\ negatives(pair) # {}}}

\* The first sentence that makes the claim names nothing.
VagueClaimWithoutNamedSubject(d) ==
  InSections(d, LAMBDA s : \E k \in First(s.body, AiSeo.vague) :
                             Phrases(s.body)[k] \notin AiSeo.naming,
             "vague-claim-without-named-subject", "medium")

Capitalized == {"entity a", "entity b", "named vague claim"}

LowFactualDensity(d) ==
  InSections(d, LAMBDA s : /\ Words(s.body) >= AiSeo.denseFrom
                           /\ Count(s.body, Capitalized) < AiSeo.minNamed,
             "low-factual-density", "medium")

ExcessiveFillerLanguage(d) ==
  InSections(d, LAMBDA s : Count(s.body, AiSeo.filler) >= 2, "excessive-filler-language", "low")

CitationUnfriendlyStatement(d) ==
  Unqualified(d, AiSeo.unfriendly, LAMBDA body, marker : FALSE,
              "citation-unfriendly-statement", "medium")

MissingExplicitUncertaintyLanguage(d) ==
  InSections(d, LAMBDA s : /\ AiSeo.uncertainty # {}
                           /\ s.name = "limitations" \/ Says(s.body, {"limitation"})
                           /\ ~Says(s.body, AiSeo.uncertainty),
             "missing-explicit-uncertainty-language", "medium")

AiSeoFindings(d) ==
  UNION {IncompleteCanonicalEntityCoverage(d), AmbiguousEntityReference(d),
         ExcessivePronounWithoutAntecedent(d), MissingDirectAnswerOpening(d),
         AiSeoIndirectFaqAnswer(d), PoorSectionChunkability(d), SectionTooLongForRetrieval(d),
         SectionTooThinToStandAlone(d), MissingHeadingLedContext(d), LowSourceTransparency(d),
         MissingManufacturerVersusVerifiedLabeling(d), UnsupportedAuthoritativePhrasing(d),
         IncompleteAudienceQuestionCoverage(d), DuplicatedQuestionCoverage(d),
         ContradictorySuitabilityOrLimitation(d), VagueClaimWithoutNamedSubject(d),
         LowFactualDensity(d), ExcessiveFillerLanguage(d), CitationUnfriendlyStatement(d),
         MissingExplicitUncertaintyLanguage(d)}

AnalyzeAiSeo(d) == Distinct("ai-seo", AiSeoFindings(d))

=============================================================================
