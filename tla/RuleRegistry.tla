---------------------------- MODULE RuleRegistry ----------------------------
(***************************************************************************)
(* The rules of the analyzers: what each analyzer registers, what a        *)
(* registry refuses, and which rules an analyzer runs.  A rule's titles    *)
(* and descriptions are left out, and so is the order a registry lists its *)
(* rules in: the findings are sorted afterwards.                           *)
(***************************************************************************)
EXTENDS Naturals, Sequences, SequencesExt

Categories ==
  {"editorial", "evidence", "seo", "ai-seo", "commercial", "affiliate", "knowledge",
   "publication", "performance", "media", "business"}

\* Rules of one analyzer within a category.
Listed(analyzer, group, codes) ==
  {[analyzer |-> analyzer, group |-> group, code |-> code] : code \in codes}

EditorialDefinitions ==
  Listed("structure", "structure-quality",
         {"missing-required-section", "duplicate-h1", "invalid-heading-hierarchy",
          "repeated-section-heading", "malformed-markdown-heading"})
  \cup Listed("readability", "readability-quality",
              {"thin-section", "long-paragraph", "long-sentence"})
  \cup Listed("formatting", "formatting-quality", {"formatting-corruption"})
  \cup Listed("tone", "tone-quality", {"promotional-tone", "diagnostic-tone"})

EvidenceDefinitions ==
  Listed("structure", "evidence-structure", {"missing-required-source-section"})
  \cup Listed("citation-readiness", "citation-quality",
              {"missing-required-source-placeholder", "unresolved-source-placeholder",
               "missing-evidence-notes", "duplicate-citation-placeholder",
               "orphan-source-reference"})
  \cup Listed("citation-readiness", "verification-quality", {"missing-verification-marker"})
  \cup Listed("factual-grounding", "claim-quality",
              {"unsupported-factual-statement", "manufacturer-claim-indicator",
               "recommendation-without-evidence", "medical-statement-without-evidence"})

SeoDefinitions ==
  Listed("structure", "seo-structure",
         {"missing-h1", "duplicate-h1", "invalid-heading-hierarchy", "missing-required-section"})
  \cup Listed("keywords", "seo-metadata", {"weak-title-keyword-coverage"})
  \cup Listed("metadata", "seo-metadata",
              {"title-too-short", "title-too-long", "missing-meta-description-candidate",
               "meta-description-too-short", "meta-description-too-long"})
  \cup Listed("entities", "seo-coverage", {"missing-required-topic-entity"})
  \cup Listed("content-depth", "seo-coverage", {"thin-content-section"})
  \cup Listed("faq", "seo-faq",
              {"missing-faq-section", "insufficient-faq-question-count",
               "duplicate-faq-question", "indirect-faq-answer"})
  \cup Listed("links", "seo-links", {"missing-internal-link-opportunity"})
  \cup Listed("citations", "seo-links", {"missing-external-citation-opportunity"})
  \cup Listed("intent", "seo-intent", {"search-intent-gap"})

AiSeoDefinitions ==
  Listed("entities", "ai-seo-entities",
         {"incomplete-canonical-entity-coverage", "ambiguous-entity-reference"})
  \cup Listed("clarity", "ai-seo-clarity",
              {"excessive-pronoun-without-antecedent", "vague-claim-without-named-subject",
               "excessive-filler-language"})
  \cup Listed("answer-precision", "ai-seo-answers", {"missing-direct-answer-opening"})
  \cup Listed("faq", "ai-seo-answers", {"indirect-faq-answer"})
  \cup Listed("chunking", "ai-seo-chunking",
              {"poor-section-chunkability", "section-too-long-for-retrieval",
               "section-too-thin-to-stand-alone", "missing-heading-led-context"})
  \cup Listed("citations", "ai-seo-citations",
              {"low-source-transparency", "citation-unfriendly-statement"})
  \cup Listed("grounding", "ai-seo-grounding",
              {"missing-manufacturer-versus-verified-labeling", "unsupported-authoritative-phrasing",
               "missing-explicit-uncertainty-language"})
  \cup Listed("intent", "ai-seo-intent",
              {"incomplete-audience-question-coverage", "duplicated-question-coverage"})
  \cup Listed("consistency", "ai-seo-consistency", {"contradictory-suitability-or-limitation"})
  \cup Listed("density", "ai-seo-density", {"low-factual-density"})

CommercialDefinitions ==
  Listed("disclosure", "commercial-disclosure",
         {"affiliate-disclosure-missing", "affiliate-disclosure-misplaced",
          "affiliate-disclosure-duplicate", "commercial-relationship-not-disclosed",
          "sponsored-wording-indicator"})
  \cup Listed("neutrality", "commercial-neutrality",
              {"single-product-bias", "overly-promotional-language",
               "commercial-call-to-action-imbalance", "missing-neutrality-statement",
               "imbalanced-pros-cons-ratio", "commercial-repetition"})
  \cup Listed("structure", "commercial-structure",
              {"missing-alternatives", "missing-disadvantages", "missing-advantages",
               "missing-comparison-opportunity", "missing-product-suitability-section",
               "missing-who-should-avoid-guidance", "missing-decision-support-information"})
  \cup Listed("recommendations", "commercial-recommendations",
              {"unsupported-purchase-recommendation"})
  \cup Listed("claims", "commercial-claims",
              {"price-mention-without-context", "availability-claim-without-qualification"})

Definitions ==
  [editorial |-> EditorialDefinitions, evidence |-> EvidenceDefinitions, seo |-> SeoDefinitions,
   commercial |-> CommercialDefinitions] @@ "ai-seo" :> AiSeoDefinitions

-----------------------------------------------------------------------------

\* A rule is identified by the scope of its registry, its category, analyzer and code; one that
\* is given no identifier shares its own with every other such rule.
RuleId(scope, category, definition) ==
  IF scope = "none" THEN <<"pending">>
  ELSE <<scope, category, definition.analyzer, definition.code>>

DefaultRule(scope, category, definition) ==
  [id |-> RuleId(scope, category, definition), category |-> category, group |-> definition.group,
   code |-> definition.code, enabled |-> TRUE]

IsRule(rule) == rule.category \in Categories /\ rule.enabled \in BOOLEAN

\* Why a registry that holds the rules does not take one more.
Refuses(rules, rule) ==
  \/ ~IsRule(rule)
  \/ \E other \in rules : \/ other.id = rule.id
                          \/ other.category = rule.category /\ other.code = rule.code

DefaultRegistry(scope, category) ==
  {DefaultRule(scope, category, definition) : definition \in Definitions[category]}

\* A registry is made of its rules one after the other: each of them must be accepted.
ASSUME DefaultRegistriesAreMade ==
  \A category \in DOMAIN Definitions :
    LET rules == DefaultRegistry("generic", category)
    IN \A rule \in rules : ~Refuses(rules \ {rule}, rule)

SetEnabled(rules, ids, enabled) ==
  {IF rule.id \in ids THEN [rule EXCEPT !.enabled = enabled] ELSE rule : rule \in rules}

ResolveEnabled(rules, category) == {rule \in rules : rule.enabled /\ rule.category = category}

Codes(rules) == {rule.code : rule \in rules}
=============================================================================
