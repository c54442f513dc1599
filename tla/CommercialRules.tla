--------------------------- MODULE CommercialRules ---------------------------
(***************************************************************************)
(* The commercial analyzer: one operator per rule, from a draft to the set *)
(* of its findings.                                                        *)
(***************************************************************************)
EXTENDS Drafts

CONSTANT Commercial     \* the commercial profile: sections, patterns, thresholds

-----------------------------------------------------------------------------

Disclosure(d) == FirstNamed(d, Commercial.disclosures)

\* A placeholder anywhere in the section undoes its markers.
HasResolvedDisclosure(d) ==
  \E i \in Disclosure(d) : /\ ~Says(d[i].body, Commercial.disclosurePlaceholders)
                           /\ Says(d[i].body, Commercial.disclosureMarkers)

AffiliateDisclosureMissing(d) ==
  LET code == "affiliate-disclosure-missing"
  IN  IF HasResolvedDisclosure(d) THEN {}
      ELSE IF Disclosure(d) = {} THEN {OfDraft(code, "high", Blank)}
      ELSE {Identified(OfSection(d, i, code, "high", Blank), <<Blank, Blank, 0>>) :
              i \in Disclosure(d)}

\* The place of a section is that of the first one with its heading.
AffiliateDisclosureMisplaced(d) ==
  {OfSection(d, i, "affiliate-disclosure-misplaced", "medium", Blank) :
     i \in {i \in Disclosure(d) :
              ~(IF Commercial.placement = "end" THEN i = Len(d) ELSE i <= 2)}}

AffiliateDisclosureDuplicate(d) ==
  When(Cardinality({i \in Headings(d) : d[i].name \in Commercial.disclosures}) > 1,
       OfDraft("affiliate-disclosure-duplicate", "medium", Blank))

CommercialRelationshipNotDisclosed(d) ==
  When(Says(Whole(d), Commercial.relationships) /\ ~HasResolvedDisclosure(d),
       OfDraft("commercial-relationship-not-disclosed", "high", Blank))

Alternatives(d) == FirstNamed(d, Commercial.alternatives)

Bullets(body) == Count(body, {"bullet"})

SingleProductBias(d) ==
  When(/\ Count(Whole(d), Commercial.biased) >= 2
       /\ \A i \in Alternatives(d) : Bullets(d[i].body) = 0,
       OfDraft("single-product-bias", "medium", Blank))

MissingAlternatives(d) ==
  When(Alternatives(d) = {}, OfDraft("missing-alternatives", "medium", "missing"))
  \cup {OfSection(d, i, "missing-alternatives", "medium", "insufficient") :
          i \in {i \in Alternatives(d) : Bullets(d[i].body) < Commercial.minAlternatives}}

\* The sections that must be there and say something; no aliases, no rule.
Wanting(d, aliases, code, severity) ==
  When(aliases # {} /\ \A i \in FirstNamed(d, aliases) : Words(d[i].body) = 0,
       OfDraft(code, severity, Blank))

MissingDisadvantages(d) == Wanting(d, Commercial.disadvantages, "missing-disadvantages", "medium")

MissingAdvantages(d) == Wanting(d, Commercial.advantages, "missing-advantages", "low")

MissingComparisonOpportunity(d) ==
  When(/\ Commercial.comparisons # {} /\ FirstNamed(d, Commercial.comparisons) = {}
       /\ \A i \in Alternatives(d) : Words(d[i].body) < Commercial.comparing,
       OfDraft("missing-comparison-opportunity", "medium", Blank))

\* Patterns a section must not hold unless it also says one of the excuses.
Unexcused(d, patterns, excuses, code, severity) ==
  {OfSection(d, f[1], code, severity, f[2]) :
     f \in {f \in Sections(d) \X patterns :
              Says(d[f[1]].body, {f[2]}) /\ ~Says(d[f[1]].body, excuses)}}

UnsupportedPurchaseRecommendation(d) ==
  Unexcused(d, Commercial.purchase, {}, "unsupported-purchase-recommendation", "medium")

OverlyPromotionalLanguage(d) ==
  {OfSection(d, i, "overly-promotional-language", "medium", Blank) :
     i \in {i \in Sections(d) : Count(d[i].body, Commercial.promotional) > Commercial.maxPromotional}}

CommercialCallToActionImbalance(d) ==
  When(Count(Whole(d), Commercial.callsToAction) > Commercial.maxCallsToAction,
       OfDraft("commercial-call-to-action-imbalance", "medium", Blank))

PriceMentionWithoutContext(d) ==
  Unexcused(d, Commercial.prices, {"price context"}, "price-mention-without-context", "low")

AvailabilityClaimWithoutQualification(d) ==
  Unexcused(d, Commercial.availability, {"qualified"},
            "availability-claim-without-qualification", "low")

SponsoredWordingIndicator(d) ==
  Unexcused(d, Commercial.sponsored, {}, "sponsored-wording-indicator", "medium")

MissingNeutralityStatement(d) ==
  When(/\ Commercial.neutrality # {}
       /\ Count(Whole(d), Commercial.promotional) > 0
       /\ Count(Whole(d), Commercial.neutrality) < 1,
       OfDraft("missing-neutrality-statement", "medium", Blank))

MissingProductSuitabilitySection(d) ==
  Wanting(d, Commercial.suitability, "missing-product-suitability-section", "medium")

MissingWhoShouldAvoidGuidance(d) ==
  Wanting(d, Commercial.avoidance, "missing-who-should-avoid-guidance", "medium")

MissingDecisionSupportInformation(d) ==
  Wanting(d, Commercial.decisionSupport, "missing-decision-support-information", "medium")

\* The ratio is a percentage of the advantages' words.
ImbalancedProsConsRatio(d) ==
  When(\E i \in FirstNamed(d, Commercial.advantages), j \in FirstNamed(d, Commercial.disadvantages) :
         100 * Words(d[j].body) < Commercial.minRatio * Words(d[i].body),
       OfDraft("imbalanced-pros-cons-ratio", "medium", Blank))

CommercialRepetition(d) ==
  {OfSection(d, i, "commercial-repetition", "low", Blank) :
     i \in {i \in Sections(d) : Count(d[i].body, Commercial.promotional) > Commercial.maxRepetition}}

CommercialFindings(d) ==
  UNION {AffiliateDisclosureMissing(d), AffiliateDisclosureMisplaced(d),
         AffiliateDisclosureDuplicate(d), CommercialRelationshipNotDisclosed(d),
         SingleProductBias(d), MissingAlternatives(d), MissingDisadvantages(d),
         MissingAdvantages(d), MissingComparisonOpportunity(d),
         UnsupportedPurchaseRecommendation(d), OverlyPromotionalLanguage(d),
         CommercialCallToActionImbalance(d), PriceMentionWithoutContext(d),
         AvailabilityClaimWithoutQualification(d), SponsoredWordingIndicator(d),
         MissingNeutralityStatement(d), MissingProductSuitabilitySection(d),
         MissingWhoShouldAvoidGuidance(d), MissingDecisionSupportInformation(d),
         ImbalancedProsConsRatio(d), CommercialRepetition(d)}

AnalyzeCommercial(d) == Distinct("commercial", CommercialFindings(d))

=============================================================================
