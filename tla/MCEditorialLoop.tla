-------------------------- MODULE MCEditorialLoop --------------------------
(* Profiles and drafts for TLC: every rule is met by some draft. *)
EXTENDS EditorialLoop

WordsOf == "q1" :> <<"rinse", "saline">> @@ "q2" :> <<"rinse", "saline", "daily">>

EditorialProfile ==
  [required |-> {[name |-> "guide", leading |-> TRUE, minWords |-> 1],
                 [name |-> "summary", leading |-> FALSE, minWords |-> 2]},
   minWords |-> 2, maxParagraph |-> 5, mergedTokens |-> {"merged a", "merged b"},
   gluedNames |-> {"glued"}, promotionalTone |-> {"promo"}, diagnosticTone |-> {"diagnosis"}]

EvidenceProfile ==
  [required |-> {[name |-> "sources"]}, notes |-> {"sources"}, placeholders |-> {"[source a]"},
   requiredPlaceholders |-> {"[source a]"}, resolved |-> [p \in {"[source a]"} |-> "record a"],
   verification |-> {"verified"}, factual |-> {"fact"}, manufacturer |-> {"claim"},
   recommendations |-> {"recommend"}, medicalClaims |-> {"medical a", "medical b"}]

SeoProfile ==
  [required |-> {[name |-> "summary", leading |-> FALSE]}, minWords |-> 2,
   offTopicTitles |-> {"tips"}, shortTitles |-> {"tips"}, longTitles |-> {"long guide"},
   metaSections |-> {"summary"}, metaCut |-> 5, metaMin |-> 2, metaMax |-> 3,
   entities |-> {"entity a"}, faqSections |-> {"faq"}, minFaq |-> 2, indirect |-> {"it depends"},
   internalTopics |-> {"aftercare"}, externalTopics |-> {"study"}, searchQuestions |-> {"q2"}]

AiSeoProfile ==
  [entities |-> [e \in {"entity a"} |-> {"entity a", "alias a"}], aliases |-> {"alias a"},
   pronouns |-> {"it"}, summaries |-> {"summary"}, directAnswers |-> {"rinse"},
   faqSections |-> {"faq"}, indirect |-> {"it depends"}, maxSection |-> 6, maxParagraph |-> 5,
   minWords |-> 2, briefSentences |-> {"brief"}, sourced |-> {"study"}, window |-> 3,
   manufacturer |-> {"claim"}, authoritative |-> {"authority"}, uncertainty |-> {"may vary"},
   audience |-> {"q1", "q2"}, contradictions |-> {<<"suits", "unsuits">>},
   vague |-> {"vague claim", "named vague claim"}, naming |-> {"named vague claim"},
   denseFrom |-> 4, minNamed |-> 1, filler |-> {"filler"}, unfriendly |-> {"many say"}]

CommercialProfile ==
  [disclosures |-> {"disclosure"}, disclosureMarkers |-> {"we earn"},
   disclosurePlaceholders |-> {"[disclosure]"}, placement |-> "beginning",
   relationships |-> {"partner"}, biased |-> {"only choice"}, alternatives |-> {"alternatives"},
   minAlternatives |-> 2, disadvantages |-> {"cons"}, advantages |-> {"pros"},
   comparisons |-> {"comparison"}, comparing |-> 3, purchase |-> {"buy this"},
   promotional |-> {"promo", "act now"}, maxPromotional |-> 2, callsToAction |-> {"buy now"},
   maxCallsToAction |-> 1, prices |-> {"price"}, availability |-> {"in stock"},
   sponsored |-> {"sponsored"}, neutrality |-> {"neutral"}, suitability |-> {"who it suits"},
   avoidance |-> {"who should avoid"}, decisionSupport |-> {"how to decide"}, minRatio |-> 50,
   maxRepetition |-> 3]

GenerationPolicy == [noDiagnosis |-> TRUE, affiliate |-> TRUE, uncertainty |-> FALSE,
                     citations |-> FALSE]

-----------------------------------------------------------------------------

Guide == Section("guide", 1, <<<<"entity a", "rinse">>>>)
Disclosure1 == Section("disclosure", 2, <<<<"we earn", "neutral">>>>)
Summary == Section("summary", 2, <<<<"rinse", "saline">>>>)
Sources == Section("sources", 2, <<<<"record a", "verified">>>>)

Complete == <<Guide, Disclosure1, Summary, Sources>>

\* A disclosure and sources still to be filled in, an opening that says little.
Unfinished ==
  <<Guide, Section("disclosure", 2, <<<<"[disclosure]">>>>), Section("summary", 2, <<<<"brief">>>>),
    Section("sources", 2, <<<<"[source a]">>>>)>>

\* Drafts that lack something.
Bases ==
  {Complete, Unfinished, <<Guide, Summary, Sources>>, <<Guide, Disclosure1, Sources>>,
   <<Guide, Disclosure1, Summary>>, <<Disclosure1, Sources>>, <<Disclosure1, Summary, Sources>>,
   <<[Guide EXCEPT !.name = "tips"], Disclosure1, Summary, Sources>>,
   <<[Guide EXCEPT !.name = "long guide"], Summary, Sources, Disclosure1>>}

Part(name, body) == Section(name, 2, body)

Extras ==
  {Section("another guide", 1, <<<<"rinse", "saline">>>>),
   Section("detail", 4, <<<<"rinse", "saline">>>>),
   Part("offers", <<<<"promo", "promo", "act now", "act now">>, <<"buy now", "buy now">>>>),
   Part("more offers", <<<<"promo", "act now", "promo">>>>),
   Part("health", <<<<"medical a", "saline">>>>),
   Part("risks", <<<<"medical a", "verified">>, <<"medical b", "medical a">>>>),
   Part("summary", <<<<"medical b", "saline">>>>),
   Part("claims", <<<<"claim", "fact", "recommend">>>>),
   Part("verdict", <<<<"it", "it", "it">>, <<"filler", "filler", "vague claim">>>>),
   Part("faq", <<<<"q1", "it depends">>, <<"q1", "saline">>>>),
   Part("faq", <<<<"q2", "saline">>>>),
   Part("opinion", <<<<"only choice", "only choice">>>>),
   Part("merged", <<<<"merged a", "merged b", "glued">>>>),
   Part("spacing", <<<<"camelCase", "unspaced">>>>),
   Part("shop", <<<<"aftercare", "study", "price", "in stock">>, <<"sponsored", "buy this">>>>),
   Part("alternatives", <<<<"bullet", "only choice", "only choice">>>>),
   Part("pros", <<<<"rinse", "saline", "daily">>>>),
   Part("cons", <<<<"daily">>>>),
   Part("limitations", <<<<"suits", "unsuits">>>>),
   Part("suitability", <<<<"suits", "limitation">>>>),
   Part("warnings", <<<<"unsuits", "partner">>>>),
   Part("lines", <<<<"malformed heading">>>>),
   Part("citations", <<<<"[source a]", "[source a]">>>>),
   Part("experts", <<<<"authority", "many say">>>>),
   Part("doubts", <<<<"authority", "may vary", "diagnosis">>>>),
   Part("essay", <<<<"brief", "saline", "saline", "saline", "long sentence", "rinse">>, <<"saline">>>>),
   Part("disclosure", <<<<"we earn">>>>),
   Part("empty", << >>),
   Part("leak", <<<<"secret">>>>)}

Flaws == {x \in Extras : x.name \in {"health", "offers", "warnings", "suitability"}}

Samples ==
  Bases \cup {Append(Complete, x) : x \in Extras} \cup {Complete \o <<x, y>> : x, y \in Flaws}
  \cup {Append(Unfinished, x) : x \in {x \in Extras : x.name \in {"claims", "warnings", "offers"}}}
  \cup {Complete \o <<x, y>> : x \in {x \in Extras : x.name = "pros"},
                               y \in {y \in Extras : y.name = "cons"}}
  \cup {<<Guide, Disclosure1, [Summary EXCEPT !.body = <<<<"saline", "saline", "rinse", "daily">>>>],
           Sources>>}
  \cup {<<Section("document-body", 0, << >>)>>}

Revisions == {Complete, Append(Complete, Part("merged", <<<<"merged a", "merged b">>>>))}

SelectionsMade == {{"high", "medium", "low"}, {"low"}}

EnabledOrder == <<"editorial", "evidence", "seo", "ai-seo", "commercial">>

\* Long sentences are allowed.
RulesOff ==
  [module \in DOMAIN Definitions |-> IF module = "editorial" THEN {"long-sentence"} ELSE {}]

CallerSymmetry == Permutations(Callers)

ASSUME EveryFindingHasARule ==
  \A d \in Samples : \A module \in DOMAIN Definitions : \A f \in FindingsOfModule(module, d) :
    f.code \in {definition.code : definition \in Definitions[module]}

\* A comparison of two reports in which nothing blocks any more is of a draft that is ready, or
\* asks for changes only; compared the other way round it tells new findings from resolved ones.
ASSUME ComparisonAgreesWithReadiness ==
  \A d \in Samples, e \in Revisions :
    LET there == CompareRevisionReports(Report(d), Report(e))
        back == CompareRevisionReports(Report(e), Report(d))
    IN  /\ back.blockingRemaining = 0 => PublicationReadiness(Report(d)) # "not-ready"
        /\ there.resolved = back.new /\ there.new = back.resolved

=============================================================================
