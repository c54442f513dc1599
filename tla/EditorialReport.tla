--------------------------- MODULE EditorialReport ---------------------------
(***************************************************************************)
(* From a draft to what a reviewer is shown: the validation of generated   *)
(* content, the enabled analyzers, the deduplication between them, and the *)
(* readiness for publication.                                              *)
(***************************************************************************)
EXTENDS EditorialRules, SeoRules, CommercialRules, RuleRegistry

CONSTANTS
  Enabled,      \* the enabled analyzers, in the order of the profile
  SwitchedOff,  \* category -> the codes of the rules that are disabled in its registry
  Policy        \* what the policy of the generation asks for

Analyzers == {"editorial", "evidence", "seo", "ai-seo", "commercial"}

ASSUME EnabledAnalyzers == Enabled \in Seq(Analyzers)

-----------------------------------------------------------------------------
(* What generation returns. *)

Forbidden == {"secret", "absolute path", "unsafe html", "blocked metadata"}

SafetyWarnings(d) ==
  \/ Policy.noDiagnosis /\ Says(Whole(d), {"diagnosis"})
  \/ Policy.affiliate /\ Says(Whole(d), {"buy now"})
  \/ Policy.uncertainty /\ ~Says(Whole(d), {"may vary"})
  \/ Policy.citations /\ ~Says(Whole(d), Evidence.placeholders)

ValidateGeneratedContent(d) ==
  IF (Headings(d) = {} /\ Words(Bodies(d)) = 0) \/ Says(Whole(d), Forbidden) THEN "invalid"
  ELSE IF SafetyWarnings(d) THEN "generated-with-warnings"
  ELSE "generated"

-----------------------------------------------------------------------------
(* The findings of the analyzers and their owners. *)

\* The codes of the rules an analyzer runs: findings bear the code of their rule.
RulesRun ==
  [module \in DOMAIN Definitions |->
     LET rules == DefaultRegistry("generic", module)
         off == {rule \in rules : rule.code \in SwitchedOff[module]}
     IN Codes(ResolveEnabled(SetEnabled(rules, {rule.id : rule \in off}, FALSE), module))]

FindingsOfModule(module, d) ==
  CASE module = "editorial" -> AnalyzeEditorial(d)
    [] module = "evidence" -> AnalyzeEvidence(d)
    [] module = "seo" -> AnalyzeSeo(d)
    [] module = "ai-seo" -> AnalyzeAiSeo(d)
    [] module = "commercial" -> AnalyzeCommercial(d)

Analyze(module, d) == {f \in FindingsOfModule(module, d) : f.code \in RulesRun[module]}

RawFindings(d) == UNION {Analyze(module, d) : module \in ToSet(Enabled)}

Owner(code) ==
  CASE code \in {"missing-faq-section", "insufficient-faq-question-count",
                 "duplicate-faq-question", "duplicate-h1", "missing-h1",
                 "invalid-heading-hierarchy", "thin-content-section", "search-intent-gap"} -> "seo"
    [] code \in {"indirect-faq-answer", "incomplete-audience-question-coverage"} -> "ai-seo"
    [] code \in {"unresolved-source-placeholder", "missing-required-source-placeholder",
                 "missing-evidence-notes", "orphan-source-reference"} -> "evidence"
    [] code = "missing-required-section" -> "editorial"
    [] OTHER -> "nobody"

\* Codes of several analyzers that are about one thing, with the analyzer that keeps it.
SemanticGroups ==
  {<<"seo", {"thin-content-section", "section-too-thin-to-stand-alone"}>>,
   <<"ai-seo", {"missing-verification-marker", "low-source-transparency"}>>,
   <<"commercial", {"promotional-tone", "overly-promotional-language"}>>}

DocumentWide == {"promotional-tone", "overly-promotional-language"}

Place(f) == <<f.section, f.line>>

Modules(group) == {f.module : f \in group}

\* The owner's finding, or one of the analyzer that comes first; which of several of one
\* analyzer comes first is a matter of the order of their names, left open here.
Primary(group, owner) ==
  LET owned == {f \in group : f.module = owner}
      first == CHOOSE k \in DOMAIN Enabled :
                 /\ Enabled[k] \in Modules(group)
                 /\ \A j \in 1..(k - 1) : Enabled[j] \notin Modules(group)
  IN  CHOOSE f \in group : IF owned # {} THEN f \in owned ELSE f.module = Enabled[first]

\* What is left of the findings when every group of several analyzers keeps its primary.
Keep(findings, groups, OwnerOf(_)) ==
  findings \ UNION {g \ {Primary(g, OwnerOf(g))} : g \in {g \in groups : Cardinality(Modules(g)) > 1}}

Alike(findings, Same(_, _)) == {{g \in findings : Same(f, g)} : f \in findings}

\* Faulty variant: findings of one code are one finding wherever they are.
DedupeByCode(findings) ==
  Keep(findings, Alike(findings, LAMBDA f, g : f.code = g.code),
       LAMBDA group : Owner((CHOOSE f \in group : TRUE).code))

DedupeByLocation(findings) ==
  Keep(findings,
       Alike(findings, LAMBDA f, g : f.code = g.code /\ Place(f) = Place(g) /\ f.id = g.id),
       LAMBDA group : Owner((CHOOSE f \in group : TRUE).code))

DedupeBySemantics(findings, semantic) ==
  LET among == {f \in findings : f.code \in semantic[2]}
  IN  Keep(findings,
           Alike(among, LAMBDA f, g : semantic[2] \subseteq DocumentWide \/ Place(f) = Place(g)),
           LAMBDA group : semantic[1])

DedupeCrossModuleFindings(findings) ==
  FoldSet(LAMBDA semantic, kept : DedupeBySemantics(kept, semantic),
          DedupeByLocation(findings), SemanticGroups)

Report(d) == DedupeCrossModuleFindings(RawFindings(d))

IsBlocking(f) == f.severity = "high" /\ f.confidence = "high"

PublicationReadiness(report) ==
  IF \E f \in report : IsBlocking(f) THEN "not-ready"
  ELSE IF report # {} THEN "needs-revision"
  ELSE "ready-for-human-review"

=============================================================================
