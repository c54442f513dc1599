---------------------------- MODULE ContentPlan ----------------------------
(***************************************************************************)
(* The generation plan of a request: which requests are refused before the *)
(* repository is read, what the context of a walk lacks, what of it enters *)
(* the prompt, and the warnings a plan that is not refused carries.        *)
(***************************************************************************)
EXTENDS KnowledgeGraph

PromptRecipe(recipe, bound) == [recipe |-> recipe, bound |-> bound]

\* Content type -> the context recipe it needs, and the types its sections show beside
\* the root.
PromptRecipes ==
  [brandProfile |-> PromptRecipe("brandProfile", {"product", "product-category"}),
   productReview |-> PromptRecipe("productReview",
     {"brand", "ingredient", "healing-stage", "product-category"}),
   productComparison |-> PromptRecipe("productComparison",
     {"brand", "ingredient", "product-category"}),
   problemGuide |-> PromptRecipe("problemGuide", {"symptom", "product", "ingredient"}),
   aftercareGuide |-> PromptRecipe("aftercareGuide", {"healing-stage", "problem"}),
   buyingGuide |-> PromptRecipe("buyingGuide",
     {"product", "brand", "ingredient", "product-category"})]

BlockedFields ==
  {"template_path", "sourcePath", "source_path", "repoPath", "raw", "_raw", "__proto__"}

PolicyBlockedFields == {"affiliate", "source_notes"}

SummaryFields ==
  {"description", "summary", "category", "status", "ingredients", "healing_stages",
   "recommended_for", "not_recommended_for", "symptoms", "common_problems", "related_products",
   "related_ingredients", "related_brands", "related_problems", "related_piercing_types",
   "product_categories", "body_location", "search_intent", "trust", "review",
   "preservative_free", "sterile", "drug_free", "available_sizes", "entity_type", "website",
   "founded", "headquarters"}

\* A value that is a path or a URL as a whole.
BlockedKinds == {"path", "url"}

\* Draft and stale are what a status and a review field say; a path inside a text is
\* neither recognised nor removed.
Project(entity) ==
  [entity EXCEPT !.fields = {f \in @ : /\ f.key \in SummaryFields \ (BlockedFields \cup PolicyBlockedFields)
                                       /\ f.kind \notin BlockedKinds}]

-----------------------------------------------------------------------------
\* Refusals before the repository is asked.

Refusal(request) ==
  IF request.recipe \notin DOMAIN ContextRecipes THEN "unsupported-context-recipe"
  ELSE IF request.content \notin DOMAIN PromptRecipes THEN "unsupported-content-type"
  ELSE IF PromptRecipes[request.content].recipe # request.recipe
       THEN "incompatible-recipe-content"
  ELSE "none"

-----------------------------------------------------------------------------
\* The context of a walk that is over.

Entities(walk) ==
  [ref \in walk.nodes |-> Project(CHOOSE e \in Collection(ref.type) : e.id = ref.id)]

MissingRequired(request, walk) ==
  ContextRecipes[request.recipe].required \ {ref.type : ref \in walk.nodes}

ContextWarnings(request, walk) ==
  (IF walk.missing = {} THEN {} ELSE {"missing-reference"}) \cup
  (IF MissingRequired(request, walk) = {} THEN {} ELSE {"missing-required-type"}) \cup
  (IF walk.truncated THEN {"truncated"} ELSE {})

PromptWarnings(request, walk) ==
  (IF MissingRequired(request, walk) = {} THEN {} ELSE {"missing-required-context"}) \cup
  (IF walk.truncated THEN {"context-truncated"} ELSE {}) \cup
  (IF ContextWarnings(request, walk) = {} THEN {} ELSE {"context-incomplete"})

Carries(walk, key, kind) ==
  \E ref \in walk.nodes : [key |-> key, kind |-> kind] \in Entities(walk)[ref].fields

DraftWarnings(walk) ==
  IF \E key \in {"status", "review"} : Carries(walk, key, "draft")
  THEN {"draft-knowledge-entity"} ELSE {}

\* The fields that could hold source notes are projected away before.
SourceWarnings(walk) ==
  IF \E ref \in walk.nodes : \E f \in Entities(walk)[ref].fields :
       f.key \in {"sources", "source_notes"}
  THEN {} ELSE {"missing-source-notes"}

StaleWarnings(walk) ==
  IF Carries(walk, "review", "stale") THEN {"stale-review-date"} ELSE {}

-----------------------------------------------------------------------------
\* The prompt: the root and the entities its sections are bound to, by name and fields.

Shown(request, walk) ==
  {ref \in walk.nodes : \/ ref = request.root
                        \/ ref.type \in PromptRecipes[request.content].bound}

\* What the payload says of the walk.  It warns of what is missing; where a strict request
\* would make it throw instead, the plan has been refused before.
Prompt(request, walk) ==
  [entities |-> {Entities(walk)[ref] : ref \in Shown(request, walk)},
   warnings |-> PromptWarnings(request, walk)]

\* Names are never projected, and of the fields only whole values are.
ShowsPath(prompt) ==
  \E entity \in prompt.entities :
    \/ "path" \in entity.marks
    \/ \E f \in entity.fields : f.kind = "text-with-path"

ShowsUrl(prompt) == \E entity \in prompt.entities : "url" \in entity.marks

PlanWarnings(request, walk) ==
  ContextWarnings(request, walk) \cup Prompt(request, walk).warnings \cup
  DraftWarnings(walk) \cup SourceWarnings(walk) \cup StaleWarnings(walk)

\* Why the plan of a walk that is over is refused, in the order of the tests.
PlanRefusal(request, walk) ==
  IF request.strict /\ MissingRequired(request, walk) # {} THEN "missing-required-context"
  ELSE IF request.strict /\ walk.truncated THEN "truncated-context-strict"
  ELSE IF ShowsPath(Prompt(request, walk)) THEN "unsafe-recipe-policy"
  ELSE "none"

ContextComplete(request, walk) == MissingRequired(request, walk) = {} /\ ~walk.truncated

Plan(request, walk) ==
  [code |-> PlanRefusal(request, walk), nodes |-> walk.nodes, missing |-> walk.missing,
   truncated |-> walk.truncated, warnings |-> PlanWarnings(request, walk),
   complete |-> ContextComplete(request, walk), url |-> ShowsUrl(Prompt(request, walk))]

Refused(code) ==
  [code |-> code, nodes |-> {}, missing |-> {}, truncated |-> FALSE, warnings |-> {code},
   complete |-> FALSE, url |-> FALSE]

=============================================================================
