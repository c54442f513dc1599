--------------------------- MODULE KnowledgeGraph ---------------------------
(***************************************************************************)
(* The commerce repository as a graph: its collections, the relations      *)
(* between their records, what an index over some of the collections       *)
(* holds, and how a context recipe walks it.                               *)
(*                                                                         *)
(* A file is a record: an identifier (0 when it has none), a slug (0 when  *)
(* it has none), whether it is named, the identifiers each of its fields   *)
(* refers to, what its name gives away ("path", "url") and its other       *)
(* fields with the kind of their value.                                    *)
(***************************************************************************)
EXTENDS Naturals, FiniteSets, SequencesExt

CONSTANTS
  Repositories,   \* what the commerce repository may hold: type -> set of files
  NodeLimit       \* maxNodes of every recipe

ASSUME NodeLimitIsPositive == NodeLimit \in Nat \ {0}

VARIABLE repository   \* what it does hold: nothing writes to it

EntityTypes ==
  {"brand", "product", "ingredient", "problem", "healing-stage", "piercing-type",
   "body-location", "material", "jewelry-type", "product-category", "keyword-cluster",
   "risk-level", "search-intent", "symptom", "affiliate-program", "content-asset", "template",
   "country"}

\* Loaded before the service is handed out; the others on demand.
EagerTypes == {"brand", "product"}

IsFile(file) ==
  /\ DOMAIN file = {"file", "id", "slug", "named", "links", "fault", "marks", "fields"}
  /\ file.id \in Nat /\ file.slug \in Nat
  /\ \A field \in DOMAIN file.links :
       file.links[field] \subseteq Nat /\ IsFiniteSet(file.links[field])
  /\ file.marks \subseteq {"path", "url"}

ASSUME RepositoriesHoldFiles ==
  \A content \in Repositories :
    /\ DOMAIN content = EntityTypes
    /\ \A type \in EntityTypes :
         IsFiniteSet(content[type]) /\ \A file \in content[type] : IsFile(file)

Relationship(source, relation, target, field) ==
  [name |-> <<source, relation>>, source |-> source, target |-> target, field |-> field]

Manifest ==
  {Relationship("brand", "products", "product", "products"),
   Relationship("product", "brand", "brand", "brand"),
   Relationship("product", "ingredients", "ingredient", "ingredients"),
   Relationship("product", "product-category", "product-category", "category"),
   Relationship("product", "healing-stages", "healing-stage", "healing_stages"),
   Relationship("problem", "symptoms", "symptom", "symptoms"),
   Relationship("problem", "related-products", "product", "related_products"),
   Relationship("problem", "related-ingredients", "ingredient", "related_ingredients"),
   Relationship("piercing-type", "common-problems", "problem", "common_problems"),
   Relationship("piercing-type", "healing-stages", "healing-stage", "healing_stages"),
   Relationship("keyword-cluster", "related-products", "product", "related_products"),
   Relationship("keyword-cluster", "related-brands", "brand", "related_brands"),
   Relationship("keyword-cluster", "related-problems", "problem", "related_problems"),
   Relationship("keyword-cluster", "related-piercing-types", "piercing-type",
                "related_piercing_types")}

Recipe(root, follow, required) == [root |-> root, follow |-> follow, required |-> required]

ContextRecipes ==
  [brandProfile |-> Recipe("brand",
     <<<<"brand", "products">>, <<"product", "product-category">>>>, {"brand", "product"}),
   productReview |-> Recipe("product",
     <<<<"product", "brand">>, <<"product", "ingredients">>, <<"product", "healing-stages">>,
       <<"product", "product-category">>>>,
     {"product", "brand", "ingredient", "healing-stage"}),
   productComparison |-> Recipe("product",
     <<<<"product", "brand">>, <<"product", "ingredients">>, <<"product", "product-category">>>>,
     {"product", "brand", "ingredient"}),
   problemGuide |-> Recipe("problem",
     <<<<"problem", "symptoms">>, <<"problem", "related-products">>,
       <<"problem", "related-ingredients">>>>, {"problem"}),
   aftercareGuide |-> Recipe("piercing-type",
     <<<<"piercing-type", "healing-stages">>, <<"piercing-type", "common-problems">>>>,
     {"piercing-type", "healing-stage"}),
   buyingGuide |-> Recipe("keyword-cluster",
     <<<<"keyword-cluster", "related-products">>, <<"keyword-cluster", "related-brands">>,
       <<"product", "ingredients">>, <<"product", "product-category">>>>, {"keyword-cluster"})]

MaxDepth == 2

-----------------------------------------------------------------------------
\* Collections and the index over them.

\* A file that cannot be opened, is a link, is too large or is not a mapping has a fault.
ReadableFile(file) == file.fault = "none"

HasIdentity(file) == file.id # 0 /\ file.named

\* One file that cannot be read or has no identity fails the collection.
Readable(type) == \A file \in repository[type] : ReadableFile(file) /\ HasIdentity(file)

Collection(type) ==
  {IF file.slug = 0 THEN [file EXCEPT !.slug = file.id] ELSE file : file \in repository[type]}

Ref(type, id) == [type |-> type, id |-> id]

Links(entity, field) == IF field \in DOMAIN entity.links THEN entity.links[field] ELSE {}

\* `held` counts how often a collection was added to what the adapter holds: an index
\* over it is refused when an identifier or a slug occurs twice within a type.
Indexable(held) ==
  \A type \in EntityTypes : held[type] > 0 =>
    /\ held[type] = 1 \/ Collection(type) = {}
    /\ \A e, f \in Collection(type) : e.id = f.id \/ e.slug = f.slug => e = f

\* What an index that covers these types answers for a reference.
Lookup(covered, ref) ==
  IF ref.type \in covered THEN {e \in Collection(ref.type) : e.id = ref.id} ELSE {}

FieldName(type) ==
  CASE type = "healing-stage" -> "healing_stage"
    [] type = "product-category" -> "product_category"
    [] OTHER -> type

IsForeignKey(relationship) == relationship.field \in {relationship.target, FieldName(relationship.target)}

\* The relations whose foreign keys are followed backwards for this one.
InversesOf(relationship) ==
  {inverse \in Manifest : /\ IsForeignKey(inverse)
                          /\ inverse.source = relationship.target
                          /\ inverse.target = relationship.source}

\* What the records of this reference name themselves.
ForwardTargets(covered, ref, relationship) ==
  UNION {Links(entity, relationship.field) : entity \in Lookup(covered, ref)}

Targets(covered, ref, relationship) ==
  ForwardTargets(covered, ref, relationship) \cup
  IF relationship.target \notin covered THEN {}
  ELSE {e.id : e \in {e \in Collection(relationship.target) :
                        \E inverse \in InversesOf(relationship) :
                          ref.id \in Links(e, inverse.field)}}

-----------------------------------------------------------------------------
\* The walk of a recipe from its root, breadth first, in the order of the references.

InOrder(ids) ==
  CHOOSE list \in [1..Cardinality(ids) -> ids] : \A i, j \in DOMAIN list : i < j => list[i] < list[j]

Following(recipe, type) ==
  LET places == InOrder({i \in DOMAIN recipe.follow : recipe.follow[i][1] = type})
  IN [i \in DOMAIN places |-> recipe.follow[places[i]]]

Named(name) == CHOOSE relationship \in Manifest : relationship.name = name

\* at: what is expanded.  todo: its relations not followed yet.
StartWalk(root) ==
  [at |-> [ref |-> root, depth |-> 0], todo |-> << >>, expanded |-> {}, nodes |-> {root},
   queue |-> <<[ref |-> root, depth |-> 0]>>, edges |-> {}, missing |-> {}, truncated |-> FALSE]

WalkIsOver(walk) == walk.truncated \/ (walk.queue = << >> /\ walk.todo = << >>)

VisitTooShallow(walk, recipe) ==
  LET item == Head(walk.queue)
      leads == item.ref \notin walk.expanded /\ item.depth < MaxDepth - 1
  IN [walk EXCEPT !.queue = Tail(@), !.expanded = @ \cup {item.ref}, !.at = item,
                  !.todo = IF leads THEN Following(recipe, item.ref.type) ELSE << >>]

\* The next reference of the queue; one met before, or at the last depth, leads no further.
Visit(walk, recipe) ==
  LET item == Head(walk.queue)
      leads == item.ref \notin walk.expanded /\ item.depth < MaxDepth
  IN [walk EXCEPT !.queue = Tail(@), !.expanded = @ \cup {item.ref}, !.at = item,
                  !.todo = IF leads THEN Following(recipe, item.ref.type) ELSE << >>]

\* An edge is recorded before the limit is tested, so the walk may end on an edge to a
\* node it leaves out.
Reach(walk, covered, relationship, id) ==
  LET to == Ref(relationship.target, id)
      edge == <<walk.at.ref, relationship.name, to>>
  IN IF walk.truncated THEN walk
     ELSE IF Lookup(covered, to) = {} THEN [walk EXCEPT !.missing = @ \cup {to}]
     ELSE IF Cardinality(walk.nodes) >= NodeLimit /\ to \notin walk.nodes
     THEN [walk EXCEPT !.edges = @ \cup {edge}, !.truncated = TRUE]
     ELSE [walk EXCEPT !.edges = @ \cup {edge}, !.nodes = @ \cup {to},
                       !.queue = IF to \in walk.expanded THEN @
                                 ELSE Append(@, [ref |-> to, depth |-> walk.at.depth + 1])]

\* The first of the relations left, all of its targets.
Follow(walk, covered) ==
  LET relationship == Named(Head(walk.todo))
      targets == InOrder(Targets(covered, walk.at.ref, relationship))
  IN FoldLeft(LAMBDA w, id : Reach(w, covered, relationship, id),
              [walk EXCEPT !.todo = Tail(@)], targets)

-----------------------------------------------------------------------------
\* Reference: what a recipe reaches in the repository, whatever has been loaded.

Step(recipe, refs) ==
  UNION {UNION {{Ref(Named(name).target, id) : id \in Targets(EntityTypes, ref, Named(name))} :
                name \in ToSet(Following(recipe, ref.type))} : ref \in refs}

Existing(refs) == {ref \in refs : Lookup(EntityTypes, ref) # {}}

\* One step from the root, and the second one: MaxDepth steps in all.
Near(recipe, root) == {root} \cup Existing(Step(recipe, {root}))

Reached(recipe, root) == Near(recipe, root) \cup Existing(Step(recipe, Near(recipe, root)))

Dangling(recipe, root) == Step(recipe, Near(recipe, root)) \ Reached(recipe, root)

=============================================================================
