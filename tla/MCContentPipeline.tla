------------------------- MODULE MCContentPipeline -------------------------
(***************************************************************************)
(* Two runs, five repositories and seven requests for ContentPipeline.     *)
(***************************************************************************)
EXTENDS ContentPipeline

CONSTANTS r1, r2

MCRuns == {r1, r2}

Symmetry == Permutations(MCRuns)

File(name, id, links) ==
  [file |-> name, id |-> id, slug |-> 0, named |-> TRUE, links |-> links, fault |-> "none",
   marks |-> {}, fields |-> {}]

Plain(id) == File("plain", id, << >>)

Field(key, kind) == [key |-> key, kind |-> kind]

\* One brand with two products, the second known from the product's side only.
Holding(sets) == [type \in EntityTypes |-> IF type \in DOMAIN sets THEN sets[type] ELSE {}]

Sound ==
  ("brand" :> {File("b", 1, "products" :> {1})}) @@
  ("product" :> {File("p", 1, ("brand" :> {1}) @@ ("ingredients" :> {1, 2})
                                @@ ("category" :> {1}) @@ ("healing_stages" :> {1})),
                 File("q", 2, "brand" :> {1})}) @@
  ("ingredient" :> {Plain(1), [Plain(2) EXCEPT !.fields = {Field("status", "draft")}]}) @@
  ("product-category" :> {Plain(1)}) @@
  ("healing-stage" :> {Plain(1)}) @@
  ("symptom" :> {Plain(1)}) @@
  ("problem" :> {File("m", 1, ("symptoms" :> {1}) @@ ("related_products" :> {2}))})

MCRepositories ==
  {Holding(Sound),
   \* an ingredient that is not there
   Holding(("ingredient" :> {Plain(1)}) @@ Sound),
   \* two categories under one identifier
   Holding(("product-category" :> {Plain(1), File("again", 1, << >>)}) @@ Sound),
   \* a category that cannot be read, and a symptom without a name
   Holding(("product-category" :> {[Plain(1) EXCEPT !.fault = "link"]}) @@
           ("symptom" :> {[Plain(1) EXCEPT !.named = FALSE]}) @@ Sound),
   \* names and texts that give a path or a URL away
   Holding(("product-category" :> {[Plain(1) EXCEPT !.marks = {"url"}]}) @@
           ("symptom" :> {[Plain(1) EXCEPT
              !.fields = {Field("description", "text-with-path"), Field("website", "url"),
                          Field("review", "stale")}]}) @@ Sound)}

Request(recipe, content, type, id, strict) ==
  [recipe |-> recipe, content |-> content, root |-> Ref(type, id), strict |-> strict,
   format |-> "markdown"]

MCRequests ==
  {Request("brandProfile", "brandProfile", "brand", 1, FALSE),
   Request("productReview", "productReview", "product", 1, FALSE),
   Request("productComparison", "productComparison", "product", 1, TRUE),
   Request("problemGuide", "problemGuide", "problem", 1, TRUE),
   Request("problemGuide", "problemGuide", "product", 1, FALSE),
   Request("productReview", "problemGuide", "product", 1, FALSE),
   Request("brandProfile", "brandProfile", "brand", 7, FALSE)}

\* Two texts of one length, a third, and one that is not publishable.
Text(text, length, valid) == [text |-> text, length |-> length, valid |-> valid]

MCContents ==
  {Text("short", 1, TRUE), Text("other", 1, TRUE), Text("long", 2, TRUE), Text("raw", 1, FALSE)}

Delivery(created, decision, target, link, scheduled) ==
  [created |-> created, decision |-> decision, target |-> target, link |-> link,
   scheduled |-> scheduled]

MCDeliveries ==
  {Delivery("fixed", "approve", "fake", FALSE, FALSE),
   Delivery("clock", "approve-with-notes", "fake", FALSE, FALSE),
   Delivery("fixed", "approve", "other", FALSE, FALSE),
   Delivery("fixed", "approve", "fake", FALSE, TRUE),
   Delivery("clock", "approve", "fake", TRUE, FALSE),
   Delivery("clock", "request-changes", "fake", FALSE, FALSE),
   Delivery("clock", "reject", "fake", FALSE, FALSE),
   Delivery("old", "approve", "fake", FALSE, FALSE)}

=============================================================================
