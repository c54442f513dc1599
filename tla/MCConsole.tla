----------------------------- MODULE MCConsole -----------------------------
(***************************************************************************)
(* Small consoles: two requests about three assets, one without its        *)
(* thumbnail and one not ready, in deployments with and without            *)
(* authentication.                                                         *)
(***************************************************************************)
EXTENDS Console

CONSTANTS r1, r2

MCRequests == {r1, r2}
MCSymmetry == Permutations(MCRequests)
MCAssets == {"a1", "a2", "a3"}
MCSlug == [a1 |-> "s1", a2 |-> "s2", a3 |-> "s3"]
MCStock ==
  [a1 |-> Asset("ready", "stored"), a2 |-> Asset("ready", "none"),
   a3 |-> Asset("processing", "stored")]
MCMaxAssets == 2
MCMaxPublishers == 1
MCSlots == 1
MCMaxViews == 1
MCMaxFaults == 1

WordPressOnly ==
  [v \in Vars |-> IF v \in Requirements.wordpress.required THEN "good" ELSE "none"]

GhostInput ==
  [v \in FieldsOf("ghost") |->
     IF v \in Requirements.ghost.required THEN "good" ELSE "none"]

WordPressInput ==
  [v \in FieldsOf("wordpress") |->
     CASE v = "WORDPRESS_APP_PASSWORD" -> "masked" [] v = "WORDPRESS_URL" -> "good"
       [] OTHER -> "none"]

Save(p, input) == [Call("configure") EXCEPT !.about = <<p>>, !.input = input]

MCCalls ==
  {Publishing("publish", <<"a1">>, <<"wordpress", "ghost">>),
   Publishing("publish", <<"a1">>, <<"">>),
   Publishing("bulk", <<"a2", "a1">>, <<"ghost">>),
   Publishing("bulk", <<"a1">>, <<"wordpress">>),
   Publishing("bulk", <<"a1">>, <<"ghost", "wordpress">>),
   [Publishing("schedule", <<"a1">>, <<"wordpress">>) EXCEPT !.when = "later"],
   [Publishing("schedule", <<"a1">>, <<"wordpress">>) EXCEPT !.when = "past"],
   Publishing("validate", <<"a3">>, <<"ghost">>),
   Call("timeline"), Call("events"),
   Save("ghost", GhostInput),
   Save("wordpress", WordPressInput)}

NoAuth == [enabled |-> FALSE, secret |-> "none", lifetime |-> 0, keys |-> {},
           keyRoles |-> << >>, jwtRole |-> "none", keyRole |-> "none"]

Keyed == [enabled |-> TRUE, secret |-> "secret", lifetime |-> 1, keys |-> {"k1", "k2"},
          keyRoles |-> [k1 |-> "publisher", k2 |-> "nobody"], jwtRole |-> "none",
          keyRole |-> "operator"]

Deployment(auth, role, key, redis) ==
  [auth |-> auth, production |-> auth.enabled, redis |-> redis, base |-> WordPressOnly,
   desk |-> [rbac |-> role # "none", role |-> role, key |-> key]]

MCDeployments ==
  {Deployment(NoAuth, "none", "none", TRUE), Deployment(Keyed, "publisher", "k2", TRUE),
   Deployment(NoAuth, "operator", "none", FALSE)}

Holder(key) == [token |-> NoToken, key |-> key]

Bearer(secret, key) == [token |-> SignedToken("author", "publisher", secret), key |-> key]

\* An author with a token, an operator with a key, and one whose token is not the API's but
\* who sends a good key with it.
MCCallers == {Bearer("secret", "none"), Holder("k2"), Bearer("guess", "k1")}
=============================================================================
