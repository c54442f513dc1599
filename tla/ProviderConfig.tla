--------------------------- MODULE ProviderConfig ---------------------------
(***************************************************************************)
(* The configuration of the publishers: the environment of the process,    *)
(* the overlay operators save into, and what the loaders make of both.  A  *)
(* value is absent ("none"), one its loader accepts ("good"), one it       *)
(* rejects ("bad"), or the placeholder a masked secret is shown as.        *)
(***************************************************************************)
EXTENDS Integers, FiniteSets

Requirements ==
  [wordpress |-> [required |-> {"WORDPRESS_URL", "WORDPRESS_USERNAME", "WORDPRESS_APP_PASSWORD"},
                  optional |-> {"WORDPRESS_REQUEST_TIMEOUT_MS"}],
   ghost |-> [required |-> {"GHOST_URL", "GHOST_ADMIN_API_KEY"},
              optional |-> {"GHOST_REQUEST_TIMEOUT_MS"}]]

Providers == DOMAIN Requirements

FieldsOf(p) == Requirements[p].required \cup Requirements[p].optional

Vars == (UNION {FieldsOf(p) : p \in Providers}) \cup {"WORDPRESS_BASE_URL"}

Secrets == {"WORDPRESS_APP_PASSWORD", "GHOST_ADMIN_API_KEY"}

Values == {"none", "good", "bad", "masked"}

NoVars == [v \in Vars |-> "none"]

Or(value, fallback) == IF value # "none" THEN value ELSE fallback

-----------------------------------------------------------------------------
\* The loaders.  What a loader accepts the strict validation only warns about.

LoadsWordPress(env) ==
  /\ Or(env["WORDPRESS_URL"], env["WORDPRESS_BASE_URL"]) = "good"
  /\ env["WORDPRESS_USERNAME"] # "none"
  /\ env["WORDPRESS_APP_PASSWORD"] # "none"
  /\ env["WORDPRESS_REQUEST_TIMEOUT_MS"] \in {"none", "good"}

LoadsGhost(env) ==
  /\ env["GHOST_URL"] = "good"
  /\ env["GHOST_ADMIN_API_KEY"] = "good"
  /\ env["GHOST_REQUEST_TIMEOUT_MS"] \in {"none", "good"}

Enabled(p, env) == IF p = "wordpress" THEN LoadsWordPress(env) ELSE LoadsGhost(env)

Valid(p, env) == Enabled(p, env)

-----------------------------------------------------------------------------
\* The overlay.

NoOverrides == [p \in Providers |-> NoVars]

Merged(base, overrides) ==
  [v \in Vars |-> Or(overrides["ghost"][v], Or(overrides["wordpress"][v], base[v]))]

\* The address of a WordPress site may come from the older of its two names.
FieldValues(p, env) ==
  [v \in FieldsOf(p) |->
     IF v = "WORDPRESS_URL" THEN Or(env[v], env["WORDPRESS_BASE_URL"]) ELSE env[v]]

\* As if the placeholder of a secret were saved like any other value.
KeepsOnlyOmitted(v, value) == value = "none"

KeepsExisting(v, value) == value = "none" \/ (v \in Secrets /\ value = "masked")

\* What validation looks at before anything is saved.
Preview(p, env, input) ==
  LET values == FieldValues(p, env)
      filled == [v \in Vars |->
                   IF v \notin FieldsOf(p) THEN env[v]
                   ELSE IF KeepsExisting(v, input[v]) THEN Or(values[v], env[v])
                   ELSE input[v]]
  IN IF p = "wordpress" /\ filled["WORDPRESS_URL"] # "none"
     THEN [filled EXCEPT !["WORDPRESS_BASE_URL"] = filled["WORDPRESS_URL"]]
     ELSE filled

UpdateIsValid(p, env, input) == Valid(p, Preview(p, env, input))

\* Saving fixes what was in effect, so that a value once saved no longer follows the
\* environment.
MergeUpdate(p, overrides, env, input) ==
  LET values == FieldValues(p, env)
      Fixed(v) == Or(overrides[p][v], IF v \in FieldsOf(p) THEN values[v] ELSE "none")
  IN [overrides EXCEPT ![p] =
        [v \in Vars |->
           IF v \in FieldsOf(p) /\ ~KeepsExisting(v, input[v]) THEN input[v] ELSE Fixed(v)]]

-----------------------------------------------------------------------------
\* What is shown of it.

FieldShown(v, value) ==
  CASE value = "none" -> "not set"
    [] v \in Secrets -> "masked"
    [] OTHER -> value

ConfigurationStatus(p, env) ==
  LET values == FieldValues(p, env)
  IN CASE Enabled(p, env) -> "complete"
       [] \A v \in Requirements[p].required : values[v] = "none" -> "missing"
       [] OTHER -> "partial"

ConfigShown(p, env) ==
  [status |-> ConfigurationStatus(p, env), enabled |-> Enabled(p, env),
   fields |-> [v \in FieldsOf(p) |-> FieldShown(v, FieldValues(p, env)[v])]]

\* The form is filled in with what is shown.
FormInput(p, env) ==
  [v \in FieldsOf(p) |->
     IF ConfigShown(p, env).fields[v] = "not set" THEN "none" ELSE ConfigShown(p, env).fields[v]]

\* A provider that does not load is down without being asked; one that does is asked for
\* its own account or site, and is down too when that does not answer.
WordPressHealth(env) == IF LoadsWordPress(env) THEN BOOLEAN ELSE {FALSE}

GhostHealth(env) == IF LoadsGhost(env) THEN BOOLEAN ELSE {FALSE}

Healths(p, env) == IF p = "wordpress" THEN WordPressHealth(env) ELSE GhostHealth(env)
=============================================================================
