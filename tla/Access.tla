------------------------------- MODULE Access -------------------------------
(***************************************************************************)
(* Who may do what: the permissions of the roles, the settings an API      *)
(* process reads when it starts, and what its guards make of the           *)
(* credential of a request.                                                *)
(***************************************************************************)
EXTENDS Integers, Sequences

Permissions ==
  {"dashboard:read", "metrics:read", "jobs:read", "assets:read", "publishers:read",
   "calendar:read", "composer:read", "composer:write", "publishing:write", "scheduling:write",
   "queue:read", "queue:write", "providers:read", "providers:write", "media:write",
   "activity:read", "notifications:read"}

Viewing ==
  {"dashboard:read", "metrics:read", "jobs:read", "assets:read", "activity:read",
   "notifications:read"}

RolePermissions ==
  [admin |-> Permissions,
   operator |-> Viewing \cup {"calendar:read", "composer:read", "composer:write",
                              "scheduling:write", "queue:read", "queue:write",
                              "providers:read", "media:write"},
   publisher |-> Viewing \cup {"publishers:read", "composer:read", "composer:write",
                               "publishing:write"},
   viewer |-> Viewing \cup {"publishers:read"}]

Roles == DOMAIN RolePermissions

Grants(role, permission) == permission \in RolePermissions[role]

-----------------------------------------------------------------------------
\* The settings.

DefaultRole(raw, fallback) == IF raw \in Roles THEN raw ELSE fallback

\* Entries that name no role are dropped.
KeyRoles(raw) == [key \in {k \in DOMAIN raw : raw[k] \in Roles} |-> raw[key]]

LoadedAuth(env) ==
  [enabled |-> env.enabled,
   secret |-> env.secret,
   lifetime |-> env.lifetime,
   jwt |-> env.enabled /\ env.secret # "none",
   apiKey |-> env.enabled /\ env.keys # {},
   keys |-> env.keys,
   keyRoles |-> KeyRoles(env.keyRoles),
   jwtRole |-> DefaultRole(env.jwtRole, "operator"),
   keyRole |-> DefaultRole(env.keyRole, "admin")]

\* What keeps a process from starting.
AuthErrors(config, production) ==
  {error \in {"disabled in production", "no method", "lifetime"} :
     CASE error = "disabled in production" -> ~config.enabled /\ production
       [] error = "no method" -> config.enabled /\ config.secret = "none" /\ ~config.apiKey
       [] OTHER -> config.enabled /\ config.lifetime < 1}

-----------------------------------------------------------------------------
\* A request's credential: the bearer token and the key it carries.

NoToken == [parts |-> 0, signedWith |-> "none", readable |-> FALSE, expired |-> FALSE,
            sub |-> "none", role |-> "none"]

\* What the API signs for a role; a secret that is not its own makes a forged one.
SignedToken(sub, role, secret) ==
  [NoToken EXCEPT !.parts = 3, !.signedWith = secret, !.readable = TRUE, !.sub = sub,
                  !.role = role]

SoundToken(token, secret) ==
  token.parts = 3 /\ token.signedWith = secret /\ token.readable /\ ~token.expired

Nobody == [id |-> "anonymous", role |-> "none"]

JwtRole(token, config) == DefaultRole(token.role, config.jwtRole)

ApiKeyRole(key, config) ==
  IF key \in DOMAIN config.keyRoles THEN config.keyRoles[key] ELSE config.keyRole

SameKey(incoming, expected) == incoming = expected

\* A token that is not sound is not excused by a key sent with it.
Authenticated(config, credential) ==
  IF config.jwt /\ credential.token # NoToken
  THEN IF SoundToken(credential.token, config.secret)
       THEN [id |-> credential.token.sub, role |-> JwtRole(credential.token, config)]
       ELSE Nobody
  ELSE IF config.apiKey /\ \E key \in config.keys : SameKey(credential.key, key)
       THEN [id |-> credential.key, role |-> ApiKeyRole(credential.key, config)]
       ELSE Nobody

\* What the guard of a route says; a route without one asks for no permission.
Verdict(config, credential, permission) ==
  IF ~config.enabled \/ permission = "none" THEN "pass"
  ELSE IF Authenticated(config, credential) = Nobody THEN "401"
  ELSE IF Grants(Authenticated(config, credential).role, permission) THEN "pass"
  ELSE "403"
=============================================================================
