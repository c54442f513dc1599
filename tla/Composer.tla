------------------------------ MODULE Composer ------------------------------
(***************************************************************************)
(* What the content composer says of an asset and a publisher: whether the *)
(* asset can be published, what a publisher cannot do with it, and what    *)
(* keeps the pair from being enqueued.                                     *)
(***************************************************************************)
EXTENDS ProviderConfig, SequencesExt

CONSTANTS
  Assets,         \* the assets of the project
  Slug,           \* asset -> the slug made of its file name, "unsafe" when it is none
  MaxAssets,      \* how many assets one bulk publication may name
  MaxPublishers   \* how many publishers it may name

ASSUME LimitsAssumption == MaxAssets \in Nat \ {0} /\ MaxPublishers \in Nat \ {0}

\* An asset: its status, its thumbnail ("none", "listed" as an artifact, "stored" as a file
\* too) and whether its metadata names tags and categories.
Asset(status, thumb) ==
  [status |-> status, thumb |-> thumb, tagged |-> FALSE, categorized |-> FALSE]

NoAsset == Asset("absent", "none")

Capabilities ==
  [wordpress |-> {"mediaUpload", "postCreation", "drafts", "tags", "categories",
                  "featuredImages"},
   ghost |-> {"mediaUpload", "postCreation", "drafts", "tags", "featuredImages"}]

Readiness(asset, slug) ==
  LET blockers == {b \in {"status", "slug"} :
                     IF b = "status" THEN asset.status # "ready" ELSE slug = "unsafe"}
  IN [ready |-> blockers = {}, blockers |-> blockers,
      warnings |-> IF asset.thumb = "none" THEN {"thumbnail"} ELSE {}]

Gaps(p, asset) ==
  {gap \in {"post creation", "media", "thumbnail", "tags", "categories"} :
     CASE gap = "post creation" -> "postCreation" \notin Capabilities[p]
       [] gap = "media" -> {"mediaUpload", "featuredImages"} \cap Capabilities[p] = {}
       [] gap = "thumbnail" -> "featuredImages" \in Capabilities[p] /\ asset.thumb = "none"
       [] gap = "tags" -> "tags" \in Capabilities[p] /\ ~asset.tagged
       [] OTHER -> "categories" \in Capabilities[p] /\ ~asset.categorized}

Incapable(gaps) == gaps \cap {"post creation", "media"}

Compatible(p, asset, env) == Enabled(p, env) /\ Incapable(Gaps(p, asset)) = {}

\* Whether a publisher is enabled follows what operators save; what is missing is looked up
\* in the environment the process was started with, under the first of two names.
MissingRequirements(p, base, env) ==
  LET missing == {v \in Requirements[p].required : base[v] = "none"}
  IN IF ~Enabled(p, env) /\ missing = {} THEN {"enabled"} ELSE missing

Validation(a, p, asset, base, env) ==
  IF asset = NoAsset
  THEN [ready |-> FALSE, messages |-> {"asset"}, missing |-> {}]
  ELSE IF p \notin Providers
  THEN [ready |-> FALSE, messages |-> Readiness(asset, Slug[a]).blockers \cup {"publisher"},
        missing |-> {"publisher"}]
  ELSE LET missing == MissingRequirements(p, base, env)
           messages == Readiness(asset, Slug[a]).blockers
                       \cup {m \in {"not enabled"} : ~Enabled(p, env)} \cup missing
       IN [ready |-> messages = {} /\ Incapable(Gaps(p, asset)) = {}, messages |-> messages,
           missing |-> missing]

\* The thumbnail is what is published: it must be an artifact and a file.
HasMedia(asset) == asset.thumb = "stored"

Unique(ids) ==
  FoldLeft(LAMBDA kept, id : IF id = "" \/ id \in ToSet(kept) THEN kept ELSE Append(kept, id),
           << >>, ids)

\* Why a bulk publication is refused as a whole.
BulkRefusal(assets, publishers) ==
  CASE assets = << >> -> "assets"
    [] publishers = << >> -> "publishers"
    [] Len(assets) > MaxAssets -> "too many assets"
    [] Len(publishers) > MaxPublishers -> "too many publishers"
    [] OTHER -> "none"

\* Only ready assets are offered.
Eligible(assets) == {a \in Assets : assets[a].status = "ready"}
=============================================================================
