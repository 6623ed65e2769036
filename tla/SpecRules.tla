------------------------------ MODULE SpecRules ------------------------------
(***************************************************************************)
(* Who judges an AppSpec, and how:                                         *)
(*   the JSON schema, compiled into the command line and the dashboard;    *)
(*   validate() of crates/wta/src/spec.rs, after the schema in load();     *)
(*   what `wta analyze` and `wta build` ask besides (commands.rs,          *)
(*   project.rs), and the draft that `wta init` writes;                    *)
(*   semanticIssues() of packages/app-spec, after the schema;              *)
(*   the API, which asks this of what is posted, and the policy pack;      *)
(*   the desktop shell (config.rs) and the Android one (MainActivity).     *)
(* Each rule is a predicate, true where the code reports no issue.         *)
(***************************************************************************)
EXTENDS AppSpec

Claimed(spec) == {d.host : d \in {x \in spec.ownership.domains : x.form = "exact"}}

-----------------------------------------------------------------------------
(* Seeded faults.                                                          *)

AnySpelling(t) == Parses(t)
NotAsked(spec) == TRUE
ClaimsCount(spec) == Claimed(spec)
SameHost(u, v) == u.host = v.host
DisplayNameLimit == 80

-----------------------------------------------------------------------------
(* Where a URL may lead.                                                   *)

SecureHttpsUrl(t) == Parses(t) /\ t.url.scheme = "https" /\ ~t.url.creds

LocalName(labels) ==
  LET n == Len(labels) IN
  \/ labels[n] \in {"localhost", "local"}
  \/ n > 1 /\ labels[n] = "internal"
  \/ n > 2 /\ labels[n - 1] = "home" /\ labels[n] = "arpa"

PublicIPv4(o) ==
  ~ \/ o[1] \in {0, 10, 127} \cup 224..255
    \/ o[1] = 169 /\ o[2] = 254
    \/ o[1] = 172 /\ o[2] \in 16..31
    \/ o[1] = 192 /\ o[2] = 168
    \/ o[1] = 100 /\ o[2] \in 64..127
    \/ o[1] = 192 /\ o[2] = 0 /\ o[3] \in {0, 2}
    \/ o[1] = 198 /\ o[2] \in {18, 19}
    \/ o[1] = 198 /\ o[2] = 51 /\ o[3] = 100
    \/ o[1] = 203 /\ o[2] = 0 /\ o[3] = 113

(* ::ffff:a.b.c.d is judged as a.b.c.d. The ranges are fc00::/7, fe80::/10 *)
(* and ff00::/8; 2001:db8::/32 is for documentation.                       *)
PublicIPv6(s) ==
  IF (\A i \in 1..5 : s[i] = 0) /\ s[6] = 65535
  THEN PublicIPv4(<<s[7] \div 256, s[7] % 256, s[8] \div 256, s[8] % 256>>)
  ELSE ~ \/ (\A i \in 1..7 : s[i] = 0) /\ s[8] \in {0, 1}
         \/ s[1] \in (64512..65023) \cup (65152..65215) \cup (65280..65535)
         \/ s[1] = 8193 /\ s[2] = 3512

PublicTarget(h) ==
  CASE h.kind = "name" -> ~LocalName(h.labels)
    [] h.kind = "ipv4" -> PublicIPv4(h.octets)
    [] h.kind = "ipv6" -> PublicIPv6(h.segments)

-----------------------------------------------------------------------------
(* app-spec-v1.schema.json, but for "format": the command line's validator *)
(* takes a format for an annotation, ajv asserts it (UriFormats).          *)

HttpsText(t) == t.url.scheme = "https"
HttpsOrigin(t) == HttpsText(t) /\ t.form \in {"origin", "bare", "broken"}

IdentifierLeads ==
  [android |-> {"lower"}, linux |-> {"lower"}, ios |-> {"lower", "upper"},
   macos |-> {"lower", "upper"}, windows |-> {"lower", "upper", "digit"}]
IdentifierMarks ==
  [android |-> {"_"}, linux |-> {"-"}, ios |-> {"upper", "-"},
   macos |-> {"upper", "-"}, windows |-> {"upper", "-"}]

SchemaIdentifier(p, id) ==
  /\ id.len \in 3..(IF p = "windows" THEN 50 ELSE 255)
  /\ id.marks \subseteq IdentifierMarks[p]
  /\ IF p = "windows"
     THEN id.leads[1] \in IdentifierLeads[p]
     ELSE Len(id.leads) > 1 /\ \A i \in DOMAIN id.leads : id.leads[i] \in IdentifierLeads[p]

MaxBuildNumber == 2147483647

SchemaIdentity(i) ==
  /\ i.displayName \in 1..120
  /\ i.slug.len \in 1..50 /\ i.slug.form = "plain"
  /\ i.version = "semver" /\ i.buildNumber > 0 /\ i.buildNumber <= MaxBuildNumber
  /\ Enabled(i.ids) # {}
  /\ \A p \in Platform : \A id \in i.ids[p] : SchemaIdentifier(p, id)

SchemaNavigation(n) ==
  /\ \A t \in n.allowed \cup n.oauth : HttpsOrigin(t)
  /\ n.mode = "none" <=> n.items = {}
  /\ \A i \in n.items : HttpsText(i.url)

SchemaCapabilities(c) ==
  /\ \A n \in Capability : c.switch[n].shape = "toggle"
  /\ c.switch["push"].on => c.endpoint # {}

SchemaTarget(p, t) ==
  /\ t.shape = "target"
  /\ p = "android" => t.minSdk \in 26..100 /\ t.targetApi \in 26..100
  /\ p \in {"windows", "macos", "linux"} => t.arch # {}
  /\ "universal" \in t.arch => p = "macos"

(* Every URL of the document but the origins and the start.                *)
Links(spec) ==
  {spec.branding.icon, spec.compliance.privacy, spec.compliance.support}
  \cup spec.compliance.deletion

Schema(spec) ==
  /\ spec.schemaVersion = "1.0"
  /\ SchemaIdentity(spec.identity)
  /\ IF spec.source.kind = "url" THEN HttpsText(spec.source.start)
                                 ELSE spec.source.digest = "sha256"
  /\ \A d \in spec.ownership.domains : d.form # "other" /\ d.host.kind # "ipv6"
  /\ spec.ownership.records > 0
  /\ spec.branding.colors = "hex"
  /\ \A t \in Links(spec) \cup spec.branding.splash \cup spec.capabilities.endpoint :
       HttpsText(t)
  /\ SchemaNavigation(spec.navigation)
  /\ SchemaCapabilities(spec.capabilities)
  /\ Enabled(spec.targets) # {}
  /\ \A p \in Platform : \A t \in spec.targets[p] : SchemaTarget(p, t)
  /\ spec.compliance.rating \in {"4+", "9+", "12+", "17+"}

(* The texts that the schema says are in the format of a URI.              *)
UriTexts(spec) ==
  Links(spec) \cup spec.branding.splash \cup spec.capabilities.endpoint
  \cup spec.navigation.allowed \cup spec.navigation.oauth
  \cup {i.url : i \in spec.navigation.items}
  \cup {t \in {spec.source.start} : spec.source.kind = "url"}

UriFormats(spec) == \A t \in UriTexts(spec) : "ajv" \in t.readers

-----------------------------------------------------------------------------
(* spec.rs: validate(), and load().                                        *)

ValidPlatformIdentifier(id) ==
  /\ Len(id.leads) > 1 /\ id.len <= 255
  /\ \A i \in DOMAIN id.leads : id.leads[i] \in {"lower", "upper"}
  /\ id.marks \subseteq {"upper", "_"}

ValidSlug(s) == s.len \in 1..63 /\ s.form \in {"plain", "double"}

ValidateIdentity(i) ==
  /\ i.displayName \in 1..80 /\ ValidSlug(i.slug)
  /\ i.version \in {"semver", "suffix"} /\ i.buildNumber > 0
  /\ \A p \in Platform : \A id \in i.ids[p] : ValidPlatformIdentifier(id)

ValidateWebUrl(t) == SecureHttpsUrl(t) /\ PublicTarget(t.url.host)

ValidateSource(s) ==
  IF s.kind = "url" THEN ValidateWebUrl(s.start) ELSE s.digest = "sha256"

ValidateOwnership(o) ==
  \A d \in o.domains : d.form = "exact" /\ d.host.kind # "ipv6" /\ PublicTarget(d.host)

(* The text without its trailing slashes is the origin.                    *)
SpelledAsOrigin(t) == t.form \in {"origin", "slashed"}

ExactOrigin(t) ==
  /\ SecureHttpsUrl(t) /\ t.url.extras = {} /\ SpelledAsOrigin(t)
  /\ PublicTarget(t.url.host)

StartIncluded(spec) ==
  \E t \in spec.navigation.allowed :
    ExactOrigin(t) /\ Origin(t.url) = Origin(spec.source.start.url)

ValidateNavigation(spec) ==
  /\ \A t \in spec.navigation.allowed \cup spec.navigation.oauth : ExactOrigin(t)
  /\ (spec.source.kind = "url" /\ SecureHttpsUrl(spec.source.start)) => StartIncluded(spec)
  /\ spec.navigation.mode = "none" => spec.navigation.items = {}

ValidateCapabilities(c) == \A n \in Capability : c.switch[n].shape # "junk"

ValidateTargets(ts) ==
  Enabled(ts) # {} /\ \A p \in Platform : \A t \in ts[p] : t.shape # "junk"

Validate(spec) ==
  /\ spec.schemaVersion = "1.0"
  /\ ValidateIdentity(spec.identity)
  /\ ValidateSource(spec.source)
  /\ ValidateOwnership(spec.ownership)
  /\ spec.branding.colors = "hex"
  /\ \A t \in Links(spec) : ValidateWebUrl(t)
  /\ ValidateNavigation(spec)
  /\ ValidateCapabilities(spec.capabilities)
  /\ ValidateTargets(spec.targets)
  /\ spec.compliance.rating # "blank"

Loads(spec) == spec.size # "over" /\ Schema(spec) /\ Validate(spec)

CapabilityEnabled(s) == s.shape # "junk" /\ s.on
AnyEnabled(c) == \E n \in Capability : CapabilityEnabled(c.switch[n])

-----------------------------------------------------------------------------
(* wta analyze, wta build.                                                 *)

(* What analyze reports as required, of a specification that loads. The    *)
(* first finding is always there.                                          *)
Required(spec) ==
  {"offline_evidence_missing"}
  \cup {f \in {"unverified"} : /\ spec.source.kind = "url"
                               /\ spec.source.start.url.host \notin Claimed(spec)}
  \cup {f \in {"native_value_missing"} : /\ spec.navigation.mode = "none"
                                         /\ ~AnyEnabled(spec.capabilities)}
  \cup {f \in {"age_rating_unset"} : spec.compliance.rating = "unrated"}

Analyze(spec) == IF Required(spec) = {} THEN "ready" ELSE "changes_required"

(* --target windows-dev.                                                   *)
BuildsManifest(spec) ==
  Loads(spec) /\ "windows" \in Enabled(spec.targets) \cap Enabled(spec.identity.ids)

(* --target windows-project; args.acknowledge and args.force are options.  *)
CheckPreview(spec, args) ==
  /\ args.acknowledge /\ ~args.force
  /\ spec.source.kind = "url"
  /\ spec.release.channel = "internal" /\ spec.release.update = "manual"
  /\ ~AnyEnabled(spec.capabilities)
  /\ spec.navigation.mode = "none" /\ spec.navigation.oauth = {}
  /\ spec.navigation.external = "block"
  /\ Enabled(spec.targets) = {"windows"}
  /\ \A t \in spec.targets["windows"] : t.arch = {"x64"}

-----------------------------------------------------------------------------
(* wta init. A name is its words: maximal runs of ASCII letters and digits *)
(* (trimmed of what is around them), and whether a digit comes first.      *)

Name == [chars : Nat, words : Seq(Nat \ {0}), digitFirst : BOOLEAN]

(* Who reads the URL as it is serialised, and who the rest of its site.    *)
DraftArgs ==
  [name : Name, url : Text, base : Identifier,
   startReaders : SUBSET Reader, siteReaders : SUBSET Reader]

SlugLimit == 63

(* Where each word ends in the slug, were it not cut.                      *)
WordEnds(words) ==
  LET end[i \in DOMAIN words] == IF i = 1 THEN words[1] ELSE end[i - 1] + 1 + words[i]
  IN end

SlugLen(name) ==
  LET n == Len(name.words)
      end == WordEnds(name.words)
  IN IF n = 0 THEN 0
     ELSE IF end[n] <= SlugLimit THEN end[n]
     ELSE IF \E i \in 1..(n - 1) : end[i] = SlugLimit - 1 THEN SlugLimit - 1 ELSE SlugLimit

(* The letters and digits of the slug: what is left without its hyphens.   *)
SlugLetters(name) ==
  LET end == WordEnds(name.words)
      Hyphens[i \in 0..Len(name.words)] ==
        IF i = 0 THEN 0
        ELSE Hyphens[i - 1] + IF end[i] < SlugLen(name) THEN 1 ELSE 0
  IN SlugLen(name) - Hyphens[Len(name.words)]

DraftIdentifier(args) ==
  [len |-> args.base.len + 1 + SlugLetters(args.name),
   leads |-> Append(args.base.leads, IF args.name.digitFirst THEN "digit" ELSE "lower"),
   marks |-> args.base.marks]

InitAccepts(args) ==
  /\ args.name.chars \in 1..80
  /\ ValidateWebUrl(args.url)
  /\ ValidPlatformIdentifier(args.base)
  /\ SlugLen(args.name) > 0
  /\ ValidPlatformIdentifier(DraftIdentifier(args))

DraftRating == "17+"

(* The start as Url::to_string gives it, its origin, and pages under it.   *)
Draft(args) ==
  LET u == args.url.url
      start == [form |-> IF u.extras = {} THEN "slashed" ELSE "normal", url |-> u,
                readers |-> args.startReaders]
      origin == [form |-> "origin", url |-> [u EXCEPT !.extras = {}],
                 readers |-> args.siteReaders]
      page == [form |-> "normal", url |-> [u EXCEPT !.extras = {"path"}],
               readers |-> args.siteReaders]
  IN [size |-> "small", schemaVersion |-> "1.0",
      identity |->
        [displayName |-> args.name.chars,
         slug |-> [len |-> SlugLen(args.name), form |-> "plain"],
         version |-> "semver", buildNumber |-> 1,
         ids |-> [p \in Platform |->
                    IF p = "windows" THEN {DraftIdentifier(args)} ELSE {}]],
      source |-> [kind |-> "url", start |-> start, digest |-> "other"],
      ownership |-> [domains |-> {}, records |-> 0],
      branding |-> [colors |-> "hex", icon |-> page, splash |-> {}],
      navigation |->
        [allowed |-> {origin}, oauth |-> {}, external |-> "system",
         mode |-> "none", items |-> {}],
      capabilities |->
        [switch |-> [c \in Capability |-> [shape |-> "toggle", on |-> FALSE]],
         endpoint |-> {}],
      targets |->
        [p \in Platform |->
           {t \in {[shape |-> "target", arch |-> {"x64"}, minSdk |-> 0, targetApi |-> 0]} :
              p = "windows"}],
      compliance |->
        [privacy |-> page, support |-> page, deletion |-> {}, account |-> FALSE,
         rating |-> DraftRating],
      release |-> [channel |-> "internal", update |-> "manual"]]

-----------------------------------------------------------------------------
(* packages/app-spec: semanticIssues() after the schema.                   *)

CanonicalOrigin(t) == SecureHttpsUrl(t) /\ t.form = "origin"

(* Is the origin of u, as a string, in the list of allowed origins?        *)
InAllowed(spec, u) ==
  \E t \in spec.navigation.allowed : t.form = "origin" /\ Origin(t.url) = Origin(u)

SemanticItems(spec) ==
  /\ \A i, j \in spec.navigation.items : i.id = j.id => i = j
  /\ \A i \in spec.navigation.items : SecureHttpsUrl(i.url) /\ InAllowed(spec, i.url.url)

SemanticTargets(spec) ==
  /\ Enabled(spec.targets) = Enabled(spec.identity.ids)
  /\ \A t \in spec.targets["android"] : t.minSdk <= t.targetApi
  /\ \A t \in spec.targets["macos"] : "universal" \in t.arch => t.arch = {"universal"}

SemanticPush(spec) ==
  spec.capabilities.switch["push"].on =>
    \A t \in spec.capabilities.endpoint : t.url.host \in Claimed(spec)

Semantic(spec) ==
  /\ \A t \in spec.navigation.allowed : CanonicalOrigin(t) /\ t.url.host \in Claimed(spec)
  /\ \A t \in spec.navigation.oauth : CanonicalOrigin(t)
  /\ spec.source.kind = "url" =>
       /\ SecureHttpsUrl(spec.source.start)
       /\ InAllowed(spec, spec.source.start.url)
       /\ spec.source.start.url.host \in Claimed(spec)
  /\ \A t \in Links(spec) \cup spec.branding.splash \cup spec.capabilities.endpoint :
       SecureHttpsUrl(t)
  /\ SemanticPush(spec) /\ SemanticItems(spec) /\ SemanticTargets(spec)

ValidAppSpec(spec) == Schema(spec) /\ UriFormats(spec) /\ Semantic(spec)

(* POST /v1/app-spec/validate has a limit on the body: 256 KiB.            *)
DashboardAccepts(spec) == spec.size = "small" /\ ValidAppSpec(spec)

-----------------------------------------------------------------------------
(* The policy pack: in effect, for a release to a store, of a valid        *)
(* specification. The rules on URLs and origins then find nothing.         *)

(* The hosts that the ownership rule wants verified.                       *)
PolicyHosts(spec) ==
  {t.url.host : t \in spec.navigation.allowed
                 \cup {s \in {spec.source.start} : spec.source.kind = "url"}
                 \cup {e \in spec.capabilities.endpoint : spec.capabilities.switch["push"].on}}

NativeValue(spec) == spec.navigation.mode # "none" \/ AnyEnabled(spec.capabilities)

(* The API passes no verified domain: those of the document are claims.    *)
Evidence(spec) == {}

Findings(spec) ==
  {f \in {"ownership.verified"} : ~(PolicyHosts(spec) \subseteq Evidence(spec))}
  \cup {f \in {"store.native-value"} : ~NativeValue(spec)}
  \cup {f \in {"compliance.public-urls"} :
          spec.compliance.account /\ spec.compliance.deletion = {}}
  \cup {f \in {"android.target-api"} :
          \E t \in spec.targets["android"] : t.targetApi < 36}

Classification(spec) == IF Findings(spec) = {} THEN "ready" ELSE "changes_required"

-----------------------------------------------------------------------------
(* The shells. Neither looks at the schema: a resource need not be valid.  *)
(* The desktop shell reads a resource of any size, and its URLs as the     *)
(* command line does.                                                      *)

SameOrigin(u, v) == Origin(u) = Origin(v)

(* config.rs: is_navigation_allowed() and validate().                      *)
NavigationAllowed(spec, u) ==
  /\ u.scheme = "https" /\ ~u.creds
  /\ \E t \in spec.navigation.allowed :
       SecureHttpsUrl(t) /\ t.url.extras = {} /\ SameOrigin(t.url, u)

RuntimeAccepts(spec) ==
  /\ spec.source.kind = "url" /\ Parses(spec.source.start)
  /\ spec.schemaVersion = "1.0"
  /\ \A t \in spec.navigation.allowed : t.form = "origin" /\ t.url.host \in Claimed(spec)
  /\ NavigationAllowed(spec, spec.source.start.url)

(* OriginPolicy.kt: has the text an origin? That is the host's, without a  *)
(* port.                                                                   *)
AndroidOrigin(t) == SecureHttpsUrl(t) /\ "java" \in t.readers /\ t.url.port = 443

AndroidPolicy(spec) ==
  /\ spec.navigation.allowed # {}
  /\ \A t \in spec.navigation.allowed :
       AndroidOrigin(t) /\ t.form = "origin" /\ t.url.host \in Claimed(spec)

AndroidAllows(spec, t) == AndroidOrigin(t) /\ InAllowed(spec, t.url)

(* MainActivity.kt: onCreate(), as far as the policy.                      *)
AndroidAccepts(spec) ==
  /\ spec.size = "small"
  /\ spec.schemaVersion = "1.0" /\ spec.source.kind = "url"
  /\ AndroidPolicy(spec)
  /\ AndroidAllows(spec, spec.source.start)
=============================================================================
