---------------------------- MODULE PreviewProofs ----------------------------
(***************************************************************************)
(* What is proved of the way from a draft to a window, for every set of    *)
(* drafts, documents, rewritten resources and pages.                       *)
(***************************************************************************)
EXTENDS Preview, WellFoundedInduction, TLAPS

-----------------------------------------------------------------------------
(* The judges, for every specification.                                    *)

(* Of an origin that loads only one spelling is left.                      *)
LEMMA LoadedOrigins ==
  ASSUME NEW spec, Loads(spec)
  PROVE  \A t \in spec.navigation.allowed \cup spec.navigation.oauth :
           /\ t.form = "origin" /\ SecureHttpsUrl(t)
           /\ t.url.extras = {} /\ PublicTarget(t.url.host)
BY DEF Loads, Schema, SchemaNavigation, HttpsOrigin, Validate, ValidateNavigation,
       ExactOrigin, SpelledAsOrigin

(* The start of one that loads is secure, and its origin among them.       *)
LEMMA LoadedStart ==
  ASSUME NEW spec, OfUrl(spec)
  PROVE  /\ SecureHttpsUrl(spec.source.start)
         /\ \E t \in spec.navigation.allowed :
              /\ t.form = "origin" /\ SecureHttpsUrl(t) /\ t.url.extras = {}
              /\ Origin(t.url) = Origin(spec.source.start.url)
<1>1. SecureHttpsUrl(spec.source.start)
  BY DEF OfUrl, Loads, Validate, ValidateSource, ValidateWebUrl
<1>2. StartIncluded(spec)
  BY <1>1 DEF OfUrl, Loads, Validate, ValidateNavigation
<1>3. QED
  BY <1>1, <1>2, LoadedOrigins DEF OfUrl, StartIncluded

(* The desktop shell starts exactly what is covered.                       *)
THEOREM DesktopStarts ==
  ASSUME NEW spec, OfUrl(spec)
  PROVE  RuntimeAccepts(spec) <=> Covered(spec)
<1>1. RuntimeAccepts(spec) => Covered(spec)
  BY DEF RuntimeAccepts, Covered
<1>2. ASSUME Covered(spec) PROVE RuntimeAccepts(spec)
  <2>1. NavigationAllowed(spec, spec.source.start.url)
    BY LoadedStart DEF NavigationAllowed, SameOrigin, SecureHttpsUrl
  <2>2. spec.schemaVersion = "1.0" /\ spec.source.kind = "url" /\ Parses(spec.source.start)
    BY LoadedStart DEF OfUrl, Loads, Schema, SecureHttpsUrl
  <2>3. QED BY <1>2, <2>1, <2>2, LoadedOrigins DEF RuntimeAccepts, Covered, OfUrl
<1>3. QED BY <1>1, <1>2

(* The Android shell also wants a small file, port 443, and that           *)
(* java.net.URI reads the origins and the start.                           *)
THEOREM AndroidStarts ==
  ASSUME NEW spec, OfUrl(spec)
  PROVE  AndroidAccepts(spec) <=> Covered(spec) /\ FitsAndroid(spec)
<1>1. AndroidAccepts(spec) => Covered(spec) /\ FitsAndroid(spec)
  BY DEF AndroidAccepts, AndroidPolicy, AndroidAllows, AndroidOrigin, Covered, FitsAndroid
<1>2. ASSUME Covered(spec), FitsAndroid(spec)
      PROVE  AndroidAccepts(spec)
  <2>1. PICK t \in spec.navigation.allowed :
          t.form = "origin" /\ Origin(t.url) = Origin(spec.source.start.url)
    BY LoadedStart
  <2>2. spec.source.start.url.port = 443
    BY <1>2, <2>1 DEF Origin, FitsAndroid
  <2>3. AndroidAllows(spec, spec.source.start)
    BY <1>2, <2>1, <2>2, LoadedStart DEF AndroidAllows, AndroidOrigin, InAllowed, FitsAndroid
  <2>4. AndroidPolicy(spec)
    BY <1>2, <2>1, LoadedOrigins
    DEF AndroidPolicy, AndroidOrigin, Covered, OfUrl, FitsAndroid
  <2>5. spec.size = "small" /\ spec.schemaVersion = "1.0" /\ spec.source.kind = "url"
    BY <1>2 DEF OfUrl, Loads, Schema, FitsAndroid
  <2>6. QED BY <2>3, <2>4, <2>5 DEF AndroidAccepts
<1>3. QED BY <1>1, <1>2

-----------------------------------------------------------------------------
(* The two validators.                                                     *)

(* All that the comparison needs of the type of a document.                *)
PlainOrigins(spec) ==
  \A t \in spec.navigation.allowed \cup spec.navigation.oauth :
    t.form = "origin" => t.url.extras = {}

LEMMA TypedOrigins ==
  ASSUME NEW spec \in AppSpecV1
  PROVE  PlainOrigins(spec)
<1>1. spec.navigation \in Navigation
  BY SMT DEF AppSpecV1
<1>2. spec.navigation.allowed \subseteq Text /\ spec.navigation.oauth \subseteq Text
  BY <1>1, SMT DEF Navigation
<1>3. QED BY <1>2, SMT DEF Text, PlainOrigins

(* From the command line to the dashboard.                                 *)
LEMMA CliToDashboard ==
  ASSUME NEW spec, Loads(spec), DashboardOnly(spec)
  PROVE  DashboardAccepts(spec) /\ CliOnly(spec)
<1>1. Schema(spec) /\ Validate(spec)
  BY DEF Loads
<1>2. \A t \in spec.navigation.allowed \cup spec.navigation.oauth :
        CanonicalOrigin(t) /\ PublicTarget(t.url.host)
  BY LoadedOrigins DEF CanonicalOrigin
<1>3. \A t \in Links(spec) : SecureHttpsUrl(t) /\ PublicTarget(t.url.host)
  BY <1>1 DEF Validate, ValidateWebUrl
<1>4. ASSUME spec.source.kind = "url"
      PROVE  /\ SecureHttpsUrl(spec.source.start)
             /\ InAllowed(spec, spec.source.start.url)
             /\ spec.source.start.url.host \in Claimed(spec)
             /\ PublicTarget(spec.source.start.url.host)
  <2>1. PICK t \in spec.navigation.allowed :
          t.form = "origin" /\ Origin(t.url) = Origin(spec.source.start.url)
    BY <1>4, LoadedStart DEF OfUrl
  <2>2. t.url.host = spec.source.start.url.host
    BY <2>1 DEF Origin
  <2>3. ValidateWebUrl(spec.source.start)
    BY <1>1, <1>4 DEF Validate, ValidateSource
  <2>4. InAllowed(spec, spec.source.start.url)
    BY <2>1 DEF InAllowed
  <2>5. spec.source.start.url.host \in Claimed(spec)
    BY <2>1, <2>2 DEF DashboardOnly, Covered
  <2>6. QED BY <2>3, <2>4, <2>5 DEF ValidateWebUrl
<1>5. Semantic(spec)
  BY <1>2, <1>3, <1>4 DEF Semantic, DashboardOnly, Covered
<1>6. /\ spec.identity.displayName <= 80
      /\ \A p \in Platform : \A id \in spec.identity.ids[p] : ValidPlatformIdentifier(id)
  BY <1>1 DEF Validate, ValidateIdentity
<1>7. \A d \in spec.ownership.domains : d.form = "exact" /\ PublicTarget(d.host)
  BY <1>1 DEF Validate, ValidateOwnership
<1>8. CliOnly(spec)
  BY <1>2, <1>3, <1>4, <1>6, <1>7 DEF CliOnly
<1>9. QED BY <1>1, <1>5, <1>8 DEF ValidAppSpec, DashboardAccepts, DashboardOnly

LEMMA SlugOfSchema ==
  ASSUME NEW slug, slug.len \in 1..50, slug.form = "plain"
  PROVE  ValidSlug(slug)
BY SMT DEF ValidSlug

(* And back.                                                               *)
LEMMA DashboardToCli ==
  ASSUME NEW spec, PlainOrigins(spec), DashboardAccepts(spec), CliOnly(spec)
  PROVE  Loads(spec) /\ DashboardOnly(spec)
<1>1. spec.size = "small" /\ Schema(spec) /\ UriFormats(spec) /\ Semantic(spec)
  BY DEF DashboardAccepts, ValidAppSpec
<1>2. \A t \in spec.navigation.allowed \cup spec.navigation.oauth : ExactOrigin(t)
  BY <1>1 DEF PlainOrigins, Semantic, CanonicalOrigin, ExactOrigin, SpelledAsOrigin, CliOnly
<1>3. ValidateNavigation(spec)
  <2>1. spec.source.kind = "url" => StartIncluded(spec)
    BY <1>1, <1>2 DEF Semantic, InAllowed, StartIncluded
  <2>2. spec.navigation.mode = "none" => spec.navigation.items = {}
    BY <1>1 DEF Schema, SchemaNavigation
  <2>3. QED BY <1>2, <2>1, <2>2 DEF ValidateNavigation
<1>4. ValidateIdentity(spec.identity)
  <2>1. SchemaIdentity(spec.identity)
    BY <1>1 DEF Schema
  <2>2. /\ spec.identity.slug.len \in 1..50 /\ spec.identity.slug.form = "plain"
        /\ spec.identity.displayName \in 1..120
        /\ spec.identity.version = "semver" /\ spec.identity.buildNumber > 0
    BY <2>1, SMT DEF SchemaIdentity
  <2>3. spec.identity.displayName \in 1..80
    BY <2>2, SMT DEF CliOnly
  <2>4. QED BY <2>2, <2>3, SlugOfSchema DEF ValidateIdentity, CliOnly
<1>5. ValidateSource(spec.source)
  BY <1>1 DEF Schema, Semantic, ValidateSource, ValidateWebUrl, CliOnly
<1>6. ValidateOwnership(spec.ownership)
  BY <1>1 DEF Schema, ValidateOwnership, CliOnly
<1>7. \A t \in Links(spec) : ValidateWebUrl(t)
  BY <1>1 DEF Semantic, ValidateWebUrl, CliOnly
<1>8. ValidateCapabilities(spec.capabilities) /\ ValidateTargets(spec.targets)
  BY <1>1 DEF Schema, SchemaCapabilities, SchemaTarget, ValidateCapabilities, ValidateTargets
<1>9. Loads(spec)
  <2>1. /\ spec.schemaVersion = "1.0" /\ spec.branding.colors = "hex"
        /\ spec.compliance.rating # "blank"
    BY <1>1 DEF Schema
  <2>2. QED BY <1>1, <1>3, <1>4, <1>5, <1>6, <1>7, <1>8, <2>1 DEF Loads, Validate
<1>10. Covered(spec)
  BY <1>1 DEF Semantic, Covered
<1>11. \A t \in spec.branding.splash \cup spec.capabilities.endpoint : SecureHttpsUrl(t)
  BY <1>1 DEF Semantic
<1>12. SemanticPush(spec) /\ SemanticItems(spec) /\ SemanticTargets(spec)
  BY <1>1 DEF Semantic
<1>13. QED BY <1>1, <1>9, <1>10, <1>11, <1>12 DEF DashboardOnly

(* The two validators differ in CliOnly and DashboardOnly and in nothing   *)
(* else; a valid Windows target has the identifier its build needs.        *)
THEOREM ValidatorsDiffer ==
  ASSUME NEW spec, PlainOrigins(spec)
  PROVE  /\ Loads(spec) /\ DashboardOnly(spec) <=> DashboardAccepts(spec) /\ CliOnly(spec)
         /\ (DashboardAccepts(spec) /\ CliOnly(spec) /\ "windows" \in Enabled(spec.targets))
              => BuildsManifest(spec)
<1>1. Loads(spec) /\ DashboardOnly(spec) <=> DashboardAccepts(spec) /\ CliOnly(spec)
  BY CliToDashboard, DashboardToCli
<1>2. DashboardAccepts(spec) => Enabled(spec.targets) = Enabled(spec.identity.ids)
  BY DEF DashboardAccepts, ValidAppSpec, Semantic, SemanticTargets
<1>3. QED BY <1>1, <1>2 DEF BuildsManifest

(* No tool calls a specification ready on its own claims.                  *)
THEOREM NeverReadyOnClaims ==
  ASSUME NEW spec
  PROVE  /\ Analyze(spec) # "ready"
         /\ PolicyHosts(spec) # {} => Classification(spec) # "ready"
<1>1. "offline_evidence_missing" \in Required(spec)
  BY DEF Required
<1>2. PolicyHosts(spec) # {} => "ownership.verified" \in Findings(spec)
  BY DEF Findings, Evidence
<1>3. QED BY <1>1, <1>2 DEF Analyze, Classification

-----------------------------------------------------------------------------
(* The desktop shell.                                                      *)

(* Behind the policy step the handler is installed; the filter is armed    *)
(* only then, and stays so.                                                *)
ShellInv ==
  /\ ShellTypeOK
  /\ Alive => RuntimeAccepts(config)
  /\ pc \in {"arm", "navigate", "show", "reveal", "running"} => policy
  /\ (Alive /\ ready) => policy
  /\ RemoteOnlyGuarded

LEMMA ShellInitInv == ShellInit => ShellInv
BY DEF ShellInit, ShellInv, ShellTypeOK, RemoteOnlyGuarded, Alive, Closure

LEMMA LaunchInv ==
  ASSUME NEW spec, spec # None, Launch(spec)
  PROVE  ShellInv'
BY ShellAssumption
DEF Launch, ShellInv, ShellTypeOK, RemoteOnlyGuarded, Alive, Closure

LEMMA ClosureInv ==
  ASSUME ShellInv, ClosureStep
  PROVE  ShellInv'
<1> USE DEF ShellInv, ShellTypeOK, RemoteOnlyGuarded, Alive, Closure, GiveUp
<1>1. CASE InstallPolicy BY <1>1 DEF InstallPolicy, PolicyRefused
<1>2. CASE Arm BY <1>2 DEF Arm
<1>3. CASE Navigate BY <1>3 DEF Navigate
<1>4. CASE Show BY <1>4 DEF Show
<1>5. CASE Reveal BY <1>5 DEF Reveal
<1>6. QED BY <1>1, <1>2, <1>3, <1>4, <1>5 DEF ClosureStep

LEMMA ShellNextInv ==
  ASSUME ShellInv, ShellNext
  PROVE  ShellInv'
<1> USE DEF ShellInv, ShellTypeOK, RemoteOnlyGuarded, Alive, Closure
<1>1. CASE ClosureStep BY <1>1, ClosureInv
<1>2. CASE StartArrives BY <1>2 DEF StartArrives, Admits
<1>3. CASE AsksPermission BY <1>3 DEF AsksPermission
<1>4. CASE CloseView BY <1>4 DEF CloseView
<1>5. CASE CloseMain BY <1>5 DEF CloseMain
<1>6. CASE LoopEnds BY <1>6 DEF LoopEnds
<1>7. ASSUME NEW u \in Pages \cup {Blank}, PageNavigates(u)
      PROVE  ShellInv'
  BY <1>7 DEF PageNavigates, Admits
<1>8. QED BY <1>1, <1>2, <1>3, <1>4, <1>5, <1>6, <1>7 DEF ShellNext

LEMMA ShellStutters ==
  ASSUME ShellInv, UNCHANGED shellVars
  PROVE  ShellInv'
BY DEF shellVars, ShellInv, ShellTypeOK, RemoteOnlyGuarded, Alive, Closure

-----------------------------------------------------------------------------
(* The slug. Where its words end is a recursion over them, so that what is *)
(* known of it needs induction on numbers, in the form of sets.            *)

(* A set of numbers that is not empty has a least one.                     *)
LEMMA LeastElement ==
  ASSUME NEW S \in SUBSET Nat, S # {}
  PROVE  \E n \in S : \A m \in S : n <= m
<1> DEFINE R == OpToRel(<, Nat)
<1>1. IsWellFoundedOn(R, Nat)
  BY NatLessThanWellFounded
<1>2. \A m, n \in Nat : <<m, n>> \in R <=> m < n
  BY DEF OpToRel
<1> HIDE DEF R
<1>3. PICK n \in S : \A m \in S : <<m, n>> \notin R
  BY <1>1, WFMin
<1>4. ASSUME NEW m \in S PROVE n <= m
  <2>1. m \in Nat /\ n \in Nat /\ ~(m < n)
    BY <1>2, <1>3
  <2>2. QED BY <2>1
<1>5. QED BY <1>4

(* A set with 0 and the successor of each member has all numbers.          *)
LEMMA Climb ==
  ASSUME NEW S \in SUBSET Nat, 0 \in S, \A n \in S : n + 1 \in S
  PROVE  S = Nat
<1>1. SUFFICES ASSUME Nat \ S # {} PROVE FALSE
  OBVIOUS
<1>2. PICK n \in Nat \ S : \A m \in Nat \ S : n <= m
  BY <1>1, LeastElement
<1>3. n - 1 \in S
  BY <1>2
<1>4. QED BY <1>2, <1>3

(* f is where each of the first n words ends.                              *)
EndsAt(words, n, f) ==
  /\ f \in [1..n -> Nat \ {0}]
  /\ \A k \in 1..n : f[k] = IF k = 1 THEN words[1] ELSE f[k - 1] + 1 + words[k]

(* There is such a function for every list of words, and WordEnds is it.   *)
LEMMA WordsEnd ==
  ASSUME NEW words, NEW n \in Nat, DOMAIN words = 1..n,
         \A k \in 1..n : words[k] \in Nat \ {0}
  PROVE  EndsAt(words, n, WordEnds(words))
<1>1. \E f : EndsAt(words, n, f)
  <2> DEFINE S == {m \in Nat : m <= n => \E f : EndsAt(words, m, f)}
  <2>1. 0 \in S
    <3>1. EndsAt(words, 0, [k \in 1..0 |-> 1])
      BY DEF EndsAt
    <3>2. QED BY <3>1
  <2>2. ASSUME NEW m \in S PROVE m + 1 \in S
    <3>1. SUFFICES ASSUME m + 1 <= n PROVE \E f : EndsAt(words, m + 1, f)
      OBVIOUS
    <3>2. PICK f : EndsAt(words, m, f)
      BY <3>1
    <3> DEFINE last == IF m = 0 THEN words[1] ELSE f[m] + 1 + words[m + 1]
               g == [k \in 1..(m + 1) |-> IF k = m + 1 THEN last ELSE f[k]]
    <3>3. last \in Nat \ {0}
      <4>1. words[m + 1] \in Nat \ {0} /\ words[1] \in Nat \ {0}
        BY <3>1
      <4>2. CASE m = 0
        BY <4>1, <4>2
      <4>3. CASE m # 0
        <5>1. f[m] \in Nat
          BY <3>2, <4>3 DEF EndsAt
        <5>2. QED BY <4>1, <4>3, <5>1
      <4>4. QED BY <4>2, <4>3
    <3> HIDE DEF last
    <3>4. g \in [1..(m + 1) -> Nat \ {0}]
      BY <3>2, <3>3 DEF EndsAt
    <3>5. ASSUME NEW k \in 1..(m + 1)
          PROVE  g[k] = IF k = 1 THEN words[1] ELSE g[k - 1] + 1 + words[k]
      <4>1. CASE k = m + 1
        BY <4>1 DEF last
      <4>2. CASE k \in 1..m
        BY <3>2, <4>2 DEF EndsAt
      <4>3. QED BY <4>1, <4>2
    <3>6. EndsAt(words, m + 1, g)
      BY <3>4, <3>5 DEF EndsAt
    <3>7. QED BY <3>6
  <2>3. S \in SUBSET Nat
    OBVIOUS
  <2>4. n \in S
    <3> HIDE DEF S
    <3>1. S = Nat
      BY <2>1, <2>2, <2>3, Climb
    <3>2. QED BY <3>1
  <2>5. QED BY <2>4
<1>2. PICK f : EndsAt(words, n, f)
  BY <1>1
<1>3. f = [i \in DOMAIN words |-> IF i = 1 THEN words[1] ELSE f[i - 1] + 1 + words[i]]
  BY <1>2 DEF EndsAt
<1> DEFINE h == WordEnds(words)
<1>4. h = [i \in DOMAIN words |-> IF i = 1 THEN words[1] ELSE h[i - 1] + 1 + words[i]]
  BY <1>3 DEF WordEnds
<1> HIDE DEF h
<1>5. \A k \in 1..n : h[k] = IF k = 1 THEN words[1] ELSE h[k - 1] + 1 + words[k]
  BY <1>4
<1>6. \A k \in 1..n : h[k] \in Nat \ {0}
  <2> DEFINE T == {m \in Nat : m \in 1..n => h[m] \in Nat \ {0}}
  <2>1. 0 \in T /\ T \in SUBSET Nat
    OBVIOUS
  <2>2. ASSUME NEW m \in T PROVE m + 1 \in T
    <3>1. SUFFICES ASSUME m + 1 <= n PROVE h[m + 1] \in Nat \ {0}
      OBVIOUS
    <3>2. words[m + 1] \in Nat \ {0} /\ words[1] \in Nat \ {0}
      BY <3>1
    <3>3. CASE m = 0
      BY <1>5, <3>1, <3>2, <3>3
    <3>4. CASE m # 0
      <4>1. h[m] \in Nat /\ h[m + 1] = h[m] + 1 + words[m + 1]
        BY <1>5, <3>1, <3>4
      <4>2. QED BY <3>2, <4>1
    <3>5. QED BY <3>3, <3>4
  <2>3. T = Nat
    <3> HIDE DEF T
    <3>1. QED BY <2>1, <2>2, Climb
  <2>4. QED BY <2>3
<1>7. h \in [1..n -> Nat \ {0}]
  <2>1. h = [k \in 1..n |-> h[k]]
    BY <1>4
  <2>2. QED BY <1>6, <2>1
<1>8. QED BY <1>5, <1>7 DEF EndsAt, h

(* However long a name is, its slug is cut to what validate() takes.       *)
LEMMA SlugIsShort ==
  ASSUME NEW name \in Name
  PROVE  SlugLen(name) \in 0..63
<1> DEFINE words == name.words
           n == Len(words)
           end == WordEnds(words)
<1>1. words \in Seq(Nat \ {0})
  BY DEF Name
<1>2. n \in Nat /\ DOMAIN words = 1..n /\ \A k \in 1..n : words[k] \in Nat \ {0}
  <2> HIDE DEF words
  <2>1. QED BY <1>1
<1>3. n = 0 \/ end[n] \in Nat
  <2> HIDE DEF words, n
  <2>1. EndsAt(words, n, WordEnds(words))
    BY <1>2, WordsEnd
  <2>2. QED BY <1>2, <2>1 DEF EndsAt
<1>4. SlugLen(name) = IF n = 0 THEN 0
                      ELSE IF end[n] <= SlugLimit THEN end[n]
                      ELSE IF \E i \in 1..(n - 1) : end[i] = SlugLimit - 1
                           THEN SlugLimit - 1 ELSE SlugLimit
  BY DEF SlugLen
<1> HIDE DEF n, end
<1>5. CASE n = 0
  BY <1>4, <1>5
<1>6. CASE n # 0
  BY <1>3, <1>4, <1>6 DEF SlugLimit
<1>7. QED BY <1>5, <1>6

-----------------------------------------------------------------------------
(* Drafts.                                                                 *)

(* What becomes of a draft: nothing but its links and its ownership change. *)
DraftedAs(a, e, o) ==
  [size |-> "small", schemaVersion |-> "1.0",
   identity |-> Draft(a).identity, source |-> Draft(a).source,
   ownership |-> o, branding |-> Draft(a).branding,
   navigation |->
     [allowed |-> Draft(a).navigation.allowed, oauth |-> {}, external |-> e,
      mode |-> "none", items |-> {}],
   capabilities |-> Draft(a).capabilities, targets |-> Draft(a).targets,
   compliance |-> Draft(a).compliance, release |-> Draft(a).release]

Unowned == [domains |-> {}, records |-> 0]

LEMMA DraftShape ==
  ASSUME NEW a
  PROVE  Draft(a) = DraftedAs(a, "system", Unowned)
BY DEF Draft, DraftedAs, Unowned

LEMMA Supplied ==
  ASSUME NEW a, NEW e, NEW o, NEW spec, spec = DraftedAs(a, e, o)
  PROVE  [spec EXCEPT !.ownership = Owned(spec)] = DraftedAs(a, e, Owned(Draft(a)))
<1>1. Owned(spec) = Owned(Draft(a))
  BY DEF Owned, DraftedAs
<1>2. QED BY <1>1 DEF DraftedAs

LEMMA Blocked ==
  ASSUME NEW a, NEW e, NEW o, NEW spec, spec = DraftedAs(a, e, o)
  PROVE  [spec EXCEPT !.navigation.external = "block"] = DraftedAs(a, "block", o)
BY DEF DraftedAs

(* The URLs of a draft: its start, its one origin, and pages under that.   *)
DraftPage(a) ==
  [form |-> "normal", url |-> [a.url.url EXCEPT !.extras = {"path"}],
   readers |-> a.siteReaders]
DraftOrigin(a) ==
  [form |-> "origin", url |-> [a.url.url EXCEPT !.extras = {}], readers |-> a.siteReaders]

LEMMA DraftUrls ==
  ASSUME NEW a
  PROVE  /\ Draft(a).source.kind = "url"
         /\ Draft(a).source.start.url = a.url.url
         /\ Draft(a).source.start.form \in {"slashed", "normal"}
         /\ Draft(a).navigation.allowed = {DraftOrigin(a)}
         /\ Links(Draft(a)) = {DraftPage(a)}
         /\ Draft(a).branding.splash = {}
<1>1. /\ Draft(a).source.kind = "url" /\ Draft(a).source.start.url = a.url.url
      /\ Draft(a).source.start.form \in {"slashed", "normal"}
  BY DEF Draft
<1>2. Draft(a).navigation.allowed = {DraftOrigin(a)}
  BY DEF Draft, DraftOrigin
<1>3. /\ Draft(a).branding.icon = DraftPage(a) /\ Draft(a).compliance.privacy = DraftPage(a)
      /\ Draft(a).compliance.support = DraftPage(a) /\ Draft(a).compliance.deletion = {}
      /\ Draft(a).branding.splash = {}
  BY DEF Draft, DraftPage
<1>4. Links(Draft(a)) = {DraftPage(a)}
  BY <1>3 DEF Links
<1>5. QED BY <1>1, <1>2, <1>3, <1>4

LEMMA ArgumentUrl ==
  ASSUME NEW a \in DraftArgs
  PROVE  a.url.url \in Url
<1>1. a.url \in Text
  BY DEF DraftArgs
<1>2. QED BY <1>1 DEF Text

LEMMA DraftPlain ==
  ASSUME NEW a \in DraftArgs, NEW e, NEW o
  PROVE  PlainOrigins(DraftedAs(a, e, o))
<1>1. [a.url.url EXCEPT !.extras = {}].extras = {}
  BY ArgumentUrl DEF Url
<1>2. /\ DraftedAs(a, e, o).navigation.allowed = Draft(a).navigation.allowed
      /\ DraftedAs(a, e, o).navigation.oauth = {}
  BY DEF DraftedAs
<1>3. ASSUME NEW t \in DraftedAs(a, e, o).navigation.allowed
                        \cup DraftedAs(a, e, o).navigation.oauth
      PROVE  t.url.extras = {}
  <2>1. t = DraftOrigin(a)
    BY <1>2, DraftUrls
  <2>2. QED BY <1>1, <2>1 DEF DraftOrigin
<1>4. QED BY <1>3 DEF PlainOrigins

(* The identity of every draft is one that validate() takes.               *)
LEMMA DraftIdentity ==
  ASSUME NEW a \in DraftArgs, InitAccepts(a)
  PROVE  /\ Draft(a).identity.displayName = a.name.chars
         /\ Draft(a).identity.version = "semver" /\ Draft(a).identity.buildNumber = 1
         /\ Draft(a).identity.slug.len = SlugLen(a.name)
         /\ Draft(a).identity.slug.form = "plain"
         /\ Draft(a).identity.ids =
              [p \in Platform |-> IF p = "windows" THEN {DraftIdentifier(a)} ELSE {}]
         /\ ValidateIdentity(Draft(a).identity)
<1> DEFINE i == Draft(a).identity
<1>1. /\ i.displayName = a.name.chars /\ i.version = "semver" /\ i.buildNumber = 1
      /\ i.slug.len = SlugLen(a.name) /\ i.slug.form = "plain"
      /\ i.ids = [p \in Platform |-> IF p = "windows" THEN {DraftIdentifier(a)} ELSE {}]
  BY DEF Draft
<1>2. a.name.chars \in 1..80 /\ ValidPlatformIdentifier(DraftIdentifier(a)) /\ SlugLen(a.name) > 0
  BY DEF InitAccepts
<1>3. a.name \in Name
  BY DEF DraftArgs
<1>4. SlugLen(a.name) \in 1..63
  BY <1>2, <1>3, SlugIsShort
<1>5. ValidSlug(i.slug)
  BY <1>1, <1>4 DEF ValidSlug
<1>6. QED BY <1>1, <1>2, <1>5 DEF ValidateIdentity

(* That of a draft that fits, and of no other, is one that the schema takes. *)
LEMMA FittingIdentity ==
  ASSUME NEW a \in DraftArgs, InitAccepts(a), Fits(a)
  PROVE  SchemaIdentity(Draft(a).identity)
<1> DEFINE i == Draft(a).identity
           id == DraftIdentifier(a)
<1>1. /\ i.displayName = a.name.chars /\ i.version = "semver" /\ i.buildNumber = 1
      /\ i.slug.len = SlugLen(a.name) /\ i.slug.form = "plain"
      /\ i.ids = [p \in Platform |-> IF p = "windows" THEN {id} ELSE {}]
  BY DraftIdentity
<1>2. a.name.chars \in 1..80 /\ ValidPlatformIdentifier(id)
  BY DEF InitAccepts
<1>3. SlugLen(a.name) \in 1..50
  BY DEF Fits
<1>4. \A p \in Platform : \A x \in i.ids[p] : p = "windows" /\ x = id
  BY <1>1
<1>5. Enabled(i.ids) # {}
  BY <1>1 DEF Enabled, Platform
<1>6. SchemaIdentifier("windows", id)
  <2>1. id.len \in 3..50 /\ id.marks \subseteq {"upper"}
    BY <1>2 DEF Fits, ValidPlatformIdentifier, DraftIdentifier
  <2>2. id.leads[1] \in {"lower", "upper"}
    <3> DEFINE Lead == {"lower", "upper", "digit", "mark", "none"}
    <3>1. a.base.leads \in Seq(Lead)
      <4>1. a.base \in Identifier
        BY DEF DraftArgs
      <4>2. QED BY <4>1 DEF Identifier
    <3>2. id.leads \in Seq(Lead)
      <4>1. PICK x \in Lead : id.leads = Append(a.base.leads, x)
        BY DEF DraftIdentifier
      <4> HIDE DEF Lead
      <4>2. QED BY <3>1, <4>1
    <3>3. 1 \in DOMAIN id.leads
      <4>1. Len(id.leads) > 1
        BY <1>2, Zenon DEF ValidPlatformIdentifier
      <4> HIDE DEF Lead, id
      <4>2. QED BY <3>2, <4>1
    <3>4. QED BY <1>2, <3>3 DEF ValidPlatformIdentifier
  <2>3. QED BY <2>1, <2>2 DEF SchemaIdentifier, IdentifierLeads, IdentifierMarks
<1>7. SchemaIdentity(i)
  <2>1. i.displayName \in 1..120 /\ i.slug.len \in 1..50
    BY <1>1, <1>2, <1>3
  <2>2. i.buildNumber > 0 /\ i.buildNumber <= MaxBuildNumber
    BY <1>1, SMT DEF MaxBuildNumber
  <2>3. QED BY <1>1, <1>4, <1>5, <1>6, <2>1, <2>2 DEF SchemaIdentity
<1>8. QED BY <1>7

(* Any URL on the host of the argument that init took may be in a document. *)
LEMMA SameHostUrl ==
  ASSUME NEW a \in DraftArgs, InitAccepts(a), NEW x, NEW t,
         Parses(t), t.url = [a.url.url EXCEPT !.extras = x]
  PROVE  /\ ValidateWebUrl(t) /\ HttpsText(t) /\ SecureHttpsUrl(t)
         /\ t.url.extras = x /\ Origin(t.url) = Origin(a.url.url)
<1>1. ValidateWebUrl(a.url)
  BY DEF InitAccepts
<1>2. /\ t.url.scheme = a.url.url.scheme /\ t.url.creds = a.url.url.creds
      /\ t.url.host = a.url.url.host /\ t.url.port = a.url.url.port /\ t.url.extras = x
  BY ArgumentUrl DEF Url
<1>3. QED BY <1>1, <1>2 DEF ValidateWebUrl, SecureHttpsUrl, HttpsText, Origin

(* What every draft has, whoever owns it and wherever its links lead.      *)
LEMMA DraftParts ==
  ASSUME NEW a \in DraftArgs, InitAccepts(a), NEW e, NEW o,
         NEW d, d = DraftedAs(a, e, o)
  PROVE  /\ d.size = "small" /\ d.schemaVersion = "1.0"
         /\ d.identity = Draft(a).identity /\ d.ownership = o
         /\ d.navigation.oauth = {} /\ d.navigation.mode = "none" /\ d.navigation.items = {}
         /\ d.navigation.allowed # {}
         /\ \A t \in d.navigation.allowed :
              /\ t.form = "origin" /\ ValidateWebUrl(t) /\ HttpsText(t) /\ t.url.extras = {}
              /\ Origin(t.url) = Origin(a.url.url)
         /\ d.source.kind = "url" /\ d.source.start.url = a.url.url
         /\ ValidateWebUrl(d.source.start) /\ HttpsText(d.source.start)
         /\ \A t \in Links(d) : ValidateWebUrl(t) /\ HttpsText(t)
         /\ d.branding.splash = {} /\ d.branding.colors = "hex" /\ d.compliance.rating = "17+"
         /\ d.capabilities.endpoint = {}
         /\ \A c \in Capability :
              d.capabilities.switch[c].shape = "toggle" /\ ~d.capabilities.switch[c].on
         /\ Enabled(d.targets) # {}
         /\ \A p \in Platform : \A t \in d.targets[p] : SchemaTarget(p, t)
<1>1. /\ d.size = "small" /\ d.schemaVersion = "1.0" /\ d.identity = Draft(a).identity
      /\ d.source = Draft(a).source /\ d.ownership = o
      /\ d.branding = Draft(a).branding /\ d.compliance = Draft(a).compliance
      /\ d.capabilities = Draft(a).capabilities /\ d.targets = Draft(a).targets
      /\ d.navigation.allowed = Draft(a).navigation.allowed /\ d.navigation.oauth = {}
      /\ d.navigation.mode = "none" /\ d.navigation.items = {}
  BY DEF DraftedAs
<1>2. Links(d) = {DraftPage(a)} /\ d.branding.splash = {}
  BY <1>1, DraftUrls DEF Links
<1>3. ValidateWebUrl(DraftPage(a)) /\ HttpsText(DraftPage(a))
  <2>1. Parses(DraftPage(a)) /\ DraftPage(a).url = [a.url.url EXCEPT !.extras = {"path"}]
    BY DEF DraftPage, Parses
  <2>2. QED BY <2>1, SameHostUrl
<1>4. ASSUME NEW t \in d.navigation.allowed
      PROVE  /\ t.form = "origin" /\ ValidateWebUrl(t) /\ HttpsText(t) /\ t.url.extras = {}
             /\ Origin(t.url) = Origin(a.url.url)
  <2>1. t = DraftOrigin(a)
    BY <1>1, DraftUrls
  <2>2. t.form = "origin" /\ t.url = [a.url.url EXCEPT !.extras = {}]
    BY <2>1 DEF DraftOrigin
  <2>3. Parses(t)
    BY <2>2 DEF Parses
  <2>4. ValidateWebUrl(t) /\ HttpsText(t) /\ t.url.extras = {} /\ Origin(t.url) = Origin(a.url.url)
    BY <2>2, <2>3, SameHostUrl
  <2>5. QED BY <2>2, <2>4
<1>5. d.navigation.allowed # {}
  BY <1>1, DraftUrls
<1>6. /\ d.source.kind = "url" /\ d.source.start.url = a.url.url
      /\ ValidateWebUrl(d.source.start) /\ HttpsText(d.source.start)
  <2>1. d.source.kind = "url" /\ d.source.start.url = a.url.url /\ Parses(d.source.start)
    BY <1>1, DraftUrls DEF Parses
  <2>2. ValidateWebUrl(a.url)
    BY DEF InitAccepts
  <2>3. QED BY <2>1, <2>2 DEF ValidateWebUrl, SecureHttpsUrl, HttpsText
<1>7. /\ d.branding.colors = "hex" /\ d.compliance.rating = "17+"
      /\ d.capabilities.endpoint = {}
      /\ \A c \in Capability :
           d.capabilities.switch[c].shape = "toggle" /\ ~d.capabilities.switch[c].on
  <2>1. /\ Draft(a).branding.colors = "hex" /\ Draft(a).compliance.rating = "17+"
        /\ Draft(a).capabilities.endpoint = {}
    BY DEF Draft, DraftRating
  <2>2. Draft(a).capabilities.switch =
          [c \in Capability |-> [shape |-> "toggle", on |-> FALSE]]
    BY DEF Draft
  <2>3. QED BY <1>1, <2>1, <2>2
<1>8. /\ Enabled(d.targets) # {}
      /\ \A p \in Platform : \A t \in d.targets[p] : SchemaTarget(p, t)
  <2>1. d.targets =
          [p \in Platform |->
             {t \in {[shape |-> "target", arch |-> {"x64"}, minSdk |-> 0, targetApi |-> 0]} :
                p = "windows"}]
    BY <1>1 DEF Draft
  <2>2. \A p \in Platform : \A t \in d.targets[p] : SchemaTarget(p, t)
    BY <2>1 DEF SchemaTarget
  <2>3. d.targets["windows"] # {} /\ "windows" \in Platform
    BY <2>1 DEF Platform
  <2>4. QED BY <2>2, <2>3 DEF Enabled
<1>9. QED BY <1>1, <1>2, <1>3, <1>4, <1>5, <1>6, <1>7, <1>8

(* All that validate() can refuse of a draft is its ownership.             *)
LEMMA DraftValidates ==
  ASSUME NEW a \in DraftArgs, InitAccepts(a), NEW e, NEW o,
         NEW d, d = DraftedAs(a, e, o)
  PROVE  Validate(d) <=> ValidateOwnership(o)
<1>1. \A t \in d.navigation.allowed \cup d.navigation.oauth : ExactOrigin(t)
  BY DraftParts DEF ExactOrigin, SpelledAsOrigin, ValidateWebUrl
<1>2. StartIncluded(d)
  BY <1>1, DraftParts DEF StartIncluded
<1>3. ValidateNavigation(d)
  BY <1>1, <1>2, DraftParts DEF ValidateNavigation
<1>4. ValidateSource(d.source) /\ \A t \in Links(d) : ValidateWebUrl(t)
  BY DraftParts DEF ValidateSource
<1>5. ValidateCapabilities(d.capabilities) /\ ValidateTargets(d.targets)
  BY DraftParts DEF ValidateCapabilities, ValidateTargets, SchemaTarget
<1>6. ValidateIdentity(d.identity)
  <2>1. d.identity = Draft(a).identity
    BY DraftParts
  <2>2. ValidateIdentity(Draft(a).identity)
    BY DraftIdentity
  <2>3. QED BY <2>1, <2>2
<1>7. /\ d.schemaVersion = "1.0" /\ d.ownership = o
      /\ d.branding.colors = "hex" /\ d.compliance.rating # "blank"
  BY DraftParts
<1>8. QED BY <1>3, <1>4, <1>5, <1>6, <1>7 DEF Validate

(* Nor does it refuse that, but for the record of an IPv6 address.         *)
LEMMA DraftOwnership ==
  ASSUME NEW a \in DraftArgs, InitAccepts(a)
  PROVE  /\ ValidateOwnership(Unowned)
         /\ ValidateOwnership(Owned(Draft(a))) <=> a.url.url.host.kind # "ipv6"
<1>1. PublicTarget(a.url.url.host)
  BY DEF InitAccepts, ValidateWebUrl
<1>2. Owned(Draft(a)).domains = {[form |-> "exact", host |-> a.url.url.host]}
  BY DraftUrls DEF Owned
<1>3. QED BY <1>1, <1>2 DEF ValidateOwnership, Unowned

(* With its records a draft loads exactly if it fits the schema's limits.  *)
THEOREM DraftLoads ==
  ASSUME NEW a \in DraftArgs, InitAccepts(a), NEW e
  PROVE  Loads(DraftedAs(a, e, Owned(Draft(a)))) <=> Fits(a)
<1> DEFINE d == DraftedAs(a, e, Owned(Draft(a)))
<1>1. /\ d.ownership.records = 1
      /\ d.ownership.domains = {[form |-> "exact", host |-> a.url.url.host]}
  BY DraftParts, DraftUrls DEF Owned
<1>2. \A x \in d.ownership.domains : x.form = "exact" /\ x.host = a.url.url.host
  BY <1>1
<1> HIDE DEF d
<1>3. ASSUME Fits(a) PROVE Loads(d)
  <2>1. SchemaNavigation(d.navigation)
    BY DraftParts DEF d, SchemaNavigation, HttpsOrigin
  <2>2. \A t \in Links(d) \cup d.branding.splash \cup d.capabilities.endpoint : HttpsText(t)
    BY DraftParts DEF d
  <2>3. d.ownership.records > 0
    BY <1>1
  <2>4. \A x \in d.ownership.domains : x.form # "other" /\ x.host.kind # "ipv6"
    BY <1>2, <1>3 DEF Fits
  <2>5. SchemaCapabilities(d.capabilities)
    BY DraftParts DEF d, SchemaCapabilities, Capability
  <2>6. SchemaIdentity(d.identity)
    BY <1>3, DraftParts, FittingIdentity DEF d
  <2>7. /\ d.schemaVersion = "1.0" /\ d.source.kind = "url" /\ HttpsText(d.source.start)
        /\ d.branding.colors = "hex" /\ Enabled(d.targets) # {}
        /\ \A p \in Platform : \A t \in d.targets[p] : SchemaTarget(p, t)
        /\ d.compliance.rating \in {"4+", "9+", "12+", "17+"}
    BY DraftParts DEF d
  <2>8. Schema(d)
    BY <2>1, <2>2, <2>3, <2>4, <2>5, <2>6, <2>7 DEF Schema
  <2>9. Validate(d)
    BY <1>3, DraftValidates, DraftOwnership DEF d, Fits
  <2>10. d.size # "over"
    BY DraftParts DEF d
  <2>11. QED BY <2>8, <2>9, <2>10 DEF Loads
<1>4. ASSUME Loads(d) PROVE Fits(a)
  <2>1. SchemaIdentity(d.identity) /\ \A x \in d.ownership.domains : x.host.kind # "ipv6"
    BY <1>4 DEF Loads, Schema
  <2>2. a.url.url.host.kind # "ipv6"
    BY <1>1, <2>1
  <2>3. d.identity.slug.len = SlugLen(a.name) /\ DraftIdentifier(a) \in d.identity.ids["windows"]
    <3>1. d.identity = Draft(a).identity
      BY DraftParts DEF d
    <3>2. /\ Draft(a).identity.slug.len = SlugLen(a.name)
          /\ Draft(a).identity.ids =
               [p \in Platform |-> IF p = "windows" THEN {DraftIdentifier(a)} ELSE {}]
      BY DraftIdentity
    <3>3. QED BY <3>1, <3>2 DEF Platform
  <2>4. SlugLen(a.name) \in 1..50
    BY <2>1, <2>3 DEF SchemaIdentity
  <2>5. SchemaIdentifier("windows", DraftIdentifier(a))
    BY <2>1, <2>3 DEF SchemaIdentity, Platform
  <2>6. DraftIdentifier(a).len \in 3..50 /\ DraftIdentifier(a).marks \subseteq {"upper", "-"}
    BY <2>5 DEF SchemaIdentifier, IdentifierMarks
  <2>7. "_" \notin a.base.marks
    BY <2>6 DEF DraftIdentifier
  <2>8. QED BY <2>2, <2>4, <2>6, <2>7 DEF Fits
<1>5. QED BY <1>3, <1>4 DEF d

-----------------------------------------------------------------------------
(* The whole: what a step makes of the document, the export and the shell. *)

(* What is exported has loaded; a drafted document changed only in its     *)
(* links and ownership; every document writes its origins as a URL does.   *)
AuthorInv ==
  /\ doc # None => PlainOrigins(doc)
  /\ exported # None => Loads(exported)
  /\ args # None =>
       /\ args \in DraftArgs /\ InitAccepts(args)
       /\ \E e \in {"system", "block"} :
            doc = DraftedAs(args, e, IF owned THEN Owned(Draft(args)) ELSE Unowned)
  /\ owned \in BOOLEAN /\ (owned => args # None)

Inv == ShellInv /\ AuthorInv

LEMMA InitInv == Init => Inv
BY ShellInitInv DEF Init, Inv, AuthorInv

LEMMA WriteDraftInv ==
  ASSUME AuthorInv, NEW a \in Drafts, WriteDraft(a)
  PROVE  AuthorInv'
<1>1. /\ doc' = DraftedAs(a, "system", Unowned) /\ args' = a /\ owned' = FALSE
      /\ exported' = exported
  BY DraftShape DEF WriteDraft, AuthorInv
<1>2. a \in DraftArgs /\ InitAccepts(a)
  BY PreviewAssumption DEF WriteDraft
<1>3. PlainOrigins(doc')
  BY <1>1, <1>2, DraftPlain
<1>4. QED BY <1>1, <1>2, <1>3 DEF AuthorInv

(* Both steps of the owner keep it a completed draft.                      *)
LEMMA OwnerInv ==
  ASSUME AuthorInv, SupplyOwnership \/ BlockLinks
  PROVE  AuthorInv'
<1>1. PICK e \in {"system", "block"} :
        doc = DraftedAs(args, e, IF owned THEN Owned(Draft(args)) ELSE Unowned)
  BY DEF AuthorInv, SupplyOwnership, BlockLinks
<1>2. args # None /\ args \in DraftArgs /\ InitAccepts(args)
  BY DEF AuthorInv, SupplyOwnership, BlockLinks
<1>3. CASE SupplyOwnership
  <2>1. doc' = DraftedAs(args, e, Owned(Draft(args))) /\ owned' = TRUE
    BY <1>1, <1>3, Supplied DEF SupplyOwnership
  <2>2. QED BY <1>2, <1>3, <2>1, DraftPlain DEF AuthorInv, SupplyOwnership
<1>4. CASE BlockLinks
  <2>1. doc' = DraftedAs(args, "block", IF owned THEN Owned(Draft(args)) ELSE Unowned)
    BY <1>1, <1>4, Blocked DEF BlockLinks
  <2>2. QED BY <1>2, <1>4, <2>1, DraftPlain DEF AuthorInv, BlockLinks
<1>5. QED BY <1>3, <1>4

LEMMA OtherAuthorInv ==
  ASSUME AuthorInv,
         \/ \E spec \in Documents : Write(spec)
         \/ \E o \in Options : Export(o)
         \/ \E spec \in Rewritten : Rewrite(spec)
         \/ UNCHANGED authorVars
  PROVE  AuthorInv'
<1>1. ASSUME NEW spec \in Documents, Write(spec) PROVE AuthorInv'
  BY <1>1, PreviewAssumption, TypedOrigins DEF Write, AuthorInv
<1>2. ASSUME NEW o \in Options, Export(o) PROVE AuthorInv'
  BY <1>2 DEF Export, AuthorInv
<1>3. ASSUME NEW spec \in Rewritten, Rewrite(spec) PROVE AuthorInv'
  BY <1>3 DEF Rewrite, AuthorInv
<1>4. CASE UNCHANGED authorVars
  BY <1>4 DEF authorVars, AuthorInv
<1>5. QED BY <1>1, <1>2, <1>3, <1>4

LEMMA NextInv == Inv /\ [Next]_vars => Inv'
<1> SUFFICES ASSUME Inv, [Next]_vars PROVE Inv'
  OBVIOUS
<1>1. ShellInv /\ AuthorInv
  BY DEF Inv
<1>2. ASSUME NEW a \in Drafts, WriteDraft(a) PROVE Inv'
  BY <1>1, <1>2, WriteDraftInv, ShellStutters DEF WriteDraft, Inv
<1>3. CASE SupplyOwnership \/ BlockLinks
  BY <1>1, <1>3, OwnerInv, ShellStutters DEF SupplyOwnership, BlockLinks, Inv
<1>4. ASSUME NEW spec \in Documents, Write(spec) PROVE Inv'
  BY <1>1, <1>4, OtherAuthorInv, ShellStutters DEF Write, Inv
<1>5. ASSUME NEW o \in Options, Export(o) PROVE Inv'
  BY <1>1, <1>5, OtherAuthorInv, ShellStutters DEF Export, Inv
<1>6. ASSUME NEW spec \in Rewritten, Rewrite(spec) PROVE Inv'
  BY <1>1, <1>6, OtherAuthorInv, ShellStutters DEF Rewrite, Inv
<1>7. CASE Start
  BY <1>1, <1>7, OtherAuthorInv, LaunchInv DEF Start, Inv
<1>8. CASE ShellNext /\ UNCHANGED authorVars
  BY <1>1, <1>8, OtherAuthorInv, ShellNextInv DEF Inv
<1>9. CASE UNCHANGED vars
  BY <1>1, <1>9, OtherAuthorInv, ShellStutters DEF vars, Inv
<1>10. QED BY <1>2, <1>3, <1>4, <1>5, <1>6, <1>7, <1>8, <1>9 DEF Next

(* Every step of an author, a user, a page or the shell keeps the invariant. *)
THEOREM Invariant == Spec => []Inv
BY InitInv, NextInv, PTL DEF Spec

(* The shell's variables have their types.                                 *)
THEOREM ShellTypes == Spec => []ShellTypeOK
<1>1. Inv => ShellTypeOK
  BY DEF Inv, ShellInv
<1>2. QED BY <1>1, Invariant, PTL

(* Nothing remote is shown, and no permission granted, but behind the      *)
(* policy and the filter.                                                  *)
THEOREM Guarded == Spec => []RemoteOnlyGuarded
<1>1. Inv => RemoteOnlyGuarded
  BY DEF Inv, ShellInv
<1>2. QED BY <1>1, Invariant, PTL

(* A process started with what was exported shows the listed origins of    *)
(* public hosts that it claims.                                            *)
THEOREM Shows == Spec => []ShowsListedPublic
<1>1. ASSUME Inv, Alive, config = exported, page # Blank
      PROVE  /\ page.scheme = "https" /\ ~page.creds
             /\ PublicTarget(page.host) /\ page.host \in Claimed(exported)
             /\ InAllowed(exported, page)
  <2>1. RuntimeAccepts(exported) /\ NavigationAllowed(exported, page)
    BY <1>1 DEF Inv, ShellInv, RemoteOnlyGuarded
  <2>2. Loads(exported)
    BY <1>1 DEF Inv, ShellInv, ShellTypeOK, AuthorInv
  <2>3. PICK t \in exported.navigation.allowed : Origin(t.url) = Origin(page)
    BY <2>1 DEF NavigationAllowed, SameOrigin
  <2>4. t.form = "origin" /\ PublicTarget(t.url.host) /\ t.url.host \in Claimed(exported)
    BY <2>1, <2>2, LoadedOrigins DEF RuntimeAccepts
  <2>5. t.url.host = page.host
    BY <2>3 DEF Origin
  <2>6. QED BY <2>1, <2>3, <2>4, <2>5 DEF NavigationAllowed, InAllowed
<1>2. Inv => ShowsListedPublic
  BY <1>1 DEF ShowsListedPublic
<1>3. QED BY <1>2, Invariant, PTL

(* Which of the documents the shells start.                                *)
THEOREM ShellsStart == Spec => []ShellsAgree
<1>1. ShellsAgree
  BY DesktopStarts, AndroidStarts DEF ShellsAgree
<1>2. QED BY <1>1, PTL

(* Where the command line and the dashboard differ.                        *)
THEOREM ValidatorsCompared == Spec => []ValidatorsAgree
<1>1. Inv => ValidatorsAgree
  BY ValidatorsDiffer DEF Inv, AuthorInv, ValidatorsAgree
<1>2. QED BY <1>1, Invariant, PTL

(* No tool takes a claim for evidence.                                     *)
THEOREM ClaimsJudged == Spec => []ClaimsAreNotEvidence
<1>1. ClaimsAreNotEvidence
  BY NeverReadyOnClaims DEF ClaimsAreNotEvidence
<1>2. QED BY <1>1, PTL

(* What init writes breaks no rule of validate(), which it does not run,   *)
(* but that its records may not be of an IPv6 address; with its ownership  *)
(* records it loads exactly if it is within the limits of the schema.      *)
THEOREM DraftsLoad == Spec => []FittingDraftLoads
<1>1. ASSUME Inv, args # None
      PROVE  Validate(doc) <=> ~(owned /\ args.url.url.host.kind = "ipv6")
  <2>1. PICK e \in {"system", "block"} :
          doc = DraftedAs(args, e, IF owned THEN Owned(Draft(args)) ELSE Unowned)
    BY <1>1 DEF Inv, AuthorInv
  <2>2. args \in DraftArgs /\ InitAccepts(args)
    BY <1>1 DEF Inv, AuthorInv
  <2>3. QED BY <2>1, <2>2, DraftValidates, DraftOwnership
<1>2. ASSUME Inv, args # None, owned
      PROVE  Fits(args) <=> Loads(doc)
  <2>1. PICK e \in {"system", "block"} : doc = DraftedAs(args, e, Owned(Draft(args)))
    BY <1>2 DEF Inv, AuthorInv
  <2>2. args \in DraftArgs /\ InitAccepts(args)
    BY <1>2 DEF Inv, AuthorInv
  <2>3. QED BY <2>1, <2>2, DraftLoads
<1>3. Inv => FittingDraftLoads
  BY <1>1, <1>2 DEF FittingDraftLoads
<1>4. QED BY <1>3, Invariant, PTL
=============================================================================
