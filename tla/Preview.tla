------------------------------- MODULE Preview -------------------------------
(***************************************************************************)
(* From a draft to a window: `wta init` writes a specification, its owner  *)
(* completes or rewrites it, the command line and the dashboard judge it,  *)
(* `wta build --target windows-project` exports it as the resource of a    *)
(* desktop shell, which judges it again at every start. The exported       *)
(* resource is not signed: its user may rewrite it (docs/threat-model.md). *)
(*                                                                         *)
(* The file is read whole (OutputFile) and exported whole (ProjectExport). *)
(* An export has a directory and a resource of its own, so that what       *)
(* happens to the file after it concerns another export: there is one here.*)
(***************************************************************************)
EXTENDS DesktopShell

CONSTANTS
  Drafts,      \* arguments that init is called with
  Documents,   \* specifications that someone writes by hand
  Rewritten    \* what the user of an exported project puts in its place

VARIABLES
  doc,         \* the specification file
  args,        \* the arguments that doc was drafted from, or None
  owned,       \* were the ownership records of that draft supplied?
  exported,    \* the specification that was exported
  resource     \* resources/appspec.json of the project

authorVars == <<doc, args, owned, exported, resource>>
vars == <<authorVars, shellVars>>

ASSUME PreviewAssumption ==
  /\ Drafts \subseteq DraftArgs /\ None \notin Drafts
  /\ Documents \cup Rewritten \subseteq AppSpecV1

Init ==
  /\ ShellInit
  /\ doc = None /\ args = None /\ owned = FALSE /\ exported = None /\ resource = None

WriteDraft(a) ==
  /\ doc = None /\ args = None /\ InitAccepts(a)
  /\ doc' = Draft(a) /\ args' = a
  /\ UNCHANGED <<owned, exported, resource, shellVars>>

(* What is missing in a draft: the records, and the host they are about.   *)
Owned(spec) ==
  [domains |-> {[form |-> "exact", host |-> spec.source.start.url.host]}, records |-> 1]

SupplyOwnership ==
  /\ args # None /\ ~owned
  /\ doc' = [doc EXCEPT !.ownership = Owned(doc)] /\ owned' = TRUE
  /\ UNCHANGED <<args, exported, resource, shellVars>>

(* The one setting of a draft that a preview does not take.                *)
BlockLinks ==
  /\ args # None /\ exported = None
  /\ doc' = [doc EXCEPT !.navigation.external = "block"]
  /\ UNCHANGED <<args, owned, exported, resource, shellVars>>

Write(spec) ==
  /\ doc = None /\ args = None
  /\ doc' = spec
  /\ UNCHANGED <<args, owned, exported, resource, shellVars>>

Export(options) ==
  /\ doc # None /\ exported = None
  /\ Loads(doc) /\ CheckPreview(doc, options)
  /\ exported' = doc /\ resource' = doc
  /\ UNCHANGED <<doc, args, owned, shellVars>>

Rewrite(spec) ==
  /\ exported # None
  /\ resource' = spec
  /\ UNCHANGED <<doc, args, owned, exported, shellVars>>

Start ==
  /\ resource # None /\ Launch(resource)
  /\ UNCHANGED authorVars

Options == [acknowledge : BOOLEAN, force : BOOLEAN]

Next ==
  \/ \E a \in Drafts : WriteDraft(a)
  \/ SupplyOwnership \/ BlockLinks
  \/ \E spec \in Documents : Write(spec)
  \/ \E o \in Options : Export(o)
  \/ \E spec \in Rewritten : Rewrite(spec)
  \/ Start
  \/ ShellNext /\ UNCHANGED authorVars

Spec == Init /\ [][Next]_vars /\ ShellFairness

-----------------------------------------------------------------------------
(* Properties.                                                             *)

(* What the view of an exported project shows, as long as nobody rewrote   *)
(* the resource the process was started with: pages of origins that the    *)
(* specification lists, over https and without credentials, on hosts that  *)
(* are public and that it claims. The shell tests neither of the last two  *)
(* as the command line does: it relies on what was exported.               *)
ShowsListedPublic ==
  (Alive /\ config = exported /\ page # Blank) =>
    /\ page.scheme = "https" /\ ~page.creds
    /\ PublicTarget(page.host) /\ page.host \in Claimed(exported)
    /\ InAllowed(exported, page)

(* The claimed domains cover every allowed origin.                         *)
Covered(spec) == \A t \in spec.navigation.allowed : t.url.host \in Claimed(spec)

OfUrl(spec) == Loads(spec) /\ spec.source.kind = "url"

FitsAndroid(spec) ==
  /\ spec.size = "small" /\ "java" \in spec.source.start.readers
  /\ \A t \in spec.navigation.allowed : t.url.port = 443 /\ "java" \in t.readers

(* Of what the command line accepts the desktop shell starts exactly that  *)
(* whose claimed domains cover its origins, which the command line does    *)
(* not ask; the Android shell that which also is no longer than 256 KiB,   *)
(* uses no other port than 443, and whose origins and start java.net.URI   *)
(* reads as `url` does.                                                    *)
ShellsAgree ==
  (doc # None /\ OfUrl(doc)) =>
    /\ RuntimeAccepts(doc) <=> Covered(doc)
    /\ AndroidAccepts(doc) <=> Covered(doc) /\ FitsAndroid(doc)

(* What only validate() asks: a shorter name, identifiers that are valid   *)
(* everywhere, domains as a URL gives them, and public hosts.              *)
CliOnly(spec) ==
  /\ spec.identity.displayName <= 80
  /\ \A p \in Platform : \A id \in spec.identity.ids[p] : ValidPlatformIdentifier(id)
  /\ \A d \in spec.ownership.domains : d.form = "exact" /\ PublicTarget(d.host)
  /\ \A t \in Links(spec) \cup spec.navigation.allowed \cup spec.navigation.oauth :
       PublicTarget(t.url.host)
  /\ spec.source.kind = "url" => PublicTarget(spec.source.start.url.host)

(* What only the API, ajv and semanticIssues() ask.                        *)
DashboardOnly(spec) ==
  /\ spec.size = "small" /\ UriFormats(spec) /\ Covered(spec)
  /\ \A t \in spec.branding.splash \cup spec.capabilities.endpoint : SecureHttpsUrl(t)
  /\ SemanticPush(spec) /\ SemanticItems(spec) /\ SemanticTargets(spec)

(* Of a document as a value (not as JSON text) the command line and the    *)
(* dashboard judge alike but for these rules: what one accepts, and the    *)
(* rules of the other, make the other accept. A Windows target then never  *)
(* lacks the identifier that the manifest build needs.                     *)
ValidatorsAgree ==
  doc # None =>
    /\ Loads(doc) /\ DashboardOnly(doc) <=> DashboardAccepts(doc) /\ CliOnly(doc)
    /\ (DashboardAccepts(doc) /\ CliOnly(doc) /\ "windows" \in Enabled(doc.targets))
         => BuildsManifest(doc)

(* No tool calls a specification ready on the strength of what it says of  *)
(* itself: analyze never does, and the dashboard does not if the           *)
(* specification names a host.                                             *)
ClaimsAreNotEvidence ==
  doc # None =>
    /\ Loads(doc) => Analyze(doc) # "ready"
    /\ (ValidAppSpec(doc) /\ PolicyHosts(doc) # {}) => Classification(doc) # "ready"

(* Where the draft's slug and identifier are within the limits of the      *)
(* schema, which init does not apply.                                      *)
Fits(a) ==
  /\ SlugLen(a.name) \in 1..50 /\ DraftIdentifier(a).len \in 3..50
  /\ "_" \notin a.base.marks /\ a.url.url.host.kind # "ipv6"

(* init does not run validate() on what it writes. It need not: of the     *)
(* arguments it takes no rule of validate() refuses what it makes, neither *)
(* the slug it cuts nor the links and the origin it derives from the       *)
(* start; only the record of an IPv6 address is refused. And load() adds   *)
(* the limits of the schema alone: supplied with its ownership records a   *)
(* draft loads exactly if it fits, whenever its links were blocked.        *)
FittingDraftLoads ==
  args # None =>
    /\ Validate(doc) <=> ~(owned /\ args.url.url.host.kind = "ipv6")
    /\ owned => (Fits(args) <=> Loads(doc))

(* crates/wta/README.md: "Its unverified draft intentionally fails full    *)
(* validation until ownership records are supplied".                       *)
DraftNeedsOnlyOwnership == (args # None /\ owned) => Loads(doc)
=============================================================================
