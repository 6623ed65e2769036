------------------------------- MODULE AppSpec -------------------------------
(***************************************************************************)
(* The AppSpec document (crates/wta/src/spec.rs, packages/app-spec): what  *)
(* the rules of the command line, the dashboard and the shells tell apart. *)
(*                                                                         *)
(* A text that stands for a URL is the URL it parses to, how it is spelled *)
(* and who else reads it: `url` of Rust and URL of JavaScript follow the   *)
(* WHATWG standard, and take what stricter parsers refuse. Names and       *)
(* identifiers are lengths and the kinds of characters in them. Host names *)
(* are lists of labels in lower case, as in a canonical URL. The limits on *)
(* the number of items and on the length of a URL are left out, and so is  *)
(* how JSON spells a value.                                                *)
(***************************************************************************)
EXTENDS Naturals, Sequences

Platform == {"android", "ios", "windows", "macos", "linux"}
Capability ==
  {"push", "share", "files", "camera", "microphone", "location", "notifications"}

-----------------------------------------------------------------------------
(* URLs. The port of a URL that names none is 443.                         *)

Host ==
       [kind : {"name"}, labels : Seq(STRING) \ {<<>>}]
  \cup [kind : {"ipv4"}, octets : [1..4 -> 0..255]]
  \cup [kind : {"ipv6"}, segments : [1..8 -> 0..65535]]

Url ==
  [scheme : STRING, creds : BOOLEAN, host : Host, port : Nat,
   extras : SUBSET {"path", "query", "fragment"}]

Origin(u) == <<u.scheme, u.host, u.port>>

(* origin: the exact serialisation of the origin.  slashed: that and "/".  *)
(* normal: the exact serialisation of a URL with more to it.               *)
(* bare, loose: any other spelling (host with capitals, credentials, the   *)
(* port 443 written out), without and with a slash, query or fragment.     *)
(* broken: does not parse; of its url only the scheme means anything.      *)
Spelling == {"origin", "slashed", "normal", "bare", "loose", "broken"}

(* Who else reads a text. ajv: it is a URI as ajv-formats tests it (no     *)
(* space, no "|", no letter beyond ASCII).  java: java.net.URI finds in it *)
(* the scheme, host and port of the URL, the host in lower case and no     *)
(* user information (no "|" either, no last label that begins with a       *)
(* digit but in an address, no "_" in the host).                           *)
Reader == {"ajv", "java"}

Text ==
  {t \in [form : Spelling, url : Url, readers : SUBSET Reader] :
     /\ t.form \in {"origin", "slashed"} => t.url.extras = {}
     /\ t.form \in {"origin", "slashed", "normal"} => ~t.url.creds
     /\ t.form = "normal" => t.url.extras # {}
     /\ (t.url.creds \/ t.form = "broken") => "java" \notin t.readers}

Parses(t) == t.form # "broken"

(* A claimed domain: exactly a host as a URL would give it; or a number,   *)
(* of the same letters, that a URL reads as the address host (or a label   *)
(* that it does not read at all); or spelled in any other way.             *)
Domain == [form : {"exact", "numeric", "other"}, host : Host]

-----------------------------------------------------------------------------
(* The document. An optional part is a set of at most one.                 *)

Optional(S) == {s \in SUBSET S : \A x, y \in s : x = y}

(* The platforms for which there is an identifier, or a target.            *)
Enabled(f) == {p \in Platform : f[p] # {}}

(* leads: what each dot-separated segment begins with; marks: what occurs  *)
(* beside lower-case letters, digits and dots.                             *)
Identifier ==
  [len : Nat,
   leads : Seq({"lower", "upper", "digit", "mark", "none"}) \ {<<>>},
   marks : SUBSET {"upper", "-", "_", "other"}]

(* plain: runs of a-z0-9 between single hyphens; double: two hyphens       *)
(* meet; edge: one begins or ends it. suffix: a semantic version whose     *)
(* pre-release or build part is malformed.                                 *)
Slug == [len : Nat, form : {"plain", "double", "edge", "other"}]
Identity ==
  [displayName : Nat, slug : Slug, version : {"semver", "suffix", "other"},
   buildNumber : Nat, ids : [Platform -> Optional(Identifier)]]

Source == [kind : {"url", "static"}, start : Text, digest : {"sha256", "other"}]

Ownership == [domains : SUBSET Domain, records : Nat]

Branding == [colors : {"hex", "other"}, icon : Text, splash : Optional(Text)]

NativeItem == [id : STRING, url : Text]
Navigation ==
  [allowed : SUBSET Text, oauth : SUBSET Text, external : {"system", "block"},
   mode : {"none", "tabs", "sidebar"}, items : SUBSET NativeItem]

(* toggle: keys as the schema asks of this capability; object: another one *)
(* with a boolean `enabled`; boolean: just that; junk: anything else.      *)
Switch == [shape : {"toggle", "object", "boolean", "junk"}, on : BOOLEAN]
Capabilities == [switch : [Capability -> Switch], endpoint : Optional(Text)]

(* target: keys as the schema asks of this platform; object: another one.  *)
Target ==
  [shape : {"target", "object", "junk"}, arch : SUBSET {"x64", "arm64", "universal"},
   minSdk : Nat, targetApi : Nat]
Targets == [Platform -> Optional(Target)]

(* account: are accounts among the data practices?                         *)
Compliance ==
  [privacy : Text, support : Text, deletion : Optional(Text), account : BOOLEAN,
   rating : {"4+", "9+", "12+", "17+", "unrated", "blank"}]

Release ==
  [channel : {"internal", "beta", "stable"}, update : {"store", "signed-feed", "manual"}]

(* The length of the file: up to 256 KiB, up to 1 MiB, more.               *)
Size == {"small", "large", "over"}

AppSpecV1 ==
  [size : Size, schemaVersion : STRING, identity : Identity, source : Source,
   ownership : Ownership, branding : Branding, navigation : Navigation,
   capabilities : Capabilities, targets : Targets, compliance : Compliance,
   release : Release]
=============================================================================
