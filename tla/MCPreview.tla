------------------------------ MODULE MCPreview ------------------------------
(* Drafts at the limits of names and identifiers; documents that differ     *)
(* from a valid one in one part, or in the parts that are judged together.  *)
EXTENDS Preview, TLC

Named(labels) == [kind |-> "name", labels |-> labels]
App == Named(<<"example", "com">>)
Api == Named(<<"api", "example", "com">>)
Lan == Named(<<"printer", "local">>)
Home == Named(<<"home", "arpa">>)
Inner == Named(<<"nas", "home", "arpa">>)
Quad(o) == [kind |-> "ipv4", octets |-> o]
V6(s) == [kind |-> "ipv6", segments |-> s]
(* example.1a, whose last label begins with a digit.                        *)
Dig == Named(<<"example", "1a">>)
Mapped == V6(<<0, 0, 0, 0, 0, 65535, 2560, 1>>)
Public6 == V6(<<9734, 18176, 0, 0, 0, 0, 0, 1>>)

U(host, port, extras) ==
  [scheme |-> "https", creds |-> FALSE, host |-> host, port |-> port, extras |-> extras]
(* Letters beyond the lower case are no host for java.net.URI.              *)
T(form, url) ==
  [form |-> form, url |-> url,
   readers |-> IF form \in {"origin", "slashed", "normal"} THEN Reader ELSE {"ajv"}]
ReadBy(t, readers) == [t EXCEPT !.readers = readers]
Site(host) == T("origin", U(host, 443, {}))
PageOf(host) == T("normal", U(host, 443, {"path"}))
Plain(host) == [Site(host) EXCEPT !.url.scheme = "http"]
Creds(text) == [text EXCEPT !.form = "loose", !.url.creds = TRUE, !.readers = {"ajv"}]
Odd == T("origin", U(App, 8443, {}))
Broken == T("broken", U(App, 443, {}))

-----------------------------------------------------------------------------
(* Names: short, cut within a word and at a hyphen, too long for the schema *)
(* but not for init, not for init either, without a letter.                 *)
Names ==
  {[chars |-> c, words |-> w, digitFirst |-> d] :
     c \in {14}, w \in {<<7, 6>>, <<>>}, d \in BOOLEAN}
  \cup {[chars |-> 80, words |-> w, digitFirst |-> FALSE] :
          w \in {<<50>>, <<20, 20>>, <<24, 25>>, <<62, 15>>, <<30, 31, 10>>, <<51>>}}
  \cup {[chars |-> 81, words |-> <<3>>, digitFirst |-> FALSE]}

Id(len, leads, marks) == [len |-> len, leads |-> leads, marks |-> marks]
Bases ==
  {Id(11, <<"lower", "lower">>, m) : m \in {{}, {"upper"}, {"_"}, {"-"}}}
  \cup {Id(250, <<"lower", "lower">>, {}), Id(3, <<"lower">>, {}), Id(9, <<"lower", "digit">>, {})}

MCDrafts ==
  [name : Names, base : Bases, url : {PageOf(App), T("slashed", U(App, 443, {}))},
   startReaders : {Reader, {}}, siteReaders : {Reader}]
  \cup [name : {n \in Names : n.words = <<7, 6>>}, base : {Id(11, <<"lower", "lower">>, {})},
        startReaders : {Reader}, siteReaders : {Reader},
        url : {Site(h) : h \in {Lan, Home, Inner, Quad(<<10, 0, 0, 1>>), Mapped, Public6,
                               Quad(<<8, 8, 8, 8>>)}}
              \cup {Odd, Broken, Plain(App), Creds(PageOf(App)), T("bare", U(App, 443, {}))}]

-----------------------------------------------------------------------------
BaseArgs ==
  [name |-> [chars |-> 14, words |-> <<7, 6>>, digitFirst |-> FALSE],
   url |-> PageOf(App), base |-> Id(11, <<"lower", "lower">>, {}),
   startReaders |-> Reader, siteReaders |-> Reader]
Base ==
  [Draft(BaseArgs) EXCEPT !.navigation.external = "block", !.ownership = Owned(Draft(BaseArgs))]

(* A specification with the field f replaced.                               *)
Vary(f, values) == {[Base EXCEPT ![f] = v] : v \in values}

Only(P, x) == [p \in Platform |-> IF p \in P THEN {x} ELSE {}]
Ids(P) == Only(P, Id(16, <<"lower", "lower">>, {}))
Identities ==
  LET i == Base.identity IN
  {[i EXCEPT !.displayName = n] : n \in {0, 80, 81, 121}}
  \cup {[i EXCEPT !.slug = [len |-> n, form |-> f]] :
          n \in {0, 50, 51}, f \in {"plain", "double", "edge"}}
  \cup {[i EXCEPT !.version = v] : v \in {"suffix", "other"}}
  \cup {[i EXCEPT !.buildNumber = 0]}
  \cup {[i EXCEPT !.ids = Only({q}, Id(n, leads, marks))] :
          q \in {"windows", "android", "macos"}, n \in {2, 51},
          leads \in {<<"lower">>, <<"lower", "upper">>, <<"lower", "digit">>},
          marks \in {{}, {"-"}, {"_"}}}
  \cup {[i EXCEPT !.ids = Ids(P)] : P \in {{}, {"macos"}, {"windows", "android"}}}

A_Target == [shape |-> "target", arch |-> {"x64"}, minSdk |-> 30, targetApi |-> 36]
TargetSets ==
  {Only(P, A_Target) : P \in {{}, {"macos"}, {"windows", "android"}}}
  \cup {Only({q}, [A_Target EXCEPT !.arch = a, !.targetApi = n, !.shape = s]) :
          q \in {"windows", "android", "macos"}, a \in {{"x64"}, {"x64", "universal"}},
          n \in {25, 26, 35}, s \in {"target", "object", "junk"}}

Starts == {PageOf(App), PageOf(Api), PageOf(Lan), T("normal", U(App, 8443, {"path"})), T("loose", U(App, 443, {"path"})),
           Creds(PageOf(App)), Broken, Plain(App)}

(* "|" in a query; a path with letters beyond ASCII; the port written out.  *)
UnevenStarts ==
  {ReadBy(T("normal", U(App, 443, {"query"})), {}),
   ReadBy(T("loose", U(App, 443, {"path"})), {"java"}),
   ReadBy(T("loose", U(App, 443, {"path"})), Reader)}
Sources ==
  {[kind |-> "url", start |-> t, digest |-> "other"] : t \in Starts}
  \cup {[kind |-> "static", start |-> PageOf(App), digest |-> d] : d \in {"sha256", "other"}}

Claim(form, host) == [form |-> form, host |-> host]
Claims ==
  {{}, {Claim("exact", Api)}, {Claim("exact", h) : h \in {App, Api}},
   {Claim("exact", App), Claim("numeric", Quad(<<8, 0, 0, 8>>))},
   {Claim("other", App)}, {Claim("exact", App), Claim("exact", Lan)}}
Ownerships == {[domains |-> c, records |-> n] : c \in Claims, n \in {0, 1}}

Origins ==
  {{}, {Site(App)}, {Site(App), Site(Api)}, {Site(App), Odd}, {T("slashed", Site(App).url)},
   {Site(App), T("bare", Site(Api).url)}, {Site(App), Site(Lan)}, {Site(App), PageOf(Api)},
   {Plain(App)}, {Site(App), Broken}}
Item(id, t) == [id |-> id, url |-> t]
Navigations ==
  {[Base.navigation EXCEPT !.allowed = o] : o \in Origins}
  \cup {[Base.navigation EXCEPT !.mode = m, !.items = s] :
          m \in {"none", "tabs"},
          s \in {{}, {Item("a", PageOf(App))}, {Item("a", PageOf(App)), Item("a", PageOf(Api))},
                 {Item("a", PageOf(Api))}, {Item("a", Broken)}}}

(* The last has a space in its path.                                        *)
Links2 ==
  {PageOf(App), PageOf(Lan), Broken, Creds(PageOf(App)),
   ReadBy(T("loose", U(App, 443, {"path"})), {})}
CapabilitySets ==
  {[switch |-> [Base.capabilities.switch EXCEPT ![c] = [shape |-> s, on |-> b]], endpoint |-> e] :
     c \in {"push", "share"}, s \in {"toggle", "object", "boolean", "junk"}, b \in BOOLEAN,
     e \in {{}} \cup {{t} : t \in Links2 \cup {PageOf(Api)}}}

Releases ==
  [channel : {"internal", "stable"}, update : {"manual", "store"}]

MCDocuments ==
  {[Base EXCEPT !.source = s, !.ownership = o, !.navigation = n] :
     s \in Sources, o \in Ownerships, n \in Navigations}
  \cup {[Base EXCEPT !.identity = i, !.targets = t] : i \in Identities, t \in TargetSets}
  \cup {[Base EXCEPT !.capabilities = c, !.navigation = n, !.identity.ids = Ids(Enabled(t)), !.targets = t] :
          c \in CapabilitySets, t \in {Only({q}, A_Target) : q \in {"windows", "android"}},
          n \in {m \in Navigations : m.mode = "tabs"}}
  \cup Vary("branding", [colors : {"hex", "other"}, icon : Links2, splash : {{}} \cup {{t} : t \in Links2}])
  \cup Vary("compliance",
        [privacy : Links2, support : {PageOf(App)}, deletion : {{}} \cup {{t} : t \in Links2},
         account : BOOLEAN, rating : {"17+", "unrated", "blank"}])
  \cup Vary("navigation", {[Base.navigation EXCEPT !.oauth = o] : o \in Origins \ {{}}})
  \cup Vary("release", Releases) \cup Vary("schemaVersion", {"1.0", "2.0"})
  \cup {[Base EXCEPT !.size = n, !.source.start = t, !.ownership.domains = c] :
          n \in Size, t \in UnevenStarts \cup {PageOf(App)}, c \in Claims}
  \cup {[Base EXCEPT !.source.start = ReadBy(PageOf(Dig), {"ajv"}),
                     !.navigation.allowed = {ReadBy(Site(Dig), {"ajv"})},
                     !.ownership.domains = {Claim("exact", Dig)}]}

(* What a user makes of the resource: an origin of his own, a claim that is *)
(* gone, an origin that is not one, no URL.                                 *)
MCRewritten ==
  {[Base EXCEPT !.navigation.allowed = o, !.ownership.domains = {Claim("exact", h) : h \in {App, Lan}}] :
     o \in {{Site(App), Site(Lan)}, {Site(App), Plain(App)}}}
  \cup {[Base EXCEPT !.ownership.domains = {}], [Base EXCEPT !.source.kind = "static"]}

MCPages ==
  {t.url : t \in {PageOf(App), PageOf(Api), Site(Lan), Odd, Plain(App), Creds(PageOf(App))}}
=============================================================================
