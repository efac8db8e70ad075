------------------------------ MODULE MCDetection ------------------------------
(* Five assets of the catalog, a candidate rule with each form of condition,    *)
(* and an attacker with a few inputs per channel.                               *)
EXTENDS Detection

\* Conditions over selection_1, selection_2, filter_1 and a timeframe.
sel(n) == [stem |-> "selection", n |-> n]
filter == [stem |-> "filter", n |-> 1]
timeframe == [stem |-> "timeframe", n |-> 1]
is(name) == [negated |-> FALSE, how |-> "name", pattern |-> [kind |-> "name", name |-> name]]
any(stem) == [negated |-> FALSE, how |-> "one", pattern |-> [kind |-> "prefix", stem |-> stem]]
every(stem) == [any(stem) EXCEPT !.how = "all"]
them == [negated |-> FALSE, how |-> "one", pattern |-> [kind |-> "them"]]
non(term) == [term EXCEPT !.negated = TRUE]

MCConditions ==
  { <<>>,
    <<<<is(sel(1))>>, <<is(sel(2))>>>>,
    <<<<any("selection")>>>>,
    <<<<every("selection")>>>>,
    <<<<is(sel(1)), non(is(filter))>>>>,
    <<<<any("selection"), non(any("filter"))>>>>,
    <<<<every("selection"), non(is(filter))>>>>,
    <<<<is(sel(1)), non(is(sel(2)))>>>>,
    <<<<is(sel(1)), non(is(filter))>>, <<is(sel(2))>>>>,
    <<<<is(sel(2)), any("selection"), non(every("filter"))>>>>,
    <<<<them>>>>,
    <<<<non(is(filter))>>>> }

fields(fs) == [shape |-> "fields", fields |-> fs]
keywords(vs) == [shape |-> "keywords", values |-> vs]
has(f, vs) == [field |-> f, every |-> FALSE, values |-> vs]
line(modifier, vs) == [field |-> "line", modifier |-> modifier, values |-> vs]
audit(f, vs) == [field |-> f, modifier |-> "is", values |-> vs]

MCHttpSelections ==
  (sel(1) :> fields({has("path", {".env", ".bin"})})) @@
  (sel(2) :> fields({[has("path", {".bak", "backup"}) EXCEPT !.every = TRUE]})) @@
  (filter :> keywords({"monitor"})) @@ (timeframe :> [shape |-> "scalar"])
MCShellSelections ==
  (sel(1) :> fields({audit("type", {"execve"}), audit("a0", {"wget", "curl"}),
                     audit("arg", {"-O", "-o"})})) @@
  (sel(2) :> fields({line("contains all", {"-O", "/tmp"})})) @@
  (filter :> fields({line("startswith", {"wget --help"})})) @@ (timeframe :> [shape |-> "scalar"])

technique(id) == <<id, "">>
MCCandidateTags == <<Tactic("discovery"), Technique(technique("T1083"))>>
MCSensorRules ==
  <<[name |-> "dionaea_payload_transfer",
     tags |-> <<Tactic("initial_access"), Technique(technique("T1190")),
                Tactic("command_and_control"), Technique(technique("T1105"))>>,
     detection |-> [selections |-> (sel(1) :> fields({has("source", {"dionaea"})})),
                    condition |-> <<<<is(sel(1))>>>>]]>>
MCReviewedRules ==
  <<[name |-> "file_directory_discovery", technique |-> technique("T1083"), confidence |-> "medium",
     match |-> [NoMatch EXCEPT !.processes = {"ls"}], excluded |-> NoMatch],
    [name |-> "credential_file_search", technique |-> <<"T1552", "001">>, confidence |-> "high",
     match |-> [NoMatch EXCEPT !.processes = {"ls"}, !.contains = {"/tmp"}], excluded |-> NoMatch]>>

facts == {<<"contains", "-O">>, <<"contains", "/tmp">>, <<"startswith", "wget --help">>}
MCCommands == [process : {"wget", "ls"}, facts : SUBSET facts]
MCTyped == {[path |-> <<"usr", "bin", "wget">>, facts |-> {<<"contains", "-O">>, <<"contains", "/tmp">>}],
            [path |-> <<"ls">>, facts |-> {<<"contains", "/tmp">>}],
            [path |-> <<>>, facts |-> {}]}

request(path, markers) ==
  [path |-> path, fields |-> [f \in {"path", "user_agent"} |-> IF f = "path" THEN markers ELSE {}]]
MCHttpEvents == [{"path", "user_agent"} -> SUBSET {".env", ".bak", "backup", "monitor"}]
MCPublicRequests == {request("/.env.old", {".env"}), request("/backup/db.sql.bak", {".bak", "backup"})}

text(verb) == [verb |-> verb, packet |-> "text"]
packet(p, verb) == [verb |-> verb, packet |-> p]
http(path, markers) == [verb |-> "GET", packet |-> "text", request |-> request(path, markers)]
MCMessages ==
  [a \in {"internal-portal", "ftp-archive", "malware-sink", "dionaea-capture", "mail-relay",
          "redis-cache", "git-internal", "ops-db", "ssh-canary", "legacy-telnet"} |->
     CASE a = "ftp-archive" -> {text(v) : v \in {"USER", "PASS", "RETR", "STOR", "LIST", "QUIT"}}
       [] a = "malware-sink" -> {http("/staging/agent.bin", {".bin"})}
       [] a = "dionaea-capture" -> {text("payload"), text("login"), text("")}
       [] a = "mail-relay" -> {text(v) : v \in {"EHLO", "AUTH", "RCPT", "DATA", "", "xyz"}}
       [] a = "redis-cache" -> {text(v) : v \in {"CONFIG", "KEYS", "GET", "PING", ""}}
       [] a = "git-internal" -> {text(v) : v \in {"GIT_UPLOAD_PACK", "GIT_FETCH", ""}}
       [] a = "ops-db" -> {packet("query", "SELECT"), packet("query", "xyz"), packet("INIT_DB", ""),
                           text("SHOW"), text("xyz")}
       [] a = "ssh-canary" -> {text("SSH-"), text("root"), text("")}
       [] a = "legacy-telnet" -> {text("root"), text("")}
       [] OTHER -> {http("/directory/hosts.csv", {"directory"})}]
MCPortOf ==
  [a \in DOMAIN MCMessages |->
     CASE a = "internal-portal" -> 18080 [] a = "malware-sink" -> 18085
       [] a = "dionaea-capture" -> 1445 [] OTHER -> 20000]

MCCanaryLogs ==
  {[service |-> "", port |-> 21, asset |-> "ftp-archive", keys |-> {"username", "password"},
    login |-> TRUE]}
MCSensorEvents ==
  {[source |-> "dionaea", service |-> "smb", asset |-> "dionaea-capture",
    kind |-> {"download", "offer"}, text |-> {}]}

variant(id, target, markers, covered) ==
  [id |-> id, target |-> target, markers |-> markers, covered |-> covered,
   visibleFrom |-> {}, telemetry |-> 800]
asset(group, dependencies, covered, signals, optional) ==
  [internal |-> TRUE, ready |-> TRUE, runtime |-> TRUE, dependencies |-> dependencies,
   signals |-> signals, optional |-> optional, covered |-> covered, telemetry |-> 900,
   group |-> group, upgrades |-> {}, variants |-> {}]
tech(id) == <<"any_techniques", technique(id)>>
MCCatalog ==
  [a \in {"internal-portal", "ftp-archive", "malware-sink", "dionaea-capture", "ops-db"} |->
    CASE a = "internal-portal" ->
           [asset("portal", {}, {technique("T1046"), technique("T1083"), technique("T1018")}, {},
                  {tech("T1083"), tech("T1110"), <<"any_http_paths", "/robots.txt">>}) EXCEPT
              !.variants = {variant("portal-api-directory-links", None,
                                    {<<"any_internal_http_paths", "/directory/hosts.csv">>}, {})}]
      [] a = "ftp-archive" ->
           [asset("archive", {"internal-portal"}, {technique("T1005"), technique("T1039")},
                  {<<"any_http_indicators", <<"path", ".bak">>>>}, {tech("T1039")}) EXCEPT
              !.variants = {variant("ftp-archive-review-banner", "ftp-archive", {tech("T1039")},
                                    {technique("T1039"), technique("T1005")})}]
      [] a = "malware-sink" ->
           [asset("payload-transfer", {"internal-portal"}, {technique("T1105"), technique("T1074")},
                  {<<"any_http_rules", "candidate">>}, {tech("T1105"), tech("T1190")}) EXCEPT
              !.upgrades = {[asset |-> "dionaea-capture",
                             markers |-> {<<"any_internal_http_indicators", <<"path", ".bin">>>>,
                                          tech("T1105")}]},
              !.variants = {variant("malware-dionaea-same-port-upgrade", "dionaea-capture",
                                    {<<"any_internal_http_indicators", <<"path", ".bin">>>>,
                                     tech("T1105")},
                                    {technique("T1105"), technique("T1190")})}]
      [] a = "dionaea-capture" ->
           asset("payload-transfer-high", {"malware-sink"}, {technique("T1105")},
                 {<<"any_internal_http_indicators", <<"path", ".bin">>>>, tech("T1105")}, {})
      [] OTHER -> [asset("database", {}, {technique("T1110")}, {tech("T1110")}, {}) EXCEPT
                     !.runtime = FALSE]]

MCPriorFile ==
  [readable |-> TRUE,
   groups |-> <<<<technique("T1190"), technique("T1105"), technique("T1046")>>,
                <<technique("T1083"), technique("T1005"), technique("T1039"), technique("T1110")>>,
                <<technique("T1110"), technique("T1021"), technique("T1074"), technique("T1110")>>>>]

MCTacticOf ==
  (technique("T1083") :> "discovery") @@ (technique("T1105") :> "command_and_control") @@
  (technique("T1110") :> "credential_access") @@ (<<"T1552", "001">> :> "credential_access")
MCTactics == {"discovery", "command_and_control", "credential_access", "initial_access",
              "lateral_movement", "collection", "exfiltration"}
================================================================================
