---------------------------- MODULE MCStartPolicy ----------------------------
(* Start-up in chosen configurations: listeners, and one setting at a time. *)
EXTENDS StartPolicy

Sound ==
  [numbers |-> [v \in NumberVars |-> "unset"], key_file |-> "unset", pubkey |-> "unset",
   aud_iss |-> FALSE, timeout |-> "unset", files_good |-> TRUE, addr |-> "unset",
   plaintext |-> FALSE, plaintext_hatch |-> FALSE, shared_token |-> FALSE, flag |-> "unset",
   search_path |-> "unset", public_url |-> "unset", unknown |-> {}]

\* One thing said in the environment, or one thing wrong with it.
OneOff ==
  {[Sound EXCEPT !.numbers[v] = form] : v \in NumberVars, form \in NumberForms \ {"unset"}}
  \cup {[Sound EXCEPT !.numbers["MCP_RATE_RPM"] = x, !.numbers["MCP_RATE_RPM_STDIO"] = x,
                       !.numbers["MCP_RATE_BURST"] = y] :
          x \in {"plain", "nan", "inf"}, y \in {"zero", "nan", "inf"}}
  \cup {[Sound EXCEPT !.key_file = x] : x \in {"empty", "unreadable", "good"}}
  \cup {[Sound EXCEPT !.pubkey = x, !.aud_iss = y] : x \in {"bad", "good"}, y \in BOOLEAN}
  \cup {[Sound EXCEPT !.timeout = x] : x \in {"blank", "bad", "good"}}
  \cup {[Sound EXCEPT !.flag = x] : x \in {"1", "padded", "other"}}
  \cup {[Sound EXCEPT !.unknown = x] : x \in SUBSET {"near", "far", "reserved"}}
  \cup {[Sound EXCEPT !.plaintext = TRUE, !.plaintext_hatch = x] : x \in BOOLEAN}
  \cup {[Sound EXCEPT !.files_good = FALSE], [Sound EXCEPT !.addr = "bad"],
        [Sound EXCEPT !.shared_token = TRUE], [Sound EXCEPT !.search_path = "bad"],
        [Sound EXCEPT !.public_url = "bad"]}

Local ==
  [transport |-> "stdio", loopback |-> TRUE, auth |-> "none", platform |-> FALSE,
   anonymous |-> FALSE, excessive |-> FALSE, redact |-> "off", audit |-> "keyed",
   public_url |-> FALSE, tls |-> "on", env |-> Sound]

Network == [Local EXCEPT !.transport = "http", !.loopback = FALSE, !.auth = "oauth", !.public_url = TRUE]

Listeners ==
  {Local, Network, [Network EXCEPT !.auth = "none"], [Network EXCEPT !.auth = "none", !.platform = TRUE],
   [Network EXCEPT !.auth = "none", !.anonymous = TRUE], [Network EXCEPT !.excessive = TRUE],
   [Network EXCEPT !.redact = "require", !.auth = "token"], [Network EXCEPT !.redact = "advise"],
   [Network EXCEPT !.audit = "plain", !.tls = "off"], [Network EXCEPT !.public_url = FALSE], [Network EXCEPT !.tls = "off"],
   [Local EXCEPT !.transport = "http", !.auth = "token", !.audit = "stderr", !.tls = "local"]}

StartConfigs == Listeners \cup {[Local EXCEPT !.env = e] : e \in OneOff}
NetworkOnly == {Network}
Redacted == {[Network EXCEPT !.redact = "require"]}
=============================================================================
