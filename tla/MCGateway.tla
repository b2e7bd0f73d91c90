------------------------------ MODULE MCGateway ------------------------------
(* An instance of Gateway for TLC. *)
EXTENDS Gateway

CONSTANT r1

Absolute == {"outside", "workspace file"}
Credentials == {".env"}
CredentialFolders == {"home .ssh"}

\* policy/default-policy.yaml, cut to the names used here.
Default ==
  [canaryBlock |-> TRUE, secretBlock |-> TRUE, blockOnArgs |-> TRUE,
   toolsMode |-> "allowlist",
   toolsAllow |-> {"http_request", "read_file", "write_file", "delete_file", "run_shell",
                   "mcp_call", "spawn_agent", "drop_database"},
   toolsDeny |-> {"raw_exec"},
   domainsMode |-> "allowlist", domainsAllow |-> {"openai"}, domainsDeny |-> {},
   methodsAllow |-> {"GET", "POST"}, methodsDeny |-> {"TRACE"},
   blockedPaths |-> {".env", "home .ssh"}, roots |-> {"workspace file"},
   shellMode |-> "deny_by_default", shellAllow |-> {"ls", "cat sudo", "rm"},
   shellDeny |-> {"cat sudo"},
   mcpMode |-> "allowlist", servers |-> {"memory"}, mcpAllow |-> {}, mcpDeny |-> {"raw_shell"},
   maxDepth |-> 2, destructive |-> {"delete_file", "drop_database"},
   destructiveWords |-> {"rm"},
   inj |-> [scan |-> [system |-> FALSE, user |-> TRUE, untrusted |-> TRUE],
            blockMode |-> TRUE, blockUser |-> FALSE, min |-> "medium"],
   a2a |-> [enabled |-> TRUE, default |-> "REMOTE_UNKNOWN", localTrusted |-> {"alice"},
            localUntrusted |-> {"sandbox"}, verified |-> {}, quarantined |-> {"mallory"},
            blockQuarantined |-> TRUE, blockUnknown |-> FALSE, scan |-> TRUE,
            blockOnInjection |-> TRUE, allowSelf |-> TRUE]]

Tight ==
  [Default EXCEPT !.toolsDeny = {"raw_exec", "write_file"}, !.servers = {"memory"},
                  !.mcpAllow = {"search"}, !.maxDepth = 1, !.domainsDeny = {"openai"},
                  !.inj.blockUser = TRUE,
                  !.a2a.quarantined = {"mallory", "bob"}, !.a2a.verified = {"carol"},
                  !.a2a.blockUnknown = TRUE, !.a2a.allowSelf = FALSE]

Loose ==
  [Default EXCEPT !.canaryBlock = FALSE, !.secretBlock = FALSE, !.blockOnArgs = FALSE,
                  !.toolsMode = "denylist", !.toolsAllow = @ \cup {"webhook", "raw_exec"},
                  !.domainsMode = "denylist", !.blockedPaths = {}, !.mcpMode = "denylist",
                  !.servers = {"memory", "*", "fetch", "fs", "brave"},
                  !.shellMode = "allow_by_default", !.maxDepth = 3,
                  !.inj.blockMode = FALSE, !.inj.min = "high",
                  !.a2a.enabled = FALSE, !.a2a.default = "REMOTE_VERIFIED"]

\* A star among the servers of an allowlist.
Starred ==
  [Default EXCEPT !.servers = {"memory", "*"}, !.toolsAllow = @ \cup {"raw_exec"},
                  !.a2a.default = "LOCAL_UNTRUSTED", !.a2a.blockUnknown = TRUE]

FourPolicies == {Default, Tight, Loose, Starred}

Shell(command) == [BlankCall EXCEPT !.tool = "run_shell", !.text = TRUE, !.command = command]
Http(host, canary, secret) ==
  [EgressCall(host, canary, secret) EXCEPT !.method = "GET"]
File(tool, path) == [BlankCall EXCEPT !.tool = tool, !.text = TRUE, !.path = path]
Drop == [BlankCall EXCEPT !.tool = "drop_database"]
Remove == [Shell("rm") EXCEPT !.wording = "rm"]

SomeCalls ==
  {Shell("ls"), Shell("cat sudo"), Shell(None), Remove, Http("openai", FALSE, FALSE),
   Http("elsewhere", FALSE, TRUE), Http("openai", TRUE, TRUE),
   [Http("openai", FALSE, FALSE) EXCEPT !.method = "TRACE"],
   File("read_file", ".env"), File("read_file", "outside"), File("write_file", "workspace file"),
   File("read_file", "home .ssh"), McpCall("memory", "search"), McpCall("memory", "raw_shell"),
   [McpCall("memory", None) EXCEPT !.mcpTool = None],
   [BlankCall EXCEPT !.tool = "spawn_agent", !.depth = 1, !.depthGiven = TRUE],
   [BlankCall EXCEPT !.tool = "raw_exec"]}

Say(role, hit) == [role |-> role, hit |-> hit, canary |-> FALSE, secret |-> FALSE, plain |-> TRUE]
Chat(messages, tools) == [kind |-> "chat", messages |-> messages, tools |-> tools]

Chats ==
  {Chat(<<>>, <<>>),
   Chat(<<Say("user", "none"), Say("tool", "high")>>, <<>>),
   Chat(<<Say("user", "high"), [Say("system", "none") EXCEPT !.canary = TRUE]>>, <<Shell("ls")>>),
   Chat(<<[Say("user", "medium") EXCEPT !.secret = TRUE], Say("assistant", "none")>>, <<>>),
   Chat(<<[Say("user", "none") EXCEPT !.canary = TRUE, !.plain = FALSE],
          [Say("tool", "medium") EXCEPT !.canary = TRUE]>>, <<>>),
   Chat(<<Say("user", "none")>>, <<Shell("ls"), Drop, Http("openai", FALSE, FALSE)>>),
   Chat(<<Say("user", "none")>>, <<File("write_file", "workspace file"), Remove>>),
   Chat(<<Say("user", "none")>>, <<Shell("ls"), File("read_file", "outside")>>)}

Enforcements == [kind : {"enforce"}, call : SomeCalls, wait : {FALSE}]
                  \cup [kind : {"enforce"}, call : {Drop}, wait : BOOLEAN]

Messages ==
  [kind : {"a2a"}, from : {"alice", "bob", "carol", "dave", "sandbox", "mallory"}, to : {"alice"},
   declared : {"LOCAL_TRUSTED", "REMOTE_VERIFIED", "QUARANTINED", "bogus"},
   hit : {"none", "medium"}]

Proxied ==
  [kind : {"mcp"}, server : {None, "memory", "elsewhere"}, tool : {None, "search", "raw_shell", "rm"},
   toolCall : BOOLEAN, dryRun : {FALSE}, url : BOOLEAN, hit : {"none", "high"}]
    \cup [kind : {"mcp"}, server : {"memory"}, tool : {"search"}, toolCall : {TRUE},
          dryRun : {TRUE}, url : {TRUE}, hit : {"none"}]

Scans == [kind : {"scan"}, source : {"user", "system", "untrusted"}, hit : Hits]

SomeInputs == Chats \cup Enforcements \cup Messages \cup Proxied \cup Scans
OneRequest == {r1}
=============================================================================
