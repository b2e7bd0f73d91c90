------------------------------- MODULE Policy -------------------------------
(***************************************************************************)
(* The policy ladder (policy/src/engine.ts): evaluatePolicy tries its      *)
(* rules from the top and the first that applies denies the call; a call   *)
(* no rule denies is queued for approval when destructive, else allowed.   *)
(*                                                                         *)
(* A list of patterns in the policy file is the set of things it matches;  *)
(* an empty list matches nothing and a list in a file matches something.   *)
(* A call is what evaluateToolCall reads from its name and arguments: the  *)
(* fields below, None for an argument that is absent.                      *)
(***************************************************************************)
EXTENDS Naturals, Sequences, FiniteSets

CONSTANTS
  None,
  AbsolutePaths,    \* paths that begin with / or a drive letter
  CredentialFiles,  \* .env, .env.*, id_rsa, id_ed25519, credentials, credentials.json
  CredentialDirs    \* paths with /.ssh or /.aws/ in them

FileTools == {"read_file", "write_file", "list_files", "delete_file"}

\* OUTBOUND_TOOL_NAMES, as far as the calls considered name them.
OutboundTools == {"http_request", "fetch", "web_search", "mcp_call", "send_email",
                  "send_email_blast", "webhook", "post_message"}

\* The rules in the order they are tried.
Order ==
  << "canary.block", "secret.egress", "tools.deny", "tools.allowlist", "domains.deny",
     "domains.allowlist", "http.method.deny", "http.method.allow", "filesystem.block",
     "shell.empty", "shell.deny_pattern", "shell.deny_by_default", "mcp.server.required",
     "mcp.allowlist", "mcp.tool.deny", "mcp.tool.allowlist", "mcp.tool.required",
     "agent_spawn.depth" >>

When(rule, applies) == IF applies THEN {rule} ELSE {}

\* What leaves: a destination, a body, or a tool known to send things out.
\* evaluateToolCall passes any text of the arguments as the body.
Outbound(c) == c.host # None \/ c.text \/ c.tool \in OutboundTools

\* Canary markers and secrets anywhere in the call.
SecretDenials(p, c) ==
  When("canary.block", c.canary /\ p.canaryBlock)
  \cup When("secret.egress", /\ c.secret /\ p.secretBlock
                             /\ Outbound(c) \/ (p.blockOnArgs /\ c.tool # None))

ToolDenials(p, c) ==
  When("tools.deny", c.tool \in p.toolsDeny)
  \cup When("tools.allowlist",
            c.tool # None /\ p.toolsMode = "allowlist" /\ c.tool \notin p.toolsAllow)

HostDenials(p, c) ==
  When("domains.deny", c.host \in p.domainsDeny)
  \cup When("domains.allowlist",
            c.host # None /\ p.domainsMode = "allowlist" /\ c.host \notin p.domainsAllow)

MethodDenials(p, c) ==
  When("http.method.deny", c.method \in p.methodsDeny)
  \cup When("http.method.allow", c.method # None /\ c.method \notin p.methodsAllow)

\* isPathBlocked: the credential names are tried within the loop over the
\* blocked patterns, so an empty list does not try them.
PathBlocked(p, f) ==
  \/ f \in p.blockedPaths
  \/ p.blockedPaths # {} /\ f \in CredentialFiles
  \/ f \in AbsolutePaths /\ f \notin p.roots
  \/ f \in CredentialDirs

PathDenials(p, c) == When("filesystem.block", c.path # None /\ PathBlocked(p, c.path))

\* A slip the runs must notice: in deny_by_default mode a deny pattern is not
\* tried on what an allow pattern matches.
ShellDenialsAllowFirst(p, c) ==
  LET shell == c.command # None \/ c.tool = "run_shell" IN
  When("shell.empty", shell /\ c.command = None)
  \cup When("shell.deny_pattern",
            /\ c.command \in p.shellDeny
            /\ p.shellMode = "deny_by_default" => c.command \notin p.shellAllow)
  \cup When("shell.deny_by_default",
            shell /\ p.shellMode = "deny_by_default" /\ c.command \notin p.shellAllow)

ShellDenials(p, c) ==
  LET shell == c.command # None \/ c.tool = "run_shell" IN
  When("shell.empty", shell /\ c.command = None)
  \cup When("shell.deny_pattern", c.command \in p.shellDeny)
  \cup When("shell.deny_by_default",
            shell /\ p.shellMode = "deny_by_default" /\ c.command \notin p.shellAllow)

\* An empty allow_tools admits every tool of an allowed server, a call that
\* names no tool included; the mode is about servers only.
McpDenials(p, c) ==
  LET mcp == c.server # None \/ c.mcpTool # None \/ c.tool = "mcp_call" IN
  When("mcp.server.required", mcp /\ c.server = None)
  \cup When("mcp.allowlist", mcp /\ p.mcpMode = "allowlist" /\ c.server \notin p.servers)
  \cup When("mcp.tool.deny", c.mcpTool \in p.mcpDeny)
  \cup When("mcp.tool.allowlist",
            c.mcpTool # None /\ p.mcpAllow # {} /\ c.mcpTool \notin p.mcpAllow)
  \cup When("mcp.tool.required", mcp /\ c.mcpTool = None /\ p.mcpAllow # {})

\* depth is 0 unless the caller gives one; the call of another tool that gives
\* one is held to the limit as well.
SpawnDenials(p, c) ==
  When("agent_spawn.depth",
       (c.tool = "spawn_agent" \/ c.depthGiven) /\ c.depth >= p.maxDepth)

\* The rules that deny call c under policy p.
Denials(p, c) ==
  SecretDenials(p, c) \cup ToolDenials(p, c) \cup HostDenials(p, c)
    \cup MethodDenials(p, c) \cup PathDenials(p, c) \cup ShellDenials(p, c)
    \cup McpDenials(p, c) \cup SpawnDenials(p, c)

\* isDestructive: by the name of the tool, or by a pattern over its arguments.
Destructive(p, c) == c.tool \in p.destructive \/ c.wording \in p.destructiveWords

\* A canary that is not to be blocked, and a secret, stay listed in the
\* decision; the canary rung decides before secrets are looked for.
Verdict(action, rule, c) ==
  [action |-> action, rule |-> rule, canary |-> c.canary,
   secret |-> c.secret /\ rule # "canary.block"]

\* The first rule that applies, in the order above.
First(rules) ==
  Order[CHOOSE n \in DOMAIN Order :
          Order[n] \in rules /\ \A k \in DOMAIN Order : Order[k] \in rules => n <= k]

Decision(p, c) ==
  IF Denials(p, c) # {} THEN Verdict("deny", First(Denials(p, c)), c)
  ELSE IF Destructive(p, c) THEN Verdict("require_approval", "destructive.approval", c)
  ELSE Verdict("allow", "default.allow", c)

-----------------------------------------------------------------------------
(* The call enforceEgressText checks: a POST of the chat's text to the     *)
(* upstream's host.                                                        *)

BlankCall ==
  [tool |-> None, host |-> None, text |-> FALSE, method |-> None, path |-> None,
   command |-> None, server |-> None, mcpTool |-> None, depth |-> 0,
   depthGiven |-> FALSE, wording |-> None, canary |-> FALSE, secret |-> FALSE]

EgressCall(host, canary, secret) ==
  [BlankCall EXCEPT !.tool = "http_request", !.host = host, !.text = TRUE,
                    !.method = "POST", !.canary = canary, !.secret = secret]

\* The mcp_call the MCP proxy has enforced: a call without a tool name is
\* enforced as one of tool "unknown"; its name is part of what the destructive
\* patterns are tried on.
McpCall(server, tool) ==
  [BlankCall EXCEPT !.tool = "mcp_call", !.text = TRUE, !.server = server, !.wording = tool,
                    !.mcpTool = IF tool = None THEN "unknown" ELSE tool]

-----------------------------------------------------------------------------
(* What a stricter policy is: more is denied, less is allowed.             *)

\* q is p made stricter.  Emptying allow_tools is not: the empty list lifts the
\* limit it had set, and an empty blocked_paths the credential file names.
Stricter(q, p) ==
  /\ p.canaryBlock => q.canaryBlock
  /\ p.secretBlock => q.secretBlock
  /\ p.blockOnArgs => q.blockOnArgs
  /\ p.toolsMode = "allowlist" => q.toolsMode = "allowlist"
  /\ p.domainsMode = "allowlist" => q.domainsMode = "allowlist"
  /\ p.shellMode = "deny_by_default" => q.shellMode = "deny_by_default"
  /\ p.mcpMode = "allowlist" => q.mcpMode = "allowlist"
  /\ p.toolsDeny \subseteq q.toolsDeny /\ q.toolsAllow \subseteq p.toolsAllow
  /\ p.domainsDeny \subseteq q.domainsDeny /\ q.domainsAllow \subseteq p.domainsAllow
  /\ p.methodsDeny \subseteq q.methodsDeny /\ q.methodsAllow \subseteq p.methodsAllow
  /\ p.blockedPaths \subseteq q.blockedPaths /\ q.roots \subseteq p.roots
  /\ p.shellDeny \subseteq q.shellDeny /\ q.shellAllow \subseteq p.shellAllow
  /\ q.servers \subseteq p.servers /\ p.mcpDeny \subseteq q.mcpDeny
  /\ p.mcpAllow # {} => q.mcpAllow # {} /\ q.mcpAllow \subseteq p.mcpAllow
  /\ q.maxDepth <= p.maxDepth
  /\ p.destructive \subseteq q.destructive
  /\ p.destructiveWords \subseteq q.destructiveWords
=============================================================================
