---------------------------- MODULE Permissions ----------------------------
(***************************************************************************)
(* The tool permission analyzer (gateway/src/permissions.ts): what an      *)
(* agent may do under a policy, capability by capability, and the          *)
(* combinations that are too much for one agent.                           *)
(***************************************************************************)
EXTENDS Naturals, FiniteSets

Capabilities == {"filesystem_read", "filesystem_write", "shell", "network", "github",
                 "email", "db", "mcp", "spawn"}

\* TOOL_CAPABILITY_MAP, and what the names of tools hint at.
CapabilityTools ==
  [filesystem_read |-> {"read_file", "list_files"},
   filesystem_write |-> {"write_file", "delete_file"},
   shell |-> {"run_shell"},
   network |-> {"http_request", "fetch", "web_search"},
   github |-> {"force_push"},
   email |-> {"send_email_blast", "send_email"},
   db |-> {"drop_database"},
   mcp |-> {"mcp_call"},
   spawn |-> {"spawn_agent"}]

\* A slip the runs must notice: denied tools are not taken from the allow list.
AllowedToolsDeniedToo(p, declared) == p.toolsAllow \cup declared

\* allowedTools: outside the allowlist mode the allow list alone, from which
\* the denied tools are not taken, plus the tools the agent declares.
AllowedTools(p, declared) ==
  (IF p.toolsMode = "allowlist" THEN p.toolsAllow \ p.toolsDeny ELSE p.toolsAllow)
    \cup declared

\* buildMatrix: granted by a tool, or by the agent's own configuration.
Granted(p, declared, explicit) ==
  {k \in Capabilities : CapabilityTools[k] \cap AllowedTools(p, declared) # {}} \cup explicit

Combinations ==
  {[id |-> "shell_network", needs |-> {"shell", "network"}, severity |-> 3],
   [id |-> "fs_write_network", needs |-> {"filesystem_write", "network"}, severity |-> 3],
   [id |-> "full_agency_triangle", needs |-> {"shell", "filesystem_write", "network"},
    severity |-> 4],
   [id |-> "spawn_shell", needs |-> {"spawn", "shell"}, severity |-> 3],
   [id |-> "email_read", needs |-> {"email", "filesystem_read"}, severity |-> 2],
   [id |-> "db_network", needs |-> {"db", "network"}, severity |-> 3],
   [id |-> "github_shell", needs |-> {"github", "shell"}, severity |-> 2]}

BroadMcp == [id |-> "broad_mcp", needs |-> {"mcp", "network"}, severity |-> 2]
OpenShell == [id |-> "shell_not_deny_default", needs |-> {"shell"}, severity |-> 4]

\* analyzeFindings.
Findings(p, granted) ==
  {f \in Combinations : f.needs \subseteq granted}
    \cup {f \in {BroadMcp} : f.needs \subseteq granted /\ Cardinality(p.servers) > 4}
    \cup {f \in {OpenShell} : f.needs \subseteq granted /\ p.shellMode # "deny_by_default"}

\* analyzePermissions' summary.max_severity, 0 for none.
MaxSeverity(findings) ==
  IF findings = {} THEN 0
  ELSE CHOOSE s \in {f.severity : f \in findings} : \A f \in findings : f.severity <= s
=============================================================================
