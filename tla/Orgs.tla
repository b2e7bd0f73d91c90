--------------------------------- MODULE Orgs ---------------------------------
(***************************************************************************)
(* Organisations, their API keys and the audit of administration           *)
(* (shared/src/orgs.ts, gateway/src/routes/orgs.ts, shared/src/audit.ts).  *)
(*                                                                         *)
(* Each function tries the database and falls back on the memory of the    *)
(* process: while the database is down organisations are created in and    *)
(* read from memory, and every request is answered as a success.  A        *)
(* request awaits between its queries, so the database may go or come      *)
(* back, and other requests run, between any two.                          *)
(***************************************************************************)
EXTENDS Naturals, Sequences, FiniteSets, SequencesExt

CONSTANTS
  Orgs,               \* slugs: what slugify makes of the names
  Requesters,         \* requests that may be under way at once
  GlobalAdmins, OrgAdmins,    \* emails, and [Orgs -> emails]
  Emails,
  MaxMemory,          \* of the audit kept in memory
  MaxAudits, MaxOutages, MaxKeysMinted    \* bounds

VARIABLES
  databaseUp, outages,
  orgRows,        \* rows of orgs: [Orgs -> {"none", "live", "deleted"}]
  memoryOrgs,     \* the same, of the process
  keyRows,        \* rows of org_api_keys: the organisation and the key
  minted,         \* keys handed out so far
  requests,       \* per requester: what it does next, for which organisation
                  \* and with which audit entry
  memoryLog, auditRows, audits,   \* the audit in memory, newest first, in the
                  \* database, and the number of entries made
  begun,          \* history: how many had been made when the process started
  answered        \* history: the entries of the requests that were answered, and
                  \* whether the database could be reached for their rows

orgVars == <<databaseUp, outages, orgRows, memoryOrgs, keyRows, minted, requests,
             memoryLog, auditRows, audits, begun, answered>>

database == <<databaseUp, outages>>
auditLog == <<memoryLog, auditRows, audits, begun, answered>>
tenants == <<orgRows, memoryOrgs, keyRows, minted>>

None == "none"
Resting == [next |-> "rest", org |-> None, entry |-> 0]

ASSUME MaxMemoryAssumption == MaxMemory \in Nat

\* resolveOrgRole: the admins of the installation, then those of the
\* organisation; "*" in a list is everybody.
Role(email, org) ==
  CASE {"*", email} \cap GlobalAdmins # {} -> "global_admin"
    [] {"*", email} \cap GlobalAdmins = {} ->
         IF org # None /\ {"*", email} \cap OrgAdmins[org] # {} THEN "org_admin" ELSE "none"

\* canAccessOrg, where the organisation asked for is the one of the role.
CanAccess(role) == role \in {"global_admin", "org_admin"}

OrgInit ==
  /\ databaseUp = TRUE /\ outages = 0
  /\ orgRows = [o \in Orgs |-> "none"]
  /\ memoryOrgs = [o \in Orgs |-> "none"]
  /\ keyRows = {} /\ minted = 0
  /\ requests = [r \in Requesters |-> Resting]
  /\ memoryLog = <<>> /\ auditRows = {} /\ audits = 0
  /\ begun = 0 /\ answered = {}

Goes(r, next, org) ==
  requests' = [requests EXCEPT ![r] = [Resting EXCEPT !.next = next, !.org = org]]

\* createOrg: an insert, which revives a deleted row of the same slug.
Create(r, email, o) ==
  /\ requests[r].next = "rest" /\ Role(email, None) = "global_admin"
  /\ IF databaseUp
       THEN /\ orgRows' = [orgRows EXCEPT ![o] = "live"]
            /\ UNCHANGED memoryOrgs
       ELSE /\ memoryOrgs' = [memoryOrgs EXCEPT ![o] = "live"]
            /\ UNCHANGED orgRows
  /\ Goes(r, "audit", o)
  /\ UNCHANGED <<database, keyRows, minted, auditLog>>

\* softDeleteOrg: a row that is not there is not an error.
SoftDelete(r, email, o) ==
  /\ requests[r].next = "rest" /\ Role(email, o) = "global_admin"
  /\ IF databaseUp
       THEN /\ orgRows' = [orgRows EXCEPT ![o] = IF @ = "live" THEN "deleted" ELSE @]
            /\ UNCHANGED memoryOrgs
       ELSE /\ memoryOrgs' = [memoryOrgs EXCEPT ![o] = IF @ = "live" THEN "deleted" ELSE @]
            /\ UNCHANGED orgRows
  /\ Goes(r, "audit", o)
  /\ UNCHANGED <<database, keyRows, minted, auditLog>>

\* getOrg, and listOrgs one by one.
Visible(o) == IF databaseUp THEN orgRows[o] = "live" ELSE memoryOrgs[o] = "live"

\* POST api-keys: the organisation is looked up, then the key is made and its
\* row inserted; a row that could not be inserted is not missed.
AskForKey(r, email, o) ==
  /\ requests[r].next = "rest" /\ CanAccess(Role(email, o))
  /\ Visible(o) /\ minted < MaxKeysMinted
  /\ Goes(r, "mint", o)
  /\ UNCHANGED <<database, tenants, auditLog>>

Mint(r) ==
  /\ requests[r].next = "mint" /\ minted < MaxKeysMinted
  /\ minted' = minted + 1
  /\ keyRows' =
       IF databaseUp /\ orgRows[requests[r].org] # "none"
         THEN keyRows \cup {[org |-> requests[r].org, key |-> minted + 1]}
         ELSE keyRows
  /\ Goes(r, "audit", requests[r].org)
  /\ UNCHANGED <<database, orgRows, memoryOrgs, auditLog>>

\* A slip the runs must notice: the entry is put at the end that is cut off.
AuditAtTheEnd(r) ==
  /\ requests[r].next = "audit" /\ audits < MaxAudits
  /\ audits' = audits + 1
  /\ memoryLog' = IF Len(memoryLog) < MaxMemory THEN Append(memoryLog, audits + 1) ELSE memoryLog
  /\ requests' = [requests EXCEPT ![r].next = "row", ![r].entry = audits + 1]
  /\ UNCHANGED <<database, tenants, auditRows, begun, answered>>

\* recordAudit: memory at once, no more than its limit; then the row, unless
\* the database is down, which is not reported.
Audit(r) ==
  /\ requests[r].next = "audit" /\ audits < MaxAudits
  /\ audits' = audits + 1
  /\ LET log == <<audits + 1>> \o memoryLog
     IN memoryLog' = IF Len(log) > MaxMemory THEN SubSeq(log, 1, MaxMemory) ELSE log
  /\ requests' = [requests EXCEPT ![r].next = "row", ![r].entry = audits + 1]
  /\ UNCHANGED <<database, tenants, auditRows, begun, answered>>

AuditRow(r) ==
  /\ requests[r].next = "row"
  /\ auditRows' = IF databaseUp THEN auditRows \cup {requests[r].entry} ELSE auditRows
  /\ answered' = answered \cup {[entry |-> requests[r].entry, up |-> databaseUp]}
  /\ requests' = [requests EXCEPT ![r] = Resting]
  /\ UNCHANGED <<database, tenants, memoryLog, audits, begun>>

DatabaseFails ==
  /\ databaseUp /\ outages < MaxOutages
  /\ databaseUp' = FALSE /\ outages' = outages + 1
  /\ UNCHANGED <<tenants, requests, auditLog>>

DatabaseReturns ==
  /\ ~databaseUp
  /\ databaseUp' = TRUE
  /\ UNCHANGED <<outages, tenants, requests, auditLog>>

\* A restart of the gateway: requests under way end, and memory is empty.
OrgRestart ==
  /\ memoryOrgs' = [o \in Orgs |-> "none"]
  /\ memoryLog' = <<>>
  /\ begun' = audits
  /\ requests' = [r \in Requesters |-> Resting]
  /\ UNCHANGED <<database, orgRows, keyRows, minted, auditRows, audits, answered>>

OrgNext ==
  \/ \E r \in Requesters :
       \/ \E email \in Emails, o \in Orgs :
            Create(r, email, o) \/ SoftDelete(r, email, o) \/ AskForKey(r, email, o)
       \/ Mint(r) \/ Audit(r) \/ AuditRow(r)
  \/ DatabaseFails \/ DatabaseReturns \/ OrgRestart

-----------------------------------------------------------------------------
\* A change or a key that a client was told of is on record: in the database if
\* that could be reached for it, and in any case in memory, until a restart or as
\* many newer entries as memory holds; requests that overlap, outages between
\* the change and its entry, and entries written out of order take none from it
\* ("In-memory ring buffer always; Postgres when DATABASE_URL is reachable",
\* shared/src/audit.ts; routes/orgs.ts).
AnsweredChangesAreAudited ==
  \A a \in answered :
    /\ a.up => a.entry \in auditRows
    /\ a.entry > begun /\ a.entry + MaxMemory > audits => a.entry \in ToSet(memoryLog)
=============================================================================
