--------------------------- MODULE SourceRegistry ---------------------------
(***************************************************************************)
(* The registry of the content sources' X accounts: manifests that are     *)
(* validated and reconciled into endpoints, partitions and schedules while *)
(* runs are under way (acquisition-manifest.ts, registry-state.ts,         *)
(* manifest-reconciler.ts), the identity runs that bind an account's       *)
(* handle to X's stable user id (formal-run-repository.ts,                 *)
(* x-identity-repository.ts), the scans of a partition, and the authors    *)
(* that semantic scans discover.                                           *)
(*                                                                         *)
(* A source entity has one endpoint here, and a partition one schedule.    *)
(* Every transaction locks the rows it decides on, so each is one step;    *)
(* budgets and leases of runs are the matter of FormalRuns.                *)
(***************************************************************************)
EXTENDS Naturals, FiniteSets

CONSTANTS
    Account,        \* endpoint keys of manifests
    Handle, XUser,  \* X handles and numeric user ids
    LegacyUser,     \* the users of sources that were entered before there were manifests
    Partition,      \* partition keys
    MaxManifests,   \* bound: reconciliations
    MaxLookups,     \* bound: identity runs
    MaxScans,       \* bound: scan runs
    MaxAuthors      \* bound: authors discovered

VARIABLES
    account,     \* source_endpoints with their sources' external ids
    partition,   \* source_partitions with members, schedules and checkpoints
    lookup,      \* the active X_IDENTITY run of an endpoint
    scan,        \* the scan runs that workers have, of a partition's schedule
    observed,    \* handles of discovered endpoints
    attributed,  \* history: posts stored, as endpoint and user id
    used         \* reconciliations, lookups, scans and entries so far

registryVars == <<account, partition, lookup, scan, observed, attributed, used>>

None == "none"
NoRun == [pc |-> None]

ASSUME RegistryAssumption ==
    /\ LegacyUser \subseteq XUser /\ None \notin XUser \cup Partition
    /\ {MaxManifests, MaxLookups, MaxScans, MaxAuthors} \subseteq Nat

RegistryInit ==
    /\ account = [a \in Account |-> [handle |-> None, id |-> None, status |-> "PENDING",
                                     due |-> FALSE, active |-> FALSE]]
    /\ partition = [p \in Partition |-> [members |-> {}, active |-> FALSE, checkpoint |-> {}]]
    /\ lookup = [a \in Account |-> NoRun]
    /\ scan = {} /\ observed = {} /\ attributed = {}
    /\ used = [manifests |-> 0, lookups |-> 0, scans |-> 0, authors |-> 0]

-----------------------------------------------------------------------------
(* Manifests.                                                              *)

Manifest == [handle : [Account -> Handle \cup {None}], in : [Account -> Partition \cup {None}]]

\* validateBundle: no handle twice, and the enabled X endpoints are exactly
\* the members of the partitions.
ValidManifest(m) ==
    /\ \A a, b \in Account : a # b /\ m.handle[a] # None => m.handle[a] # m.handle[b]
    /\ \A a \in Account : m.in[a] # None => m.handle[a] # None

\* compileBriefingRegistryState
DesiredMembers(m, p) == {a \in Account : m.in[a] = p}
DesiredAccounts(m) == {a \in Account : m.handle[a] # None}

\* reconcileEndpointIdentity, for an adapter whose locator holds no stable id
ReconciledIdentity(m, a) ==
    LET e == account[a] IN
    IF e.handle = m.handle[a] THEN e ELSE [e EXCEPT !.status = "PENDING", !.due = TRUE]

ReconciledAccount(m, a) ==
    IF a \in DesiredAccounts(m)
    THEN [ReconciledIdentity(m, a) EXCEPT !.handle = m.handle[a], !.active = m.in[a] # None]
    ELSE [account[a] EXCEPT !.active = FALSE]

\* endpointContractChanged and partitionContractChanged
\* (Mutant: only the list of members is compared.)
MembersChanged(m, p) == partition[p].members # DesiredMembers(m, p)
ContractChanged(m, p) ==
    \/ partition[p].members # DesiredMembers(m, p)
    \/ \E a \in DesiredMembers(m, p) : account[a].handle # m.handle[a]

\* Every row is there, of this manifest, and no other is active.
AlreadyApplied(m) ==
    /\ \A a \in DesiredAccounts(m) : account[a] = ReconciledAccount(m, a)
    /\ \A a \in Account : account[a].active = (m.in[a] # None)
    /\ \A p \in Partition : partition[p].members = DesiredMembers(m, p)

\* reconcileBriefingSourceRegistry: the active runs of a schedule that is new
\* to its contract, or no longer wanted, are failed and its state is reset.
Reconcile(m) ==
    LET wanted(p) == DesiredMembers(m, p) # {}
        reset == {p \in Partition : ~wanted(p) \/ ContractChanged(m, p)}
    IN
    /\ used.manifests < MaxManifests /\ ValidManifest(m) /\ ~AlreadyApplied(m)
    /\ account' = [a \in Account |-> ReconciledAccount(m, a)]
    /\ partition' = [p \in Partition |->
         [members |-> DesiredMembers(m, p), active |-> wanted(p),
          checkpoint |-> IF p \in reset THEN {} ELSE partition[p].checkpoint]]
    /\ scan' = {IF r.schedule \in reset THEN [r EXCEPT !.status = "FAILED"] ELSE r : r \in scan}
    /\ used' = [used EXCEPT !.manifests = @ + 1]
    /\ UNCHANGED <<lookup, observed, attributed>>

-----------------------------------------------------------------------------
(* Identities.                                                             *)

\* The retry or the refresh of an identity becomes due; a conflict waits for
\* nothing.
IdentityDue(a) ==
    /\ account[a].handle # None /\ account[a].status # "CONFLICT" /\ ~account[a].due
    /\ account' = [account EXCEPT ![a] = [@ EXCEPT !.due = TRUE]]
    /\ UNCHANGED <<partition, lookup, scan, observed, attributed, used>>

\* The run of the endpoint's handle, or a later check when no call is left.
InsertIdentityRun(a) ==
    \/ lookup' = [lookup EXCEPT ![a] = [pc |-> "active", handle |-> account[a].handle]]
       /\ UNCHANGED account
    \/ account' = [account EXCEPT ![a] = [@ EXCEPT !.due = FALSE]]
       /\ UNCHANGED lookup

\* claimDueXIdentityRuns: the handle is part of the immutable request.
ClaimIdentity(a) ==
    /\ account[a].active /\ account[a].due /\ account[a].status # "CONFLICT"
    /\ lookup[a].pc = None /\ used.lookups < MaxLookups
    /\ InsertIdentityRun(a)
    /\ used' = [used EXCEPT !.lookups = @ + 1]
    /\ UNCHANGED <<partition, scan, observed, attributed>>

\* An id that the endpoint, another endpoint or another source contradicts.
IdentityConflict(a, u) ==
    \/ account[a].id \notin {None, u}
    \/ \E b \in Account \ {a} : account[b].id = u
    \/ u \in LegacyUser

\* persistXIdentityResult and failIdentityResult; None is an answer without
\* one exact match.
PersistIdentity(a, u) ==
    /\ lookup[a].pc = "active"
    /\ account' = [account EXCEPT ![a] =
         CASE u = None -> [@ EXCEPT !.status = "FAILED", !.due = FALSE]
           [] u # None /\ IdentityConflict(a, u) -> [@ EXCEPT !.status = "CONFLICT", !.due = FALSE]
           [] OTHER -> [@ EXCEPT !.id = u, !.status = "VERIFIED", !.due = FALSE]]
    /\ lookup' = [lookup EXCEPT ![a] = NoRun]
    /\ UNCHANGED <<partition, scan, observed, attributed, used>>

\* failXIdentityRun; a run whose lease expired is failed by the next claim
\* and leaves the endpoint due.
IdentityRunFails(a) ==
    /\ lookup[a].pc = "active"
    /\ lookup' = [lookup EXCEPT ![a] = NoRun]
    /\ \/ account[a].status = "CONFLICT" /\ UNCHANGED account
       \/ account[a].status # "CONFLICT"
          /\ account' = [account EXCEPT ![a] = [@ EXCEPT !.status = "FAILED", !.due = FALSE]]
       \/ account[a].due /\ UNCHANGED account
    /\ UNCHANGED <<partition, scan, observed, attributed, used>>

-----------------------------------------------------------------------------
(* Scans.                                                                  *)

\* partitionSnapshot: what the request keeps of the partition.
PartitionSnapshot(p) ==
    {[key |-> a, handle |-> account[a].handle, id |-> account[a].id] : a \in partition[p].members}

\* The part of claimDueFormalRuns that looks at the registry.
Eligible(p) ==
    /\ partition[p].active /\ partition[p].members # {}
    /\ \A a \in partition[p].members : account[a].status = "VERIFIED" /\ account[a].active

ClaimScan(p) ==
    /\ Eligible(p) /\ used.scans < MaxScans
    /\ ~\E r \in scan : r.schedule = p /\ r.status = "RUNNING"
    /\ scan' = scan \cup {[schedule |-> p, of |-> PartitionSnapshot(p), status |-> "RUNNING",
                          no |-> used.scans]}
    /\ used' = [used EXCEPT !.scans = @ + 1]
    /\ UNCHANGED <<account, partition, lookup, observed, attributed>>

\* The worker's result: a post belongs to the member of the snapshot that has
\* its author's handle; a run that was failed meanwhile stores nothing.
PersistScan(r) ==
    /\ IF r.status = "RUNNING"
       THEN /\ partition' = [partition EXCEPT ![r.schedule] = [@ EXCEPT !.checkpoint = r.of]]
            /\ attributed' = attributed \cup {<<s.key, s.id>> : s \in r.of}
       ELSE UNCHANGED <<partition, attributed>>
    /\ scan' = scan \ {r}
    /\ UNCHANGED <<account, lookup, observed, used>>

\* resolveOne: a semantic scan's author without an endpoint gets one.
ResolveAuthor(h) ==
    /\ used.authors < MaxAuthors
    /\ h \notin observed /\ \A a \in Account : account[a].handle # h
    /\ observed' = observed \cup {h}
    /\ used' = [used EXCEPT !.authors = @ + 1]
    /\ UNCHANGED <<account, partition, lookup, scan, attributed>>

RegistryNext ==
    \/ \E m \in Manifest : Reconcile(m)
    \/ \E a \in Account : \/ IdentityDue(a) \/ ClaimIdentity(a) \/ IdentityRunFails(a)
                          \/ \E u \in XUser \cup {None} : PersistIdentity(a, u)
    \/ \E p \in Partition : ClaimScan(p)
    \/ \E r \in scan : PersistScan(r)
    \/ \E h \in Handle : ResolveAuthor(h)

RegistrySpec == RegistryInit /\ [][RegistryNext]_registryVars

-----------------------------------------------------------------------------
(* Properties.                                                             *)

RegistryTypeOK ==
    /\ \A a \in Account : /\ account[a].handle \in Handle \cup {None}
                          /\ account[a].id \in XUser \cup {None}
                          /\ account[a].status \in {"PENDING", "VERIFIED", "CONFLICT", "FAILED"}
    /\ \A p \in Partition : partition[p].members \subseteq Account
    /\ observed \subseteq Handle /\ attributed \subseteq Account \X XUser

\* A run that may still store something, and a checkpoint that later runs
\* continue from, are of the partition's present members under their present
\* handles: a manifest that is reconciled meanwhile leaves none of the old
\* contract (MANIFEST_CONTRACT_CHANGED).
RunsFollowContract ==
    \A p \in Partition :
        LET contract == {<<a, account[a].handle>> : a \in partition[p].members}
            of(snapshot) == {<<s.key, s.handle>> : s \in snapshot}
        IN /\ \A r \in scan : r.schedule = p /\ r.status = "RUNNING"
                                => of(r.of) = contract /\ partition[p].active
           /\ partition[p].checkpoint # {} => of(partition[p].checkpoint) = contract

\* All posts ever stored for an endpoint are one user's, whatever handles the
\* manifests gave it, and no two endpoints have posts of one user.
OneUserPerAccount ==
    \A x, y \in attributed : (x[1] = y[1]) = (x[2] = y[2])

\* A stable id belongs to one source, and only a verified account is scanned.
IdentityIsUnique ==
    /\ \A a, b \in Account : a # b /\ account[a].id # None => account[a].id # account[b].id
    /\ \A a \in Account : /\ account[a].id \notin LegacyUser
                          /\ account[a].status = "VERIFIED" => account[a].id # None

\* The registry's invariant (the properties above).
RegistryInv == RegistryTypeOK /\ RunsFollowContract /\ OneUserPerAccount /\ IdentityIsUnique
=============================================================================
