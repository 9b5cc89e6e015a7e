----------------------------- MODULE Memberships -----------------------------
(***************************************************************************)
(* The members of ONE team workspace.  A request reads the role of its     *)
(* caller in one transaction of the platform store and changes the         *)
(* membership in a later one; requests of several worker threads           *)
(* interleave in between.                                                  *)
(***************************************************************************)
EXTENDS Naturals, FiniteSets

CONSTANTS
    Subjects,       \* who may be a member
    PlatformAdmins, \* subjects whose API key has the admin role
    Creator,        \* the platform admin who created the workspace
    Threads,        \* worker threads that serve requests
    NoRequest       \* a thread that serves none

ASSUME MembershipAssumption ==
    /\ PlatformAdmins \subseteq Subjects
    /\ Creator \in PlatformAdmins

VARIABLES
    role,       \* platform_memberships.role ("none": no row)
    request     \* the authorized request of each thread

vars == <<role, request>>

-----------------------------------------------------------------------------
Roles == {"viewer", "operator", "admin"}

\* "none" as the new role asks to remove the member.
Request == [caller : Subjects, subject : Subjects, new : Roles \cup {"none"}]

Admins == {s \in Subjects : role[s] = "admin"}

\* _require_workspace_admin().
MayAdminister(caller) == caller \in PlatformAdmins \/ role[caller] = "admin"

\* A request that is not authorized ends here (403).
Authorize(t, asked) ==
    /\ request[t] = NoRequest
    /\ MayAdminister(asked.caller)
    /\ request' = [request EXCEPT ![t] = asked]
    /\ UNCHANGED role

Done(t) == request' = [request EXCEPT ![t] = NoRequest]

\* Mutant: the role is stored without the check of the column.
SetMemberUnchecked(t) ==
    /\ request[t] # NoRequest
    /\ role' = [role EXCEPT ![request[t].subject] = "owner"]
    /\ Done(t)

\* An INSERT that updates the row of a member.
SetMember(t) ==
    /\ request[t] # NoRequest
    /\ request[t].new # "none"
    /\ role' = [role EXCEPT ![request[t].subject] = request[t].new]
    /\ Done(t)

\* Mutant: an off-by-one in the count of the admins.
RemoveMemberCount(t) ==
    LET s == request[t].subject IN
    /\ request[t] # NoRequest
    /\ request[t].new = "none"
    /\ role' = IF role[s] = "admin" /\ Cardinality(Admins) = 0 THEN role
               ELSE [role EXCEPT ![s] = "none"]
    /\ Done(t)

\* The role is read, the admins are counted and the row is deleted in one
\* transaction; the last admin stays (409), and a stranger is not found (404).
RemoveMember(t) ==
    LET s == request[t].subject IN
    /\ request[t] # NoRequest
    /\ request[t].new = "none"
    /\ role' = IF role[s] = "admin" /\ Cardinality(Admins) = 1 THEN role
               ELSE [role EXCEPT ![s] = "none"]
    /\ Done(t)

\* create_workspace() inserts the workspace and its creator as admin together.
Init ==
    /\ role = [s \in Subjects |-> IF s = Creator THEN "admin" ELSE "none"]
    /\ request = [t \in Threads |-> NoRequest]

Next ==
    \E t \in Threads :
        \/ \E asked \in Request : Authorize(t, asked)
        \/ SetMember(t) \/ RemoveMember(t)

Spec == Init /\ [][Next]_vars

-----------------------------------------------------------------------------
(* Properties.                                                             *)

TypeOK ==
    /\ role \in [Subjects -> Roles \cup {"none"}]
    /\ request \in [Threads -> Request \cup {NoRequest}]

\* Removals never leave the workspace without an admin, even when several remove the
\* admins at the same time: they cannot all find another one.
RemovalsKeepAnAdmin ==
    [][\A s \in Subjects : role[s] = "admin" /\ role'[s] = "none" => Admins' # {}]_vars

\* "A workspace must retain at least one admin" (platform_store.py:289).  Not kept:
\* SetMember may give the last one another role.
AdminRemains == Admins # {}
=============================================================================
