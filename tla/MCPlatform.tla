----------------------------- MODULE MCPlatform -----------------------------
(***************************************************************************)
(* What one process serves: the store of the native runtime, shared by     *)
(* several simulations; the operations on the scenarios of one simulation; *)
(* the members and an integration of a team workspace; an audit log; the   *)
(* files of the workspace.  They share no variable and their steps         *)
(* commute, so one of them moves in each behaviour: "focus".               *)
(***************************************************************************)
EXTENDS NativeStore, ScenarioRuntime, Memberships, Integrations, AuditLog, WorkspaceFiles

CONSTANTS sim1, sim2, o1, o2, owner, alice, bob

VARIABLE focus

M(name, asked, required, next) ==
    [name |-> name, request |-> asked, required |-> required, next |-> next]

mcCompiled ==
    (sim1 :> <<M("orders1", "buy", "new", "paid"), M("turns1", "get", "Started", "second"),
               M("turns1", "get", "second", "Started"), M("journey", "begin", "any", "begun"),
               M("journey", "see", "begun", "stay")>>)
    @@ (sim2 :> <<M("orders2", "buy", "new", "paid"), M("journey", "begin", "any", "begun")>>)
mcConfigured == [orders1 |-> [initial |-> "new", reset |-> "paid"],
                 orders2 |-> [initial |-> "new", reset |-> "new"]]

-----------------------------------------------------------------------------
NoTimer == [after |-> 0, to |-> "none"]
Timer(after, to) == [after |-> after, to |-> to]

Old == [initial |-> "a", reset |-> "b", handlers |-> 2,
        clients |-> [a |-> {"b"}, b |-> {}],
        timeout |-> [a |-> Timer(2, "b"), b |-> NoTimer],
        topics  |-> [a |-> <<>>, b |-> [t |-> "a"]]]
Cycle == [initial |-> "c", reset |-> "b", handlers |-> 1,
          clients |-> [b |-> {"c"}, c |-> {"c"}],
          timeout |-> [b |-> Timer(1, "c"), c |-> Timer(2, "b")],
          topics  |-> [b |-> <<>>, c |-> [t |-> "b"]]]

mcScenarioIds == <<"s1", "s2">>
mcReleased == {Old, Cycle}

\* An archive with nothing but the file that lists a simulation.
mcForeign == {<<"simulation">>}

-----------------------------------------------------------------------------
Foci == {"store", "scenarios", "members", "integrations", "audit", "files"}

PlatformInit ==
    /\ focus \in Foci
    /\ StoreInit
    /\ RuntimeInit
    /\ Init
    /\ IntegrationInit
    /\ AuditInit
    /\ FilesInit
    /\ IF focus = "scenarios"
       THEN saved["s1"] # <<>> /\ saved["s2"] = IF remote THEN <<>> ELSE <<Old>>
       ELSE ~ remote /\ saved = [s \in Scenarios |-> <<Old>>]

PlatformNext ==
    /\ UNCHANGED focus
    /\ IF focus = "store" THEN StoreNext ELSE UNCHANGED storeVars
    /\ IF focus = "scenarios" THEN RuntimeNext ELSE UNCHANGED runtimeVars
    /\ IF focus = "members" THEN Next ELSE UNCHANGED vars
    /\ IF focus = "integrations" THEN IntegrationNext ELSE UNCHANGED integrationVars
    /\ IF focus = "audit" THEN AuditNext ELSE UNCHANGED auditVars
    /\ IF focus = "files" THEN FilesNext ELSE UNCHANGED fileVars

PlatformSpec ==
    PlatformInit /\ [][PlatformNext]_<<focus, storeVars, runtimeVars, vars, integrationVars,
                                      auditVars, fileVars>>

Symmetry == Permutations(Operations)
=============================================================================
