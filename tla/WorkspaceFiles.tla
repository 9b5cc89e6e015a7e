--------------------------- MODULE WorkspaceFiles ---------------------------
(***************************************************************************)
(* The files of one simulation and of one template in a workspace, while   *)
(* requests create, change, back up and restore them.  An operation is a   *)
(* list of files whose absence it checks and a list of files it writes, in *)
(* order, one step each.  Files of a simulation are replaced atomically;   *)
(* those of templates and restores are written in place.  Any write may    *)
(* fail, and a restore's also because its entry cannot be read.  What a    *)
(* file says is left out.                                                  *)
(***************************************************************************)
EXTENDS Naturals, Sequences, SequencesExt

CONSTANTS
    Requesters,     \* threads and the event loop: one operation each
    Foreign,        \* archives that no backup made, each a list of files without repeats
    MaxOperations,  \* bound: the operations
    MaxKills        \* bound: how often the process dies

VARIABLES
    present,        \* the files that exist
    torn,           \* those of them that are not written to the end
    archive,        \* the files of the backup that was taken last
    operation,      \* of each requester: [kind, checks, writes, wrote]
    operations, kills,  \* counters of the bounds
    foreign,        \* ghost: an archive that no backup made was uploaded
    overwritten,    \* ghost: a restore replaced a file
    halfWritten     \* ghost: a restore ended with an error after it had written

ghosts == <<foreign, overwritten, halfWritten>>
fileVars == <<present, torn, archive, operation, operations, kills, ghosts>>

-----------------------------------------------------------------------------
Files == {"profile", "contract", "data", "mappings", "scenarios", "simulation", "template"}

IfPresent(file) == IF file \in present THEN <<file>> ELSE <<>>

ASSUME FilesAssumption == Foreign \subseteq Seq(Files) /\ {MaxOperations, MaxKills} \subseteq Nat

\* Mutant: a backup lists the files of a directory before its subdirectories.
ListingTopFirst ==
    IfPresent("contract") \o IfPresent("simulation") \o IfPresent("profile") \o IfPresent("data")
        \o IfPresent("mappings") \o IfPresent("scenarios") \o IfPresent("template")

\* The files that a backup finds, sorted by their paths.
Listing ==
    IfPresent("profile") \o IfPresent("contract") \o IfPresent("data") \o IfPresent("mappings")
        \o IfPresent("scenarios") \o IfPresent("simulation") \o IfPresent("template")

NoWork == [kind |-> "none", checks |-> <<>>, writes |-> <<>>, wrote |-> {}]

Work(kind, checks, writes) == [kind |-> kind, checks |-> checks, writes |-> writes, wrote |-> {}]

\* Mutant: a simulation is listed before its contract is there.
CreatesListedFirst == <<"simulation", "contract", "profile">>

\* create() of the repository.
Creates == <<"contract", "simulation", "profile">>

\* compile(): the mappings, then update_status().
Compiles == <<"mappings", "simulation">>

\* import_bundle(): creates the simulation, writes what the bundle has, and compiles it.
Imports == Creates \o <<"data", "scenarios", "profile", "simulation">> \o Compiles

\* What a request of each kind writes when it ends well.
Writes ==
    [create   |-> Creates,
     import   |-> Imports,
     generate |-> <<"data", "simulation">>,
     compile  |-> Compiles,
     activate |-> <<"profile", "simulation">> \o Compiles,
     scenario |-> <<"scenarios">>,
     deploy   |-> <<"simulation">>]

\* The id of a simulation that is created is new: no file, no backup and nothing that is
\* being written has it.
Unknown ==
    /\ \A r \in Requesters : ToSet(operation[r].writes) \subseteq {"template"}
    /\ (present \cup ToSet(archive)) \subseteq {"template"}

MayStart(r) ==
    /\ operation[r] = NoWork
    /\ operations < MaxOperations
    /\ operations' = operations + 1

StartRequest(r, kind) ==
    /\ MayStart(r)
    /\ IF kind \in {"create", "import"}
       THEN Unknown
       ELSE "simulation" \in present
    /\ operation' = [operation EXCEPT ![r] = Work(kind, <<>>, Writes[kind])]
    /\ UNCHANGED <<present, torn, archive, kills, ghosts>>

\* ScenarioTemplateStore.create(): 409 if the template exists.
StartTemplate(r) ==
    /\ MayStart(r)
    /\ operation' = [operation EXCEPT ![r] = Work("template", <<"template">>, <<"template">>)]
    /\ UNCHANGED <<present, torn, archive, kills, ghosts>>

\* restore_workspace_backup() of the last backup or of any other archive a client uploads:
\* every target is checked, then every file is written.  It runs on the event loop without
\* an await, so there is never a second one.
StartRestore(r) ==
    /\ MayStart(r)
    /\ \A other \in Requesters : operation[other].kind # "restore"
    /\ \E upload \in Foreign \cup ({archive} \ {<<>>}) :
        /\ operation' = [operation EXCEPT ![r] = Work("restore", upload, upload)]
        /\ foreign' = (foreign \/ upload # archive)
    /\ UNCHANGED <<present, torn, archive, kills, overwritten, halfWritten>>

\* An operation ends with an error.
Fails(r) ==
    LET w == operation[r] IN
    /\ operation' = [operation EXCEPT ![r] = NoWork]
    /\ halfWritten' = (halfWritten \/ (w.kind = "restore" /\ w.wrote # {}))

\* A file that must be absent: the operation is refused if it is not.
CheckFile(r) ==
    LET w == operation[r] IN
    /\ w.checks # <<>>
    /\ IF Head(w.checks) \in present
       THEN Fails(r)
       ELSE /\ operation' = [operation EXCEPT ![r].checks = Tail(@)]
            /\ UNCHANGED halfWritten
    /\ UNCHANGED <<present, torn, archive, operations, kills, foreign, overwritten>>

MayWrite(r) == operation[r].checks = <<>> /\ operation[r].writes # <<>>

InPlace(r) == operation[r].kind \in {"template", "restore"}

\* A write of a restore to a file that is there.
Overwrites(r) == operation[r].kind = "restore" /\ Head(operation[r].writes) \in present

WriteFile(r) ==
    LET w == operation[r]
        file == Head(w.writes)
    IN  /\ MayWrite(r)
        /\ present' = present \cup {file}
        /\ torn' = torn \ {file}
        /\ overwritten' = (overwritten \/ Overwrites(r))
        /\ operation' = [operation EXCEPT ![r] =
                            IF Len(w.writes) = 1 THEN NoWork
                            ELSE [w EXCEPT !.writes = Tail(@), !.wrote = @ \cup {file}]]
        /\ UNCHANGED <<archive, operations, kills, foreign, halfWritten>>

\* A write fails: the disk is full, or the entry of an archive is damaged, encrypted or in
\* the place of a directory.  What was to be written in place may be cut off.
FailWrite(r) ==
    /\ MayWrite(r)
    /\ \E cut \in {{}} \cup IF InPlace(r) THEN {{Head(operation[r].writes)}} ELSE {} :
        /\ present' = present \cup cut
        /\ torn' = torn \cup cut
        /\ overwritten' = (overwritten \/ (cut # {} /\ Overwrites(r)))
    /\ Fails(r)
    /\ UNCHANGED <<archive, operations, kills, foreign>>

\* create_workspace_backup().  It lists the files and then reads them one by one; that is one
\* step, because no file of a simulation is ever deleted, so what is listed can be read, and
\* what the files say is left out.
Backup ==
    /\ archive' = Listing
    /\ archive # archive'
    /\ UNCHANGED <<present, torn, operation, operations, kills, ghosts>>

\* The workspace is lost, or the backup is taken to another one.
StartEmpty ==
    /\ \A r \in Requesters : operation[r] = NoWork
    /\ present # {}
    /\ present' = {}
    /\ torn' = {}
    /\ UNCHANGED <<archive, operation, operations, kills, ghosts>>

\* The process dies; of the files that are written in place, some are cut off.
Kill ==
    /\ kills < MaxKills
    /\ kills' = kills + 1
    /\ \E cut \in SUBSET {r \in Requesters : MayWrite(r) /\ InPlace(r)} :
        LET files == {Head(operation[r].writes) : r \in cut} IN
        /\ present' = present \cup files
        /\ torn' = torn \cup files
        /\ overwritten' = (overwritten \/ \E r \in cut : Overwrites(r))
    /\ operation' = [r \in Requesters |-> NoWork]
    /\ UNCHANGED <<archive, operations, foreign, halfWritten>>

FilesInit ==
    /\ present = {}
    /\ torn = {}
    /\ archive = <<>>
    /\ operation = [r \in Requesters |-> NoWork]
    /\ operations = 0
    /\ kills = 0
    /\ foreign = FALSE
    /\ overwritten = FALSE
    /\ halfWritten = FALSE

FilesNext ==
    \/ \E r \in Requesters :
        \/ \E kind \in DOMAIN Writes : StartRequest(r, kind)
        \/ StartTemplate(r)
        \/ StartRestore(r)
        \/ CheckFile(r)
        \/ WriteFile(r)
        \/ FailWrite(r)
    \/ Backup
    \/ StartEmpty
    \/ Kill

FilesSpec == FilesInit /\ [][FilesNext]_fileVars

-----------------------------------------------------------------------------
(* Properties.                                                             *)

Kinds == {"none", "template", "restore"} \cup DOMAIN Writes

Operation == [kind : Kinds, checks : Seq(Files), writes : Seq(Files), wrote : SUBSET Files]

FilesTypeOK ==
    /\ present \subseteq Files
    /\ torn \subseteq present
    /\ archive \in Seq(Files)
    /\ operation \in [Requesters -> Operation]
    /\ {operations, kills} \subseteq Nat
    /\ {foreign, overwritten, halfWritten} \subseteq BOOLEAN

\* A simulation that list_simulations() lists has its contract, whole, wherever a creation,
\* an import, a backup or a restore fails or is cut short - as long as only backups are
\* restored; one without it would make the whole list fail.
ListedHasContract ==
    "simulation" \in present /\ ~ foreign => "contract" \in present \ torn

\* A restore that makes a simulation listed, by writing its file or by being cut short in it,
\* has written every other file of it that the backup has, whole: a restore that fails or is
\* killed half way leaves no listed simulation that lacks its data or its mappings.
RestoredIsWhole ==
    [][\A r \in Requesters :
        LET w == operation[r] IN
        /\ ~ foreign'
        /\ w.kind = "restore" /\ operation'[r] # w
        /\ "simulation" \in present' \ present
        => (w.wrote \cup ToSet(w.writes)) \ {"simulation", "template"} \subseteq present' \ torn'
      ]_fileVars

\* "Restore validates all entries before writing" (docs/api.md:225).
FailedRestoresWriteNothing == ~ halfWritten

=============================================================================
