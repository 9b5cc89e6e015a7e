-------------------------- MODULE ScenarioRevisions --------------------------
(***************************************************************************)
(* The revision history of ONE stateful scenario of ONE simulation, as the *)
(* worker threads of the application read and write it.  Three artifacts   *)
(* of the file workspace hold it:                                          *)
(*                                                                         *)
(*   scenarios/scenarios.json           the definition being edited        *)
(*   scenarios/history/<id>/<n>.json    revision n                         *)
(*   scenarios/revisions.json           number and ETag of the head        *)
(*                                                                         *)
(* Each write replaces one file atomically, so a save is three separate    *)
(* writes and an adoption two, and the process can die between any two of  *)
(* them.  The writes happen under the lock of the revision store; a read   *)
(* request fetches the definition BEFORE it takes that lock.               *)
(*                                                                         *)
(* An ETag is a hash of the definition, so a definition is its own ETag.   *)
(***************************************************************************)
EXTENDS Naturals, FiniteSets

CONSTANTS
    Threads,        \* worker threads that execute requests
    Definitions,    \* valid scenario definitions, by their ETag
    NoDefinition,   \* no such scenario; or no If-Match header
    NoThread,       \* the lock of the revision store is free
    MaxRequests,    \* bound: requests served in a behaviour
    MaxCrashes      \* bound: process crashes in a behaviour

ASSUME ConstantsAssumption ==
    /\ NoDefinition \notin Definitions
    /\ NoThread \notin Threads
    /\ MaxRequests \in Nat
    /\ MaxCrashes \in Nat

VARIABLES
    scenario,   \* scenarios.json: the stored definition
    metadata,   \* revisions.json: the head revision
    history,    \* history/<n>.json: the revision files that exist
    lock,       \* holder of ScenarioRevisionStore._lock
    pc,         \* what each thread does next
    req,        \* the request each thread serves
    call,       \* which caller of _current a thread is in
    pending,    \* the revision a thread is about to write
    requests,   \* number of requests started
    crashes,    \* number of crashes
    answers,    \* ghost: heads returned by reads and saves
    reads       \* ghost: revisions returned from the history directory

disk   == <<scenario, metadata, history>>
local  == <<pc, req, call, pending>>
ghosts == <<answers, reads>>
vars   == <<disk, lock, local, requests, crashes, ghosts>>

-----------------------------------------------------------------------------
(* Data.                                                                   *)

Authors == {"editor", "external-change", "legacy-import"}

\* RevisionMetadata, which is also what identifies the content of a history file.
Revision == [revision : Nat \ {0}, etag : Definitions, createdBy : Authors]

\* revisions.json has no entry for the scenario.
NoRevision == [revision |-> 0, etag |-> NoDefinition, createdBy |-> "nobody"]

Ops == {"get", "history", "revision", "save", "restore"}

Request == [op         : Ops,
            definition : Definitions \cup {NoDefinition},  \* read, or to be saved
            expected   : Definitions \cup {NoDefinition},  \* If-Match
            wanted     : Nat]                              \* revision to fetch

NoRequest == [op |-> "get", definition |-> NoDefinition,
              expected |-> NoDefinition, wanted |-> 0]

Labels == {"idle", "get", "list", "revision", "save", "adoptHistory",
           "adoptMetadata", "decide", "writeScenario", "writeHistory",
           "writeMetadata"}

\* Writing <number>.json creates the file or replaces it.
WithFile(r) == [n \in DOMAIN history \cup {r.revision} |->
                   IF n = r.revision THEN r ELSE history[n]]

\* Mutant: the adopted revision takes the number of the head.
AdoptedInPlace(d) ==
    [revision |-> metadata.revision, etag |-> d, createdBy |-> "external-change"]

\* The revision that _current() adopts for a definition it did not expect.
Adopted(d) ==
    [revision  |-> metadata.revision + 1,
     etag      |-> d,
     createdBy |-> IF metadata = NoRevision THEN "legacy-import"
                                            ELSE "external-change"]

Goto(t, label) == pc' = [pc EXCEPT ![t] = label]

\* The request is answered, or refused, and the thread is free again.
Return(t) ==
    /\ Goto(t, "idle")
    /\ req' = [req EXCEPT ![t] = NoRequest]
    /\ call' = [call EXCEPT ![t] = "get"]
    /\ pending' = [pending EXCEPT ![t] = NoRevision]

Continue(t, label) ==
    IF label = "idle" THEN Return(t)
    ELSE Goto(t, label) /\ UNCHANGED <<req, call, pending>>

\* What a request does once get_scenario() has returned.
AfterGet(op) == CASE op = "get"     -> "idle"
                  [] op = "history" -> "list"
                  [] OTHER          -> "revision"

-----------------------------------------------------------------------------
(* Requests that read: get_scenario, scenario_history, scenario_revision   *)
(* and the first half of restore_scenario_revision.                        *)

\* The definition is read from scenarios.json with no lock held.
ReadDefinition(t, op, n, e) ==
    /\ pc[t] = "idle"
    /\ requests < MaxRequests
    /\ scenario # NoDefinition
    /\ req' = [req EXCEPT ![t] = [op |-> op, definition |-> scenario,
                                  expected |-> e, wanted |-> n]]
    /\ Goto(t, "get")
    /\ requests' = requests + 1
    /\ UNCHANGED <<disk, lock, call, pending, crashes, ghosts>>

\* ScenarioRevisionStore.current() answers at once when the head matches the
\* definition in hand.
CurrentMatches(t) ==
    /\ pc[t] = "get"
    /\ lock = NoThread
    /\ metadata.etag = req[t].definition
    /\ Continue(t, AfterGet(req[t].op))
    /\ answers' = IF req[t].op = "get" THEN answers \cup {metadata} ELSE answers
    /\ UNCHANGED <<disk, lock, requests, crashes, reads>>

\* Mutant: a read adopts without taking the lock.
CurrentDiffersUnlocked(t) ==
    /\ pc[t] \in {"get", "list"}
    /\ lock = NoThread
    /\ metadata.etag # req[t].definition
    /\ call' = [call EXCEPT ![t] = pc[t]]
    /\ pending' = [pending EXCEPT ![t] = Adopted(req[t].definition)]
    /\ Goto(t, "adoptHistory")
    /\ UNCHANGED <<disk, lock, req, requests, crashes, ghosts>>

\* Otherwise the definition in hand is adopted as the next revision.
CurrentDiffers(t) ==
    /\ pc[t] \in {"get", "list"}
    /\ lock = NoThread
    /\ metadata.etag # req[t].definition
    /\ lock' = t
    /\ call' = [call EXCEPT ![t] = pc[t]]
    /\ pending' = [pending EXCEPT ![t] = Adopted(req[t].definition)]
    /\ Goto(t, "adoptHistory")
    /\ UNCHANGED <<disk, req, requests, crashes, ghosts>>

AdoptHistory(t) ==
    /\ pc[t] = "adoptHistory"
    /\ history' = WithFile(pending[t])
    /\ Goto(t, "adoptMetadata")
    /\ UNCHANGED <<scenario, metadata, lock, req, call, pending, requests,
                   crashes, ghosts>>

\* history() lists every file of the directory, newest first.
ListedRevisions == {history[n] : n \in DOMAIN history}

\* revisions.json is written; control returns to the caller of _current().  A
\* save goes on with the lock held, the two readers release it.
AdoptMetadata(t) ==
    /\ pc[t] = "adoptMetadata"
    /\ metadata' = pending[t]
    /\ Continue(t, CASE call[t] = "get"  -> AfterGet(req[t].op)
                     [] call[t] = "list" -> "idle"
                     [] OTHER            -> "decide")
    /\ lock' = IF call[t] = "save" THEN t ELSE NoThread
    /\ answers' = IF call[t] = "get" /\ req[t].op = "get"
                  THEN answers \cup {pending[t]} ELSE answers
    /\ reads' = IF call[t] = "list" THEN reads \cup ListedRevisions ELSE reads
    /\ UNCHANGED <<scenario, history, requests, crashes>>

ListHistory(t) ==
    /\ pc[t] = "list"
    /\ lock = NoThread
    /\ metadata.etag = req[t].definition
    /\ Return(t)
    /\ reads' = reads \cup ListedRevisions
    /\ UNCHANGED <<disk, lock, requests, crashes, answers>>

\* revision() reads one file of the directory, or raises KeyError.  A restore
\* goes on to save what it read.
ReadRevision(t) ==
    LET n == req[t].wanted IN
    /\ pc[t] = "revision"
    /\ lock = NoThread
    /\ IF n \in DOMAIN history
       THEN /\ reads' = reads \cup {history[n]}
            /\ IF req[t].op = "restore"
               THEN /\ req' = [req EXCEPT ![t].definition = history[n].etag]
                    /\ Goto(t, "save")
                    /\ UNCHANGED <<call, pending>>
               ELSE Return(t)
       ELSE Return(t) /\ UNCHANGED reads
    /\ UNCHANGED <<disk, lock, requests, crashes, answers>>

-----------------------------------------------------------------------------
(* Requests that save: configure_scenario, promotion and instantiation of  *)
(* a template, and the second half of a restore.                           *)

StartSave(t, d, e) ==
    /\ pc[t] = "idle"
    /\ requests < MaxRequests
    /\ req' = [req EXCEPT ![t] = [op |-> "save", definition |-> d,
                                  expected |-> e, wanted |-> 0]]
    /\ Goto(t, "save")
    /\ requests' = requests + 1
    /\ UNCHANGED <<disk, lock, call, pending, crashes, ghosts>>

\* The first revision of a scenario that does not exist yet.  With an If-Match
\* there is nothing to match: ScenarioConflictError.
SaveNew(t) ==
    /\ pc[t] = "save"
    /\ lock = NoThread
    /\ scenario = NoDefinition
    /\ IF req[t].expected = NoDefinition
       THEN /\ lock' = t
            /\ pending' = [pending EXCEPT ![t] =
                             [revision |-> 1, etag |-> req[t].definition,
                              createdBy |-> "editor"]]
            /\ Goto(t, "writeScenario")
            /\ UNCHANGED <<req, call>>
       ELSE Return(t) /\ UNCHANGED lock
    /\ UNCHANGED <<disk, requests, crashes, ghosts>>

\* The scenario exists: _current() brings the head up to the stored definition.
SaveExisting(t) ==
    /\ pc[t] = "save"
    /\ lock = NoThread
    /\ scenario # NoDefinition
    /\ lock' = t
    /\ call' = [call EXCEPT ![t] = "save"]
    /\ IF metadata.etag = scenario
       THEN Goto(t, "decide") /\ UNCHANGED pending
       ELSE /\ pending' = [pending EXCEPT ![t] = Adopted(scenario)]
            /\ Goto(t, "adoptHistory")
    /\ UNCHANGED <<disk, req, requests, crashes, ghosts>>

\* Mutant: If-Match is ignored.
NeverConflict(t) == FALSE

Conflict(t) == req[t].expected \notin {NoDefinition, metadata.etag}

\* Mutant: the lock is kept when a save is refused.
RefuseHoldingLock(t) ==
    /\ pc[t] = "decide"
    /\ Conflict(t)
    /\ Return(t)
    /\ UNCHANGED <<disk, lock, requests, crashes, ghosts>>

\* A stale If-Match is refused; an unchanged definition creates no revision.
Refuse(t) ==
    /\ pc[t] = "decide"
    /\ Conflict(t)
    /\ lock' = NoThread
    /\ Return(t)
    /\ UNCHANGED <<disk, requests, crashes, ghosts>>

AnswerUnchanged(t) ==
    /\ pc[t] = "decide"
    /\ ~Conflict(t)
    /\ req[t].definition = metadata.etag
    /\ lock' = NoThread
    /\ Return(t)
    /\ answers' = answers \cup {metadata}
    /\ UNCHANGED <<disk, requests, crashes, reads>>

\* Mutant: an edit is saved under the number of the head.
AcceptInPlace(t) ==
    /\ pc[t] = "decide"
    /\ ~Conflict(t)
    /\ req[t].definition # metadata.etag
    /\ pending' = [pending EXCEPT ![t] = [metadata EXCEPT !.etag = req[t].definition]]
    /\ Goto(t, "writeScenario")
    /\ UNCHANGED <<disk, lock, req, call, requests, crashes, ghosts>>

Accept(t) ==
    /\ pc[t] = "decide"
    /\ ~Conflict(t)
    /\ req[t].definition # metadata.etag
    /\ pending' = [pending EXCEPT ![t] =
                     [revision |-> metadata.revision + 1,
                      etag |-> req[t].definition, createdBy |-> "editor"]]
    /\ Goto(t, "writeScenario")
    /\ UNCHANGED <<disk, lock, req, call, requests, crashes, ghosts>>

\* Mutant: the head is moved before its revision is on file.
WriteScenarioThenMetadata(t) ==
    /\ pc[t] = "writeScenario"
    /\ scenario' = pending[t].etag
    /\ metadata' = pending[t]
    /\ Goto(t, "writeHistory")
    /\ UNCHANGED <<history, lock, req, call, pending, requests, crashes, ghosts>>

WriteScenario(t) ==
    /\ pc[t] = "writeScenario"
    /\ scenario' = pending[t].etag
    /\ Goto(t, "writeHistory")
    /\ UNCHANGED <<metadata, history, lock, req, call, pending, requests,
                   crashes, ghosts>>

WriteHistory(t) ==
    /\ pc[t] = "writeHistory"
    /\ history' = WithFile(pending[t])
    /\ Goto(t, "writeMetadata")
    /\ UNCHANGED <<scenario, metadata, lock, req, call, pending, requests,
                   crashes, ghosts>>

WriteMetadata(t) ==
    /\ pc[t] = "writeMetadata"
    /\ metadata' = pending[t]
    /\ lock' = NoThread
    /\ Return(t)
    /\ answers' = answers \cup {pending[t]}
    /\ UNCHANGED <<scenario, history, requests, crashes, reads>>

-----------------------------------------------------------------------------
\* The process dies and is started again: the files stay, everything the
\* threads held is gone.
Crash ==
    /\ crashes < MaxCrashes
    /\ crashes' = crashes + 1
    /\ lock' = NoThread
    /\ pc' = [t \in Threads |-> "idle"]
    /\ req' = [t \in Threads |-> NoRequest]
    /\ call' = [t \in Threads |-> "get"]
    /\ pending' = [t \in Threads |-> NoRevision]
    /\ UNCHANGED <<disk, requests, ghosts>>

\* A new simulation has no scenario; an imported one, or one written before
\* revisions existed, has a definition and no revision.
Init ==
    /\ scenario \in Definitions \cup {NoDefinition}
    /\ metadata = NoRevision
    /\ history = [n \in {} |-> NoRevision]
    /\ lock = NoThread
    /\ pc = [t \in Threads |-> "idle"]
    /\ req = [t \in Threads |-> NoRequest]
    /\ call = [t \in Threads |-> "get"]
    /\ pending = [t \in Threads |-> NoRevision]
    /\ requests = 0
    /\ crashes = 0
    /\ answers = {}
    /\ reads = {}

\* The requests clients may send.  A wanted revision is one that exists, or the
\* first number that does not.
Client(t) ==
    \/ \E op \in {"get", "history"} : ReadDefinition(t, op, 0, NoDefinition)
    \/ \E n \in 1..(metadata.revision + 1) :
           \/ ReadDefinition(t, "revision", n, NoDefinition)
           \/ \E e \in Definitions \cup {NoDefinition} : ReadDefinition(t, "restore", n, e)
    \/ \E d \in Definitions, e \in Definitions \cup {NoDefinition} : StartSave(t, d, e)

\* Steps that wait for the lock.
Acquire(t) ==
    \/ CurrentMatches(t) \/ CurrentDiffers(t) \/ ListHistory(t)
    \/ ReadRevision(t) \/ SaveNew(t) \/ SaveExisting(t)

\* Steps of the thread that holds it.
Proceed(t) ==
    \/ AdoptHistory(t) \/ AdoptMetadata(t)
    \/ Refuse(t) \/ AnswerUnchanged(t) \/ Accept(t)
    \/ WriteScenario(t) \/ WriteHistory(t) \/ WriteMetadata(t)

Next ==
    \/ \E t \in Threads : Client(t) \/ Acquire(t) \/ Proceed(t)
    \/ Crash

Spec == Init /\ [][Next]_vars

\* A thread inside a lock runs on; a thread that waits for a lock that keeps
\* being released gets it some day.
Fairness == \A t \in Threads : SF_vars(Acquire(t)) /\ WF_vars(Proceed(t))

FairSpec == Spec /\ Fairness

-----------------------------------------------------------------------------
(* Properties.                                                             *)

TypeOK ==
    /\ scenario \in Definitions \cup {NoDefinition}
    /\ metadata \in Revision \cup {NoRevision}
    /\ DOMAIN history \subseteq Nat \ {0}
    /\ \A n \in DOMAIN history : history[n] \in Revision
    /\ lock \in Threads \cup {NoThread}
    /\ pc \in [Threads -> Labels]
    /\ req \in [Threads -> Request]
    /\ call \in [Threads -> {"get", "list", "save"}]
    /\ pending \in [Threads -> Revision \cup {NoRevision}]
    /\ requests \in Nat
    /\ crashes \in Nat
    /\ answers \subseteq Revision
    /\ reads \subseteq Revision

\* Every revision number up to the head has its file, and the file of the head
\* says what revisions.json says: the order of the writes in _save and _current
\* keeps the head from naming a revision that a crash prevented.
HeadIsFiled ==
    /\ \A n \in 1..metadata.revision : n \in DOMAIN history /\ history[n].revision = n
    /\ metadata # NoRevision => history[metadata.revision] = metadata

\* A revision that get_scenario or a save has returned to a client stays on file
\* exactly as it was returned: number, definition and author.
AnswersStayOnFile ==
    \A a \in answers : a.revision \in DOMAIN history /\ history[a.revision] = a

\* A save that carries an If-Match replaces only the definition it names: an
\* older editor never silently replaces newer work (docs/api.md:152-153).
NoLostUpdate ==
    [][\A t \in Threads :
         pc[t] = "writeScenario" /\ pc'[t] = "writeHistory"
             => \/ req[t].expected = NoDefinition
                \/ scenario = req[t].expected]_vars

\* The log of recorded revisions, as clients can know it.
RecordedLog ==
    [n \in 1..metadata.revision |->
        IF n \in DOMAIN history THEN history[n] ELSE NoRevision]

Log == INSTANCE RevisionLog WITH Entries <- Revision, log <- RecordedLog

\* Up to the head, the history is an append-only log: no interleaving of reads
\* that adopt, saves and crashes rewrites or skips a recorded revision.
RefinesRevisionLog == Log!LogSpec

\* Whatever a read of the history has shown under a revision number stays the
\* content of that number ("Read an immutable revision", docs/api.md:15).  Not kept
\* after a crash between the history file and revisions.json: the number is used again.
ReadRevisionsAreImmutable ==
    \A r \in reads : r.revision \in DOMAIN history /\ history[r.revision] = r

\* "Saving an unchanged definition does not create a revision"
\* (docs/api.md:154): once the scenario has a history, the steps of a save of the
\* stored definition add no file to it.
UnchangedSaveCreatesNothing ==
    [][\A t \in Threads :
         (/\ call[t] = "save"
          /\ req[t].definition = scenario
          /\ pc[t] = "adoptHistory"
          /\ pc'[t] = "adoptMetadata") => metadata = NoRevision]_vars

\* Every request is answered: no path of a save or a read keeps the lock.
RequestsComplete ==
    \A t \in Threads : pc[t] # "idle" ~> pc[t] = "idle"
=============================================================================
