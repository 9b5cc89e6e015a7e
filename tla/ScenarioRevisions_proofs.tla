---------------------- MODULE ScenarioRevisions_proofs ----------------------
(***************************************************************************)
(* Proofs about ScenarioRevisions, for any number of threads, definitions, *)
(* requests and crashes.                                                   *)
(*                                                                         *)
(* The safety properties of the module are not inductive: that the head is *)
(* filed after the last write of a save depends on what the thread wrote   *)
(* before, and on no other thread having moved the head meanwhile.  The    *)
(* inductive invariant IInv adds who holds the lock, what a thread has in  *)
(* hand at each label, and how that relates to the three files.            *)
(***************************************************************************)
EXTENDS ScenarioRevisions, Sequences, TLAPS

Locked == {"adoptHistory", "adoptMetadata", "decide", "writeScenario",
           "writeHistory", "writeMetadata"}

\* A thread inside _current or _save holds the lock.
LockHeld == \A t \in Threads : pc[t] \in Locked => lock = t

\* What a busy thread reads or saves is a definition; reads only start on a
\* scenario that exists, and a scenario never disappears.
InHand ==
    \A t \in Threads :
        /\ pc[t] # "idle" => req[t].definition \in Definitions
        /\ pc[t] \notin {"idle", "save", "writeScenario"} => scenario \in Definitions

\* A scenario without definition has no revision.
Unborn == scenario = NoDefinition => metadata = NoRevision

\* The revision about to be written follows the head.
PendingIsNext ==
    \A t \in Threads : pc[t] \in Locked \ {"decide"}
        => pending[t] \in Revision /\ pending[t].revision = metadata.revision + 1

\* Before revisions.json is written, the file of the new revision is.
PendingIsFiled ==
    \A t \in Threads : pc[t] \in {"adoptMetadata", "writeMetadata"}
        => /\ pending[t].revision \in DOMAIN history
           /\ history[pending[t].revision] = pending[t]

\* Between the check of If-Match and the write, the stored definition is the one
\* that was checked.
SaveIsChecked ==
    \A t \in Threads :
        /\ pc[t] = "decide" => metadata.etag = scenario
        /\ pc[t] \in {"adoptHistory", "adoptMetadata"} /\ call[t] = "save"
              => pending[t].etag = scenario
        /\ pc[t] = "writeScenario" /\ req[t].expected # NoDefinition
              => scenario = req[t].expected

\* What clients were told is at or below the head, and on file.
AnswersRecorded ==
    \A a \in answers : a.revision <= metadata.revision /\ history[a.revision] = a

IInv ==
    /\ TypeOK /\ LockHeld /\ InHand /\ Unborn /\ PendingIsNext /\ PendingIsFiled
    /\ HeadIsFiled /\ SaveIsChecked /\ AnswersRecorded
-----------------------------------------------------------------------------
\* The workspace before the first request satisfies every conjunct.
LEMMA InitIInv == Init => IInv
  BY ConstantsAssumption DEF Init, IInv, TypeOK, LockHeld, InHand, Unborn,
     PendingIsNext, PendingIsFiled, HeadIsFiled, SaveIsChecked, AnswersRecorded,
     NoRequest, Request, Ops, NoRevision, Labels, Locked

\* The types of what Return and Continue assign.
LEMMA ReturnType ==
  ASSUME TypeOK, NEW t \in Threads, Return(t)
  PROVE  /\ pc' \in [Threads -> Labels]
         /\ req' \in [Threads -> Request]
         /\ call' \in [Threads -> {"get", "list", "save"}]
         /\ pending' \in [Threads -> Revision \cup {NoRevision}]
  BY DEF TypeOK, Return, Goto, NoRequest, Request, Ops, Labels

\* The same for Continue, which may or may not end the request.
LEMMA ContinueType ==
  ASSUME TypeOK, NEW t \in Threads, NEW label \in Labels, Continue(t, label)
  PROVE  /\ pc' \in [Threads -> Labels]
         /\ req' \in [Threads -> Request]
         /\ call' \in [Threads -> {"get", "list", "save"}]
         /\ pending' \in [Threads -> Revision \cup {NoRevision}]
  BY ReturnType DEF TypeOK, Continue, Goto

\* Every step of every thread, and a crash, preserves the inductive invariant.
LEMMA NextIInv == IInv /\ [Next]_vars => IInv'
<1> SUFFICES ASSUME IInv, [Next]_vars PROVE IInv'
  OBVIOUS
<1> USE ConstantsAssumption
    DEF IInv, TypeOK, Revision, Authors, Request, Ops, Labels, Locked, NoRevision,
        NoRequest, disk, ghosts, Goto
<1>1. ASSUME NEW t \in Threads, NEW op \in Ops, NEW m \in Nat,
             NEW e \in Definitions \cup {NoDefinition}, ReadDefinition(t, op, m, e)
      PROVE IInv'
  BY <1>1 DEF ReadDefinition, LockHeld, InHand, Unborn, PendingIsNext,
     PendingIsFiled, HeadIsFiled, SaveIsChecked, AnswersRecorded
<1>2. ASSUME NEW t \in Threads, CurrentMatches(t) PROVE IInv'
  <2>1. TypeOK'
    <3>1. AfterGet(req[t].op) \in Labels
      BY DEF AfterGet
    <3>2. metadata \in Revision
      BY <1>2 DEF CurrentMatches, InHand
    <3> QED
      BY <1>2, <3>1, <3>2, ContinueType DEF CurrentMatches
  <2>2. LockHeld'
    BY <1>2 DEF CurrentMatches, Continue, Return, AfterGet, LockHeld
  <2>3. InHand'
    BY <1>2 DEF CurrentMatches, Continue, Return, AfterGet, InHand
  <2>4. Unborn'
    BY <1>2 DEF CurrentMatches, Continue, Return, AfterGet, Unborn, InHand
  <2>5. PendingIsNext'
    BY <1>2 DEF CurrentMatches, Continue, Return, AfterGet, PendingIsNext,
       LockHeld, Unborn
  <2>6. PendingIsFiled'
    BY <1>2 DEF CurrentMatches, Continue, Return, AfterGet, PendingIsFiled, LockHeld
  <2>7. HeadIsFiled'
    BY <1>2 DEF CurrentMatches, Continue, Return, AfterGet, HeadIsFiled,
       PendingIsNext, PendingIsFiled
  <2>8. SaveIsChecked'
    BY <1>2 DEF CurrentMatches, Continue, Return, AfterGet, SaveIsChecked, LockHeld
  <2>9. AnswersRecorded'
    BY <1>2 DEF CurrentMatches, AnswersRecorded, InHand, HeadIsFiled
  <2> QED BY <2>1, <2>2, <2>3, <2>4, <2>5, <2>6, <2>7, <2>8, <2>9
<1>3. ASSUME NEW t \in Threads, CurrentDiffers(t) PROVE IInv'
  BY <1>3 DEF CurrentDiffers, Adopted, LockHeld, InHand, Unborn, PendingIsNext,
     PendingIsFiled, HeadIsFiled, SaveIsChecked, AnswersRecorded
<1>4. ASSUME NEW t \in Threads, AdoptHistory(t) PROVE IInv'
  BY <1>4 DEF AdoptHistory, WithFile, LockHeld, InHand, Unborn, PendingIsNext,
     PendingIsFiled, HeadIsFiled, SaveIsChecked, AnswersRecorded
<1>5. ASSUME NEW t \in Threads, AdoptMetadata(t) PROVE IInv'
  <2>1. TypeOK'
    <3> DEFINE label == CASE call[t] = "get"  -> AfterGet(req[t].op)
                          [] call[t] = "list" -> "idle"
                          [] OTHER            -> "decide"
    <3>1. label \in Labels
      BY DEF AfterGet
    <3>2. Continue(t, label)
      BY <1>5 DEF AdoptMetadata
    <3>3. pending[t] \in Revision
      BY <1>5 DEF AdoptMetadata, PendingIsNext
    <3> HIDE DEF label
    <3> QED
      BY <1>5, <3>1, <3>2, <3>3, ContinueType DEF AdoptMetadata, ListedRevisions
  <2>2. LockHeld'
    BY <1>5 DEF AdoptMetadata, Continue, Return, AfterGet, ListedRevisions, LockHeld
  <2>3. InHand'
    <3>1. scenario' = scenario /\ scenario \in Definitions
      BY <1>5 DEF AdoptMetadata, InHand
    <3>2. ASSUME NEW u \in Threads, pc'[u] # "idle" PROVE req'[u] = req[u] /\ pc[u] # "idle"
      BY <1>5, <3>2 DEF AdoptMetadata, Continue, Return
    <3> QED
      BY <3>1, <3>2 DEF InHand
  <2>4. Unborn'
    BY <1>5 DEF AdoptMetadata, Continue, Return, AfterGet, ListedRevisions,
       Unborn, InHand
  <2>5. PendingIsNext'
    BY <1>5 DEF AdoptMetadata, Continue, Return, AfterGet, ListedRevisions,
       PendingIsNext, LockHeld, Unborn
  <2>6. PendingIsFiled'
    BY <1>5 DEF AdoptMetadata, Continue, Return, AfterGet, ListedRevisions,
       PendingIsFiled, LockHeld
  <2>7. HeadIsFiled'
    BY <1>5 DEF AdoptMetadata, HeadIsFiled, PendingIsNext, PendingIsFiled
  <2>8. SaveIsChecked'
    BY <1>5 DEF AdoptMetadata, Continue, Return, AfterGet, ListedRevisions,
       SaveIsChecked, LockHeld
  <2>9. AnswersRecorded'
    BY <1>5 DEF AdoptMetadata, AnswersRecorded, PendingIsNext, PendingIsFiled
  <2> QED BY <2>1, <2>2, <2>3, <2>4, <2>5, <2>6, <2>7, <2>8, <2>9
<1>6. ASSUME NEW t \in Threads, ListHistory(t) PROVE IInv'
  BY <1>6 DEF ListHistory, Return, ListedRevisions, LockHeld, InHand, Unborn,
     PendingIsNext, PendingIsFiled,
     HeadIsFiled, SaveIsChecked, AnswersRecorded
<1>7. ASSUME NEW t \in Threads, ReadRevision(t) PROVE IInv'
  <2>1. TypeOK'
    <3>1. CASE Return(t)
      BY <1>7, <3>1, ReturnType DEF ReadRevision
    <3>2. CASE ~Return(t)
      <4>1. /\ req[t].wanted \in DOMAIN history
            /\ req' = [req EXCEPT ![t].definition = history[req[t].wanted].etag]
            /\ pc' = [pc EXCEPT ![t] = "save"]
            /\ UNCHANGED <<call, pending>>
        BY <1>7, <3>2 DEF ReadRevision
      <4>2. /\ req[t] \in Request
            /\ history[req[t].wanted].etag \in Definitions
        BY <4>1
      <4>3. [req[t] EXCEPT !.definition = history[req[t].wanted].etag] \in Request
        BY <4>2
      <4>4. req' \in [Threads -> Request]
        BY <4>1, <4>3
      <4> QED
        BY <1>7, <4>1, <4>4 DEF ReadRevision
    <3> QED
      BY <3>1, <3>2
  <2>2. LockHeld'
    BY <1>7 DEF ReadRevision, Return, LockHeld
  <2>3. InHand'
    BY <1>7 DEF ReadRevision, Return, InHand
  <2>4. Unborn'
    BY <1>7 DEF ReadRevision, Return, Unborn, InHand
  <2>5. PendingIsNext'
    BY <1>7 DEF ReadRevision, Return, PendingIsNext, LockHeld, Unborn
  <2>6. PendingIsFiled'
    BY <1>7 DEF ReadRevision, Return, PendingIsFiled, LockHeld
  <2>7. HeadIsFiled'
    BY <1>7 DEF ReadRevision, Return, HeadIsFiled, PendingIsNext, PendingIsFiled
  <2>8. SaveIsChecked'
    BY <1>7 DEF ReadRevision, Return, SaveIsChecked, LockHeld
  <2>9. AnswersRecorded'
    BY <1>7 DEF ReadRevision, Return, AnswersRecorded, HeadIsFiled, PendingIsNext
  <2> QED BY <2>1, <2>2, <2>3, <2>4, <2>5, <2>6, <2>7, <2>8, <2>9
<1>8. ASSUME NEW t \in Threads, NEW d \in Definitions,
             NEW e \in Definitions \cup {NoDefinition}, StartSave(t, d, e)
      PROVE IInv'
  BY <1>8 DEF StartSave, LockHeld, InHand, Unborn, PendingIsNext, PendingIsFiled,
     HeadIsFiled, SaveIsChecked, AnswersRecorded
<1>9. ASSUME NEW t \in Threads, SaveNew(t) PROVE IInv'
  <2>1. TypeOK'
    <3>1. CASE Return(t)
      BY <1>9, <3>1, ReturnType DEF SaveNew
    <3>2. CASE ~Return(t)
      <4>1. [revision |-> 1, etag |-> req[t].definition, createdBy |-> "editor"] \in Revision
        BY <1>9 DEF SaveNew, InHand
      <4>2. /\ lock' = t
            /\ pc' = [pc EXCEPT ![t] = "writeScenario"]
            /\ pending' = [pending EXCEPT ![t] =
                 [revision |-> 1, etag |-> req[t].definition, createdBy |-> "editor"]]
            /\ UNCHANGED <<req, call>>
            /\ UNCHANGED <<disk, requests, crashes, ghosts>>
        BY <1>9, <3>2 DEF SaveNew
      <4> HIDE DEF Revision
      <4> QED
        BY <4>1, <4>2
    <3> QED
      BY <3>1, <3>2
  <2>2. LockHeld'
    BY <1>9 DEF SaveNew, Return, LockHeld
  <2>3. InHand'
    BY <1>9 DEF SaveNew, Return, InHand
  <2>4. Unborn'
    BY <1>9 DEF SaveNew, Return, Unborn, InHand
  <2>5. PendingIsNext'
    BY <1>9 DEF SaveNew, Return, PendingIsNext, InHand, Unborn
  <2>6. PendingIsFiled'
    BY <1>9 DEF SaveNew, Return, PendingIsFiled, LockHeld
  <2>7. HeadIsFiled'
    BY <1>9 DEF SaveNew, Return, HeadIsFiled, PendingIsNext, PendingIsFiled
  <2>8. SaveIsChecked'
    BY <1>9 DEF SaveNew, Return, SaveIsChecked, LockHeld
  <2>9. AnswersRecorded'
    BY <1>9 DEF SaveNew, Return, AnswersRecorded, HeadIsFiled, PendingIsNext
  <2> QED BY <2>1, <2>2, <2>3, <2>4, <2>5, <2>6, <2>7, <2>8, <2>9
<1>10. ASSUME NEW t \in Threads, SaveExisting(t) PROVE IInv'
  <2>1. TypeOK'
    <3>1. Adopted(scenario) \in Revision
      BY <1>10 DEF SaveExisting, Adopted
    <3> QED
      BY <1>10, <3>1 DEF SaveExisting
  <2>2. LockHeld'
    BY <1>10 DEF SaveExisting, Adopted, LockHeld
  <2>3. InHand'
    BY <1>10 DEF SaveExisting, Adopted, InHand
  <2>4. Unborn'
    BY <1>10 DEF SaveExisting, Adopted, Unborn, InHand
  <2>5. PendingIsNext'
    BY <1>10 DEF SaveExisting, Adopted, PendingIsNext, LockHeld, Unborn
  <2>6. PendingIsFiled'
    BY <1>10 DEF SaveExisting, Adopted, PendingIsFiled, LockHeld
  <2>7. HeadIsFiled'
    BY <1>10 DEF SaveExisting, Adopted, HeadIsFiled, PendingIsNext, PendingIsFiled
  <2>8. SaveIsChecked'
    BY <1>10 DEF SaveExisting, Adopted, SaveIsChecked, LockHeld
  <2>9. AnswersRecorded'
    BY <1>10 DEF SaveExisting, Adopted, AnswersRecorded, HeadIsFiled, PendingIsNext
  <2> QED BY <2>1, <2>2, <2>3, <2>4, <2>5, <2>6, <2>7, <2>8, <2>9
<1>11. ASSUME NEW t \in Threads, Refuse(t) PROVE IInv'
  BY <1>11 DEF Refuse, Return, LockHeld, InHand, Unborn, PendingIsNext,
     PendingIsFiled, HeadIsFiled, SaveIsChecked, AnswersRecorded
<1>12. ASSUME NEW t \in Threads, AnswerUnchanged(t) PROVE IInv'
  BY <1>12 DEF AnswerUnchanged, Return, LockHeld, InHand, Unborn, PendingIsNext,
     PendingIsFiled, HeadIsFiled, SaveIsChecked, AnswersRecorded
<1>13. ASSUME NEW t \in Threads, Accept(t) PROVE IInv'
  BY <1>13 DEF Accept, Conflict, LockHeld, InHand, Unborn, PendingIsNext,
     PendingIsFiled, HeadIsFiled, SaveIsChecked, AnswersRecorded
<1>14. ASSUME NEW t \in Threads, WriteScenario(t) PROVE IInv'
  BY <1>14 DEF WriteScenario, LockHeld, InHand, Unborn, PendingIsNext,
     PendingIsFiled, HeadIsFiled, SaveIsChecked, AnswersRecorded
<1>15. ASSUME NEW t \in Threads, WriteHistory(t) PROVE IInv'
  BY <1>15 DEF WriteHistory, WithFile, LockHeld, InHand, Unborn, PendingIsNext,
     PendingIsFiled, HeadIsFiled, SaveIsChecked, AnswersRecorded
<1>16. ASSUME NEW t \in Threads, WriteMetadata(t) PROVE IInv'
  <2>1. TypeOK'
    BY <1>16 DEF WriteMetadata, Return, TypeOK, LockHeld, InHand, Unborn,
       PendingIsNext, PendingIsFiled, HeadIsFiled, SaveIsChecked,
       AnswersRecorded
  <2>2. LockHeld'
    BY <1>16 DEF WriteMetadata, Return, LockHeld
  <2>3. InHand'
    BY <1>16 DEF WriteMetadata, Return, InHand
  <2>4. Unborn'
    BY <1>16 DEF WriteMetadata, Return, Unborn, InHand
  <2>5. PendingIsNext'
    BY <1>16 DEF WriteMetadata, Return, PendingIsNext, LockHeld, Unborn
  <2>6. PendingIsFiled'
    BY <1>16 DEF WriteMetadata, Return, PendingIsFiled, LockHeld
  <2>7. HeadIsFiled'
    BY <1>16 DEF WriteMetadata, Return, HeadIsFiled, PendingIsNext, PendingIsFiled
  <2>8. SaveIsChecked'
    BY <1>16 DEF WriteMetadata, Return, SaveIsChecked, LockHeld
  <2>9. AnswersRecorded'
    BY <1>16 DEF WriteMetadata, AnswersRecorded, PendingIsNext, PendingIsFiled
  <2> QED BY <2>1, <2>2, <2>3, <2>4, <2>5, <2>6, <2>7, <2>8, <2>9
<1>17. CASE Crash
  BY <1>17 DEF Crash, LockHeld, InHand, Unborn, PendingIsNext, PendingIsFiled,
     HeadIsFiled, SaveIsChecked, AnswersRecorded
<1>18. CASE UNCHANGED vars
  BY <1>18 DEF vars, local, LockHeld, InHand, Unborn, PendingIsNext, PendingIsFiled,
     HeadIsFiled, SaveIsChecked, AnswersRecorded
<1>19. CASE Next
  <2> SUFFICES ASSUME NEW t \in Threads, Client(t) \/ Acquire(t) \/ Proceed(t)
               PROVE  IInv'
    BY <1>17, <1>19 DEF Next
  <2>1. CASE Client(t)
    BY <2>1, <1>1, <1>8 DEF Client
  <2>2. CASE Acquire(t)
    BY <2>2, <1>2, <1>3, <1>6, <1>7, <1>9, <1>10 DEF Acquire
  <2>3. CASE Proceed(t)
    BY <2>3, <1>4, <1>5, <1>11, <1>12, <1>13, <1>14, <1>15, <1>16 DEF Proceed
  <2> QED
    BY <2>1, <2>2, <2>3
<1>20. QED
  BY <1>18, <1>19

\* The inductive invariant holds in every reachable state.
LEMMA Invariance == Spec => []IInv
  BY InitIInv, NextIInv, PTL DEF Spec

-----------------------------------------------------------------------------
(* The theorems.                                                           *)

\* Every variable keeps its type.
THEOREM TypeCorrect == Spec => []TypeOK
<1>1. IInv => TypeOK
  BY DEF IInv
<1> QED
  BY <1>1, Invariance, PTL

\* revisions.json never names a revision whose file is missing or different, in
\* spite of a crash between the writes of _save or _current.
THEOREM HeadAlwaysFiled == Spec => []HeadIsFiled
<1>1. IInv => HeadIsFiled
  BY DEF IInv
<1> QED
  BY <1>1, Invariance, PTL

\* What get_scenario or a save returned stays readable as it was.
THEOREM AnswersAlwaysOnFile == Spec => []AnswersStayOnFile
<1>1. IInv => AnswersStayOnFile
  BY DEF IInv, AnswersStayOnFile, AnswersRecorded, HeadIsFiled, TypeOK,
     Revision, NoRevision
<1> QED
  BY <1>1, Invariance, PTL

\* A conditional save replaces only the definition its If-Match names.
THEOREM NoUpdateLost == Spec => NoLostUpdate
<1>1. IInv => \A t \in Threads :
                pc[t] = "writeScenario" /\ pc'[t] = "writeHistory"
                   => \/ req[t].expected = NoDefinition
                      \/ scenario = req[t].expected
  BY DEF IInv, SaveIsChecked
<1> QED
  BY <1>1, Invariance, PTL DEF NoLostUpdate

\* A step leaves every recorded revision alone, and moves the head by one at most.
LEMMA HeadStep ==
  ASSUME IInv, [Next]_vars
  PROVE  \/ /\ metadata' = metadata
            /\ \A n \in 1..metadata.revision : n \in DOMAIN history' /\ history'[n] = history[n]
         \/ /\ history' = history
            /\ metadata' \in Revision
            /\ metadata'.revision = metadata.revision + 1
            /\ metadata'.revision \in DOMAIN history
            /\ history[metadata'.revision] = metadata'
<1> DEFINE Kept == /\ metadata' = metadata
                   /\ \A n \in 1..metadata.revision :
                         n \in DOMAIN history' /\ history'[n] = history[n]
           Moved == /\ history' = history
                    /\ metadata' \in Revision
                    /\ metadata'.revision = metadata.revision + 1
                    /\ metadata'.revision \in DOMAIN history
                    /\ history[metadata'.revision] = metadata'
<1> SUFFICES Kept \/ Moved
  OBVIOUS
<1>1. UNCHANGED <<metadata, history>> => Kept
  BY DEF IInv, HeadIsFiled
<1>2. ASSUME NEW t \in Threads, AdoptMetadata(t) \/ WriteMetadata(t)
      PROVE  Moved
  BY <1>2 DEF AdoptMetadata, WriteMetadata, IInv, PendingIsNext, PendingIsFiled,
     Locked
<1>3. ASSUME NEW t \in Threads, AdoptHistory(t) \/ WriteHistory(t)
      PROVE  Kept
  <2>1. /\ metadata' = metadata
        /\ history' = WithFile(pending[t])
        /\ pending[t].revision = metadata.revision + 1
    BY <1>3 DEF AdoptHistory, WriteHistory, IInv, PendingIsNext, Locked
  <2>2. metadata.revision \in Nat
    BY DEF IInv, TypeOK, Revision, NoRevision
  <2> QED
    BY <2>1, <2>2 DEF WithFile, IInv, HeadIsFiled
<1>4. ASSUME NEW t \in Threads, Client(t)
      PROVE  UNCHANGED <<metadata, history>>
  BY <1>4 DEF Client, ReadDefinition, StartSave, disk
<1>5. ASSUME NEW t \in Threads, Acquire(t)
      PROVE  UNCHANGED <<metadata, history>>
  BY <1>5 DEF Acquire, CurrentMatches, CurrentDiffers, ListHistory, ReadRevision,
     SaveNew, SaveExisting, disk
<1>6. ASSUME NEW t \in Threads, Refuse(t) \/ AnswerUnchanged(t) \/ Accept(t) \/ WriteScenario(t)
      PROVE  UNCHANGED <<metadata, history>>
  BY <1>6 DEF Refuse, AnswerUnchanged, Accept, WriteScenario, disk
<1>7. Crash \/ UNCHANGED vars => UNCHANGED <<metadata, history>>
  BY DEF Crash, vars, disk
<1> HIDE DEF Kept, Moved
<1> QED
  BY <1>1, <1>2, <1>3, <1>4, <1>5, <1>6, <1>7 DEF Next, Proceed

\* The three-file store, with reads that adopt and crashes between its writes,
\* implements the append-only log.
THEOREM ImplementsRevisionLog == Spec => RefinesRevisionLog
<1>1. Init => Log!LogInit
  <2> SUFFICES ASSUME Init PROVE RecordedLog = << >>
    BY DEF Log!LogInit
  <2>1. 1..metadata.revision = {}
    BY DEF Init, NoRevision
  <2> QED
    BY <2>1 DEF RecordedLog
<1>2. IInv /\ IInv' /\ [Next]_vars => [Log!Record]_RecordedLog
  <2> SUFFICES ASSUME IInv, IInv', [Next]_vars
               PROVE  Log!Record \/ RecordedLog' = RecordedLog
    OBVIOUS
  <2>0. metadata.revision \in Nat /\ metadata'.revision \in Nat
    BY DEF IInv, TypeOK, Revision, NoRevision
  <2>1. CASE /\ metadata' = metadata
             /\ \A n \in 1..metadata.revision :
                   n \in DOMAIN history' /\ history'[n] = history[n]
    <3>1. \A n \in 1..metadata.revision : n \in DOMAIN history
      BY DEF IInv, HeadIsFiled
    <3> QED
      BY <2>1, <3>1 DEF RecordedLog
  <2>2. CASE /\ history' = history
             /\ metadata' \in Revision
             /\ metadata'.revision = metadata.revision + 1
             /\ metadata'.revision \in DOMAIN history
             /\ history[metadata'.revision] = metadata'
    <3>1. \A n \in 1..metadata'.revision : n \in DOMAIN history' /\ history'[n] \in Revision
      BY DEF IInv, HeadIsFiled, TypeOK
    <3>2. RecordedLog' = [n \in 1..metadata'.revision |-> history'[n]]
      BY <3>1 DEF RecordedLog
    <3>3. RecordedLog' \in Seq(Revision) /\ Len(RecordedLog') = metadata'.revision
      BY <2>0, <3>1, <3>2
    <3>4. \A n \in 1..metadata.revision : n \in DOMAIN history
      BY DEF IInv, HeadIsFiled
    <3>5. RecordedLog = [n \in 1..metadata.revision |-> history[n]]
      BY <3>4 DEF RecordedLog
    <3>6. Len(RecordedLog) = metadata.revision
      BY <2>0, <3>5
    <3>7. \A n \in 1..metadata.revision : RecordedLog'[n] = RecordedLog[n]
      BY <2>0, <2>2, <3>2, <3>5
    <3> QED
      BY <2>2, <3>3, <3>6, <3>7 DEF Log!Record
  <2> QED
    BY <2>1, <2>2, HeadStep
<1> QED
  BY <1>1, <1>2, Invariance, PTL DEF Spec, RefinesRevisionLog, Log!LogSpec
=============================================================================
