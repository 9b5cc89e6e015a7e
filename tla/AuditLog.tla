------------------------------ MODULE AuditLog ------------------------------
(***************************************************************************)
(* One audit file: lines of JSON, each with the hash of the line before    *)
(* it.  Several AuditLog objects append to it: of worker processes, and of *)
(* one process before and after a restore.  An append verifies the file    *)
(* and writes under an exclusive file lock, so appends do not interleave;  *)
(* only the loss of power comes between its steps.  A hash stands for the  *)
(* event it is the hash of, and a signing key that stays the same.         *)
(***************************************************************************)
EXTENDS Naturals, Sequences, FiniteSets

CONSTANTS
    Logs,           \* AuditLog objects
    MaxEvents,      \* bound: the appends
    MaxOutages      \* bound: the losses of power

ASSUME AuditAssumption == MaxEvents \in Nat /\ MaxOutages \in Nat

VARIABLES
    lines,          \* the file: of each line its chunks [event, previous, whole]
    ended,          \* the last line has its newline
    known,          \* of each object: the last hash it has seen, or Unopened
    appended,       \* how many appends began
    outages,        \* how often the power was lost
    acknowledged,   \* ghost: the events whose append returned
    bare            \* ghost: an outage left a whole line without its newline

auditVars == <<lines, ended, known, appended, outages, acknowledged, bare>>

-----------------------------------------------------------------------------
NoHash == 0

\* Of an object that no process has: no event has this hash.
Unopened == MaxEvents + 1

\* The hash that a line has to name: that of the line before it.
HashBefore(i) == IF i = 1 THEN NoHash ELSE lines[i - 1][1].event

\* A line is one whole event that follows the line before it.
Follows(i) ==
    /\ Len(lines[i]) = 1
    /\ lines[i][1].whole
    /\ lines[i][1].previous = HashBefore(i)

\* _verify_unlocked(): the first line that does not follow ends the verification.
Verified == {i \in DOMAIN lines : \A j \in 1..i : Follows(j)}

Verification ==
    [valid  |-> Verified = DOMAIN lines,
     last   |-> HashBefore(Cardinality(Verified) + 1),
     events |-> {lines[i][1].event : i \in Verified}]

\* The file is opened for appending: a chunk goes on with a line that has no newline.
Written(chunk) ==
    IF lines = <<>> \/ ended THEN Append(lines, <<chunk>>)
    ELSE [lines EXCEPT ![Len(lines)] = Append(@, chunk)]

\* Mutant: an object trusts the hash it has seen last.
PreviousHashCached(a) == known[a]

\* What an append starts from: the verification of the whole file, now.
PreviousHash(a) == Verification.last

\* append(): raises and writes nothing when the file does not verify.
AppendEvent(a) ==
    LET event == appended + 1 IN
    /\ known[a] # Unopened
    /\ appended < MaxEvents
    /\ Verification.valid
    /\ appended' = event
    /\ lines' = Written([event |-> event, previous |-> PreviousHash(a), whole |-> TRUE])
    /\ ended' = TRUE
    /\ known' = [known EXCEPT ![a] = event]
    /\ acknowledged' = acknowledged \cup {event}
    /\ UNCHANGED <<outages, bare>>

\* The power is lost, perhaps while an object appends: of the line nothing, a part, all
\* but the newline or all of it is on the disk.
LosePower(part) ==
    LET event == appended + 1
        chunk == [event |-> event, previous |-> Verification.last, whole |-> part # "part"]
    IN  /\ outages < MaxOutages
        /\ outages' = outages + 1
        /\ known' = [a \in Logs |-> Unopened]
        /\ IF part = "nothing" THEN UNCHANGED <<lines, ended, appended, bare>>
           ELSE /\ \E a \in Logs : known[a] # Unopened
                /\ appended < MaxEvents
                /\ Verification.valid
                /\ appended' = event
                /\ lines' = Written(chunk)
                /\ ended' = (part = "all")
                /\ bare' = (bare \/ part = "bare")
        /\ UNCHANGED acknowledged

\* __init__(): a file that does not verify is refused.  A process opens its objects when
\* it starts, and the domain log again after a restore.
Open(a) ==
    /\ Verification.valid
    /\ known' = [known EXCEPT ![a] = Verification.last]
    /\ UNCHANGED <<lines, ended, appended, outages, acknowledged, bare>>

AuditInit ==
    /\ lines = <<>>
    /\ ended = TRUE
    /\ known = [a \in Logs |-> Unopened]
    /\ appended = 0
    /\ outages = 0
    /\ acknowledged = {}
    /\ bare = FALSE

AuditNext ==
    \/ \E a \in Logs : AppendEvent(a) \/ Open(a)
    \/ \E part \in {"nothing", "part", "bare", "all"} : LosePower(part)

AuditSpec == AuditInit /\ [][AuditNext]_auditVars

-----------------------------------------------------------------------------
(* Properties.                                                             *)

Chunk == [event : Nat, previous : Nat, whole : BOOLEAN]

\* Every variable has its type, and a line is not empty.
AuditTypeOK ==
    /\ lines \in Seq(Seq(Chunk) \ {<<>>})
    /\ ended \in BOOLEAN
    /\ known \in [Logs -> Nat]
    /\ appended \in Nat
    /\ outages \in Nat
    /\ acknowledged \subseteq Nat
    /\ bare \in BOOLEAN

\* While the power lasts the file verifies, whichever objects append in turn.  An outage
\* may leave a line that does not, but never costs an event whose append returned -
\* unless all it lost is a newline: that line verifies, and the next append goes
\* on with it.
AcknowledgedEventsVerify ==
    /\ outages = 0 => Verification.valid
    /\ ~ bare => acknowledged \subseteq Verification.events
=============================================================================
