----------------------------- MODULE Transports -----------------------------
(***************************************************************************)
(* The transport seam of integrations/transport.py: create_transport makes *)
(* one of the two transports, and both should keep the promise of          *)
(* EventDelivery.                                                          *)
(***************************************************************************)
EXTENDS FiniteSets, Integers

CONSTANTS
    Events,      \* the events the transport in memory carries
    KeyOf,       \* [Events -> idempotency keys]
    TypeOf,      \* [Events -> event types]
    FileEvents,  \* the events the transport on disk carries
    Processes,   \* the processes that share its directories
    MaxRetries,  \* TransportConfig.max_retries
    MaxCrashes,  \* bound: deaths of a process
    Absent, Torn, NoEvent   \* see FileTransport

ASSUME TransportsAssumption ==
    /\ MaxRetries \in Nat /\ MaxCrashes \in Nat
    /\ FileEvents \subseteq Events /\ NoEvent \notin Events
    /\ Absent # Torn
    /\ {Absent, Torn} \cap (Nat \cup {"inbound", "processing", "dead_letter"}) = {}

VARIABLES
    kind,   \* the transport that was made
    inbound, processing, deadLetter, keys, retries, status, handed,
    file, call, holds, accepted, completed, contested, interrupted, crashes

Memory == INSTANCE MemoryTransport
File == INSTANCE FileTransport WITH Events <- FileEvents

memory == <<inbound, processing, deadLetter, keys, retries, status, handed>>
files == <<file, call, holds, accepted, completed, contested, interrupted, crashes>>
vars == <<kind, memory, files>>

TypeOK ==
    /\ kind \in {"memory", "file"}
    /\ Memory!MemoryTypeOK
    /\ File!FileTypeOK

Init ==
    /\ kind \in {"memory", "file"}
    /\ Memory!MemoryInit
    /\ File!FileInit

UseMemory == kind = "memory" /\ Memory!MemoryNext /\ UNCHANGED <<kind, files>>
UseFiles == kind = "file" /\ File!FileNext /\ UNCHANGED <<kind, memory>>

Next == UseMemory \/ UseFiles

Spec == Init /\ [][Next]_vars

-----------------------------------------------------------------------------
\* Where an event is, and how often it was rejected, for each transport.
MemoryPlace(e) ==
    CASE e \in inbound             -> "waiting"
      [] e \in processing          -> "processing"
      [] e \in deadLetter          -> "dead"
      [] status[e] = "completed"   -> "done"
      [] OTHER                     -> "unsent"

\* The copy that counts is the one a call removes last.
FilePlace(e) ==
    IF e \notin FileEvents THEN "unsent"
    ELSE IF e \in contested \cup interrupted THEN "disputed"
    ELSE IF e \in completed THEN "done"
    ELSE IF file.processing[e] \in File!Whole THEN "processing"
    ELSE IF file.dead_letter[e] \in File!Whole THEN "dead"
    ELSE IF file.inbound[e] \in File!Whole THEN "waiting"
    ELSE "unsent"

MemoryRefused(e) == IF e \in inbound \cup processing THEN retries[e] ELSE 0

FileRefused(e) ==
    CASE FilePlace(e) = "processing" -> file.processing[e]
      [] FilePlace(e) = "waiting"    -> file.inbound[e]
      [] OTHER                       -> 0

\* The transports count differently: the one in memory compares the rejections
\* before this one, the one on disk those including it.
Delivery == INSTANCE EventDelivery WITH
    budget  <- IF kind = "memory" \/ MaxRetries = 0 THEN MaxRetries ELSE MaxRetries - 1,
    place   <- [e \in Events |-> IF kind = "memory" THEN MemoryPlace(e) ELSE FilePlace(e)],
    refused <- [e \in Events |-> IF kind = "memory" THEN MemoryRefused(e) ELSE FileRefused(e)]

\* Both transports deliver: no event is handed out before it is sent or again
\* after it was acknowledged, none leaves but by an acknowledgement, and it is
\* a dead letter only when its rejections have spent the budget.  The one on
\* disk gives up the events that two calls worked on at once or whose call died.
Delivers == Delivery!Spec

\* On disk an event that was sent and not acknowledged is there in one piece,
\* unless two calls worked on it at the same time.
NothingLost == File!NothingLost
=============================================================================
