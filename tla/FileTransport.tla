--------------------------- MODULE FileTransport ---------------------------
(***************************************************************************)
(* FileTransport (integrations/transport.py): one file for each event, in  *)
(* the directories inbound, processing and dead_letter of Helix Prime,     *)
(* read and written by several processes.                                  *)
(*                                                                         *)
(* A step is one access to the file system: open for writing (which        *)
(* truncates), write, read, rename, unlink.  A process that has a file     *)
(* open writes to that file wherever it was renamed to, and to nothing     *)
(* once it was replaced or removed.  A process may die between any two     *)
(* accesses and starts anew with nothing in hand.                          *)
(*                                                                         *)
(* receive handles the files of inbound one after the other, so a call is  *)
(* as good as one call for each file, and its filter as good as choosing   *)
(* the file.  An event is sent by one process at a time until it is on     *)
(* disk, and not again: send has no idempotency check, and the adapters    *)
(* make a new event for each request.  Events for the siblings go to       *)
(* directories nothing here reads.                                         *)
(* dead_letter_after_retries has its default, TRUE.                        *)
(***************************************************************************)
EXTENDS FiniteSets, Integers

CONSTANTS
    Events,      \* the events for Helix Prime
    Processes,   \* the processes that share the directories
    MaxRetries,  \* TransportConfig.max_retries
    MaxCrashes,  \* bound: deaths of a process
    Absent,      \* no such file
    Torn,        \* a file that was opened for writing and not yet written
    NoEvent      \* a process that is between calls

VARIABLES
    file,        \* [Dirs -> [Events -> contents]]; the contents are _retry_count
    call,        \* [Processes -> what it is doing]
    holds,       \* [Processes -> events it was handed and has yet to settle]
    accepted,    \* the events whose send wrote the file
    completed,   \* the events an acknowledgement removed
    contested,   \* the events two calls were working on at the same time
    interrupted, \* the events of the calls that died
    crashes

files == <<file, call, holds, accepted, completed, contested, interrupted, crashes>>

Dirs == {"inbound", "processing", "dead_letter"}
MaxCount == IF MaxRetries = 0 THEN 1 ELSE MaxRetries
Whole == 0..MaxCount

\* at: the next access.  event: whose file.  count: the _retry_count to write.
\* to: where the file being written is now; from: the file to remove after it.
Idle == [at |-> "idle", event |-> NoEvent, count |-> 0, to |-> Absent, from |-> Absent]

Calls == [at : {"idle", "open", "write", "unlink", "rename", "remove"},
          event : Events \cup {NoEvent}, count : Whole,
          to : Dirs \cup {Absent}, from : Dirs \cup {Absent}]

FileTypeOK ==
    /\ file \in [Dirs -> [Events -> Whole \cup {Absent, Torn}]]
    /\ call \in [Processes -> Calls]
    /\ holds \in [Processes -> SUBSET Events]
    /\ accepted \subseteq Events
    /\ completed \subseteq accepted
    /\ contested \subseteq Events
    /\ interrupted \subseteq Events
    /\ crashes \in 0..MaxCrashes

FileInit ==
    /\ file = [d \in Dirs |-> [e \in Events |-> Absent]]
    /\ call = [p \in Processes |-> Idle]
    /\ holds = [p \in Processes |-> {}]
    /\ accepted = {} /\ completed = {} /\ contested = {} /\ interrupted = {}
    /\ crashes = 0

-----------------------------------------------------------------------------
\* A call on e starts; it meets the calls on e that have not returned.
Begin(p, e, step) ==
    /\ call[p] = Idle
    /\ call' = [call EXCEPT ![p] = step]
    /\ contested' = IF \E q \in Processes : call[q].event = e
                    THEN contested \cup {e} ELSE contested
    /\ UNCHANGED <<interrupted, crashes>>

Step(at, e, count, to, from) ==
    [at |-> at, event |-> e, count |-> count, to |-> to, from |-> from]

\* What the other processes have open at (d, e) follows the file to d2.
Follow(e, d, d2) ==
    [q \in Processes |->
        IF call[q].at = "write" /\ call[q].event = e /\ call[q].to \in {d, d2}
        THEN [call[q] EXCEPT !.to = IF @ = d THEN d2 ELSE Absent]
        ELSE call[q]]

-----------------------------------------------------------------------------
\* send
Send(p, e) ==
    /\ e \notin accepted
    /\ \A q \in Processes : call[q].event # e
    /\ Begin(p, e, Step("open", e, 0, "inbound", Absent))
    /\ UNCHANGED <<file, holds, accepted, completed>>

\* receive reads a file it can parse, and counts it as received.
ReceiveRead(p, e) ==
    /\ file.inbound[e] \in Whole
    /\ Begin(p, e, Step("rename", e, 0, Absent, Absent))
    /\ UNCHANGED <<file, holds, accepted, completed>>

\* The rename; when the file is gone its error is swallowed.
ReceiveRename(p) ==
    LET e == call[p].event IN
    /\ call[p].at = "rename"
    /\ holds' = [holds EXCEPT ![p] = @ \cup {e}]
    /\ IF file.inbound[e] = Absent
       THEN /\ call' = [call EXCEPT ![p] = Idle]
            /\ UNCHANGED file
       ELSE /\ file' = [file EXCEPT !.processing[e] = file.inbound[e],
                                    !.inbound[e] = Absent]
            /\ call' = [Follow(e, "inbound", "processing") EXCEPT ![p] = Idle]
    /\ UNCHANGED <<accepted, completed, contested, interrupted, crashes>>

\* acknowledge and reject give up when the file is gone or cannot be parsed.
Missing(p, e) ==
    /\ call[p] = Idle
    /\ e \in holds[p]
    /\ file.processing[e] \notin Whole
    /\ holds' = [holds EXCEPT ![p] = @ \ {e}]
    /\ UNCHANGED <<file, call, accepted, completed, contested, interrupted, crashes>>

\* acknowledge: read the file, then remove it.
Acknowledge(p, e) ==
    /\ e \in holds[p]
    /\ file.processing[e] \in Whole
    /\ Begin(p, e, Step("remove", e, 0, Absent, "processing"))
    /\ holds' = [holds EXCEPT ![p] = @ \ {e}]
    /\ UNCHANGED <<file, accepted, completed>>

\* Mutant of Destination: one rejection more than the budget.
OneMore(count) == IF count > MaxRetries THEN "dead_letter" ELSE "inbound"

Destination(count) == IF count >= MaxRetries THEN "dead_letter" ELSE "inbound"

\* reject: read the file; write the next copy; remove this one.
Reject(p, e) ==
    LET count == file.processing[e] + 1 IN
    /\ e \in holds[p]
    /\ file.processing[e] \in Whole
    /\ Begin(p, e, Step("open", e, count, Destination(count), "processing"))
    /\ holds' = [holds EXCEPT ![p] = @ \ {e}]
    /\ UNCHANGED <<file, accepted, completed>>

\* retry, by an operator who saw the dead letter.
Retry(p, e) ==
    /\ file.dead_letter[e] \in Whole
    /\ Begin(p, e, Step("open", e, 0, "inbound", "dead_letter"))
    /\ UNCHANGED <<file, holds, accepted, completed>>

-----------------------------------------------------------------------------
Open(p) ==
    /\ call[p].at = "open"
    /\ file' = [file EXCEPT ![call[p].to][call[p].event] = Torn]
    /\ call' = [call EXCEPT ![p].at = "write"]
    /\ UNCHANGED <<holds, accepted, completed, contested, interrupted, crashes>>

\* Mutant of Write: the old copy goes first.
RemoveThenWrite(p) ==
    LET c == call[p] IN
    /\ c.at = "write"
    /\ file' = IF c.from = Absent
               THEN [file EXCEPT ![c.to][c.event] = c.count]
               ELSE [file EXCEPT ![c.from][c.event] = Absent]
    /\ call' = [call EXCEPT ![p] = IF c.from = Absent THEN Idle
                                   ELSE [c EXCEPT !.from = Absent]]
    /\ accepted' = accepted \cup {c.event}
    /\ UNCHANGED <<holds, completed, contested, interrupted, crashes>>

Write(p) ==
    LET c == call[p] IN
    /\ c.at = "write"
    /\ file' = IF c.to = Absent THEN file
               ELSE [file EXCEPT ![c.to][c.event] = c.count]
    /\ call' = [call EXCEPT ![p] = IF c.from = Absent THEN Idle
                                   ELSE [c EXCEPT !.at = "unlink", !.to = Absent]]
    /\ accepted' = accepted \cup {c.event}
    /\ UNCHANGED <<holds, completed, contested, interrupted, crashes>>

\* unlink removes whatever file has the name now, or raises.
Unlink(p) ==
    LET c == call[p] IN
    /\ c.at \in {"unlink", "remove"}
    /\ file' = [file EXCEPT ![c.from][c.event] = Absent]
    /\ call' = [Follow(c.event, c.from, Absent) EXCEPT ![p] = Idle]
    /\ completed' = IF c.at = "remove" /\ file[c.from][c.event] # Absent
                    THEN completed \cup {c.event} ELSE completed
    /\ UNCHANGED <<holds, accepted, contested, interrupted, crashes>>

Crash(p) ==
    /\ crashes < MaxCrashes
    /\ crashes' = crashes + 1
    /\ interrupted' = interrupted \cup ({call[p].event} \ {NoEvent})
    /\ call' = [call EXCEPT ![p] = Idle]
    /\ holds' = [holds EXCEPT ![p] = {}]
    /\ UNCHANGED <<file, accepted, completed, contested>>

FileNext ==
    \E p \in Processes :
      \/ \E e \in Events : \/ Send(p, e) \/ ReceiveRead(p, e) \/ Missing(p, e)
                           \/ Acknowledge(p, e) \/ Reject(p, e) \/ Retry(p, e)
      \/ ReceiveRename(p) \/ Open(p) \/ Write(p) \/ Unlink(p) \/ Crash(p)

-----------------------------------------------------------------------------
\* An event that was sent and not acknowledged is on disk in one piece, however
\* many processes died, unless two calls worked on it at the same time: reject
\* and retry write the next copy before they remove the old one, and a receiver
\* that takes the next copy in between puts it where the old one is removed.
NothingLost ==
    \A e \in accepted \ (completed \cup contested) :
       \E d \in Dirs : file[d][e] \in Whole
=============================================================================
