---------------------------- MODULE TransportsProofs ----------------------------
(***************************************************************************)
(* Proofs about Transports, for any events, keys, processes and retries:   *)
(* its state is well typed, the transport on disk loses nothing, and both  *)
(* transports implement EventDelivery.                                     *)
(*                                                                         *)
(* An access of the transport on disk concerns one event (Local), so the   *)
(* invariants speak of one event.  FileInv types the calls: what they      *)
(* write, where, and what they remove.  SafeEvent says what a call on an   *)
(* uncontested event counts on: it is the only one, the copy it is about   *)
(* to move is there, and before it removes a copy another one is whole.    *)
(* Shape says how the files of an undisputed event look at every step of   *)
(* the call on it; what a step does to the event (Hop) is then read off.   *)
(***************************************************************************)
EXTENDS Transports, TLAPS

\* Counts of an event that may still be rejected.
Rejectable == 0..(File!MaxCount - 1)

CallOK(c) ==
  /\ c.at = "idle" => c = File!Idle
  /\ c.at # "idle" => c.event \in FileEvents
  /\ c.at = "open" => c.to # Absent
  /\ c.at \in {"rename", "remove", "unlink"} => c.event \in accepted
  /\ c.at \in {"remove", "unlink"} => c.from # Absent
  /\ c.to \in {"inbound", "processing"} => c.count \in Rejectable

FileInv ==
  /\ File!FileTypeOK
  /\ \A e \in FileEvents :
       /\ {file.inbound[e], file.processing[e]} \subseteq Rejectable \cup {Absent, Torn}
       /\ \A d \in File!Dirs : file[d][e] \in File!Whole => e \in accepted
  /\ \A p \in Processes : CallOK(call[p])

MemoryInv ==
  /\ Memory!MemoryTypeOK
  /\ \A e \in Events :
       /\ status[e] \in {"new", "completed"} => e \notin inbound \cup processing \cup deadLetter
       /\ status[e] = "new" => retries[e] = 0
       /\ e \in deadLetter => e \notin inbound \cup processing
       /\ e \notin inbound \cap processing

-------------------------------------------------------------------------------
LEMMA Distinct ==
  /\ Absent # Torn
  /\ Absent \notin File!Whole /\ Torn \notin File!Whole
  /\ Absent \notin File!Dirs
  /\ File!Whole \subseteq Nat /\ Rejectable \subseteq File!Whole /\ 0 \in Rejectable
  /\ \A c \in Rejectable : c + 1 \in File!Whole
  /\ \A c \in File!Whole : File!Destination(c) = "inbound" => c \in Rejectable
<1>1. File!MaxCount \in Nat \ {0} /\ MaxRetries <= File!MaxCount
  BY TransportsAssumption DEF TransportsAssumption, File!MaxCount
<1>2. File!Whole \subseteq Nat /\ Rejectable \subseteq File!Whole /\ 0 \in Rejectable
  BY <1>1 DEF File!Whole, Rejectable
<1>3. \A c \in Rejectable : c + 1 \in File!Whole BY <1>1 DEF File!Whole, Rejectable
<1>4. \A c \in File!Whole : File!Destination(c) = "inbound" => c \in Rejectable
  <2> SUFFICES ASSUME NEW c \in File!Whole, File!Destination(c) = "inbound"
               PROVE  c \in Rejectable
    OBVIOUS
  <2>1. ~(c >= MaxRetries) BY DEF File!Destination
  <2>2. c < MaxRetries BY <2>1, <1>2, TransportsAssumption DEF TransportsAssumption
  <2> QED BY <1>1, <1>2, <2>2, TransportsAssumption DEF TransportsAssumption, Rejectable
<1>5. Absent \notin File!Dirs
  BY TransportsAssumption DEF TransportsAssumption, File!Dirs
<1>6. Absent \notin File!Whole /\ Torn \notin File!Whole /\ Absent # Torn
  BY <1>2, TransportsAssumption DEF TransportsAssumption
<1> QED BY <1>2, <1>3, <1>4, <1>5, <1>6
-------------------------------------------------------------------------------
(* The transport in memory.                                                *)

LEMMA MemoryInit == Memory!MemoryInit => MemoryInv
<1> SUFFICES ASSUME Memory!MemoryInit PROVE MemoryInv OBVIOUS
<1>1. 0 \in 0..MaxRetries BY TransportsAssumption DEF TransportsAssumption
<1> QED BY <1>1 DEF Memory!MemoryInit, MemoryInv, Memory!MemoryTypeOK

LEMMA MemoryStep == ASSUME MemoryInv, Memory!MemoryNext PROVE MemoryInv'
<1> USE DEF MemoryInv, Memory!MemoryTypeOK
<1>1. ASSUME NEW e \in Events, Memory!Send(e) PROVE MemoryInv'
  BY <1>1 DEF Memory!Send
<1>2. ASSUME NEW e \in Events, Memory!Acknowledge(e) PROVE MemoryInv'
  BY <1>2 DEF Memory!Acknowledge, Memory!Settle
<1>3. ASSUME NEW e \in Events, Memory!Requeue(e) PROVE MemoryInv'
  <2>1. retries[e] + 1 \in 0..MaxRetries
    BY <1>3, TransportsAssumption DEF TransportsAssumption, Memory!Requeue
  <2> QED BY <1>3, <2>1 DEF Memory!Requeue, Memory!Settle
<1>4. ASSUME NEW e \in Events, Memory!Bury(e) PROVE MemoryInv'
  <2>1. 0 \in 0..MaxRetries BY TransportsAssumption DEF TransportsAssumption
  <2> QED BY <1>4, <2>1 DEF Memory!Bury, Memory!Settle
<1>5. ASSUME NEW e \in Events, Memory!Retry(e) PROVE MemoryInv'
  <2>1. 0 \in 0..MaxRetries BY TransportsAssumption DEF TransportsAssumption
  <2> QED BY <1>5, <2>1 DEF Memory!Retry
<1>6. ASSUME NEW e \in Events, Memory!Wait(e) PROVE MemoryInv'
  BY <1>6 DEF Memory!Wait
<1>7. ASSUME NEW k \in keys, Memory!Expire(k) PROVE MemoryInv'
  BY <1>7 DEF Memory!Expire
<1>8. ASSUME NEW S, Memory!Receive(S) PROVE MemoryInv'
  BY <1>8 DEF Memory!Receive, Memory!Drain
<1>9. ASSUME Memory!ProcessInbound PROVE MemoryInv'
  BY <1>9 DEF Memory!ProcessInbound
<1> QED
  BY <1>1, <1>2, <1>3, <1>4, <1>5, <1>6, <1>7, <1>8, <1>9 DEF Memory!MemoryNext, Memory!Reject
-------------------------------------------------------------------------------
(* The transport on disk: types.                                           *)

LEMMA FileInit == File!FileInit => FileInv
<1> SUFFICES ASSUME File!FileInit PROVE FileInv OBVIOUS
<1>1. File!Idle \in File!Calls /\ CallOK(File!Idle)
  BY Distinct DEF File!Idle, File!Calls, CallOK, File!Dirs
<1>2. 0 \in 0..MaxCrashes BY TransportsAssumption DEF TransportsAssumption
<1>3. File!FileTypeOK BY <1>1, <1>2 DEF File!FileInit, File!FileTypeOK
<1> QED BY <1>1, <1>3, Distinct DEF File!FileInit, FileInv, File!Dirs

\* A call that starts is a call of its process, and gives up or marks the event.
LEMMA BeginStep ==
  ASSUME FileInv, NEW p \in Processes, NEW e \in FileEvents, NEW step \in File!Calls,
         File!Begin(p, e, step)
  PROVE  /\ call' \in [Processes -> File!Calls]
         /\ call'[p] = step /\ \A q \in Processes \ {p} : call'[q] = call[q]
         /\ contested' \subseteq FileEvents
         /\ UNCHANGED <<interrupted, crashes>>
BY DEF FileInv, File!FileTypeOK, File!Begin

\* What is open follows its file.
LEMMA Followed ==
  ASSUME FileInv, NEW p \in Processes, NEW e \in FileEvents, NEW d \in File!Dirs,
         NEW d2 \in {"processing", Absent}, d2 = "processing" => d = "inbound",
         call' = [File!Follow(e, d, d2) EXCEPT ![p] = File!Idle], accepted' = accepted
  PROVE  /\ call' \in [Processes -> File!Calls]
         /\ call'[p] = File!Idle
         /\ \A q \in Processes : CallOK(call[q])'
         /\ \A q \in Processes \ {p} : call[q].event # e => call'[q] = call[q]
         /\ \A q \in Processes : call'[q].event \in {call[q].event, NoEvent}
<1>1. File!Idle \in File!Calls /\ CallOK(File!Idle)
  BY Distinct DEF File!Idle, File!Calls, CallOK, File!Dirs
<1>2. ASSUME NEW q \in Processes
      PROVE  /\ File!Follow(e, d, d2)[q] \in File!Calls /\ CallOK(File!Follow(e, d, d2)[q])
             /\ call[q].event # e => File!Follow(e, d, d2)[q] = call[q]
             /\ File!Follow(e, d, d2)[q].event = call[q].event
  <2> DEFINE c == call[q]
  <2>1. c \in File!Calls /\ CallOK(c) BY DEF FileInv, File!FileTypeOK
  <2>2. CASE c.at = "write" /\ c.event = e /\ c.to = d
    <3>1. File!Follow(e, d, d2)[q] = [c EXCEPT !.to = d2] BY <2>2 DEF File!Follow
    <3>2. [c EXCEPT !.to = d2] \in File!Calls BY <2>1 DEF File!Calls, File!Dirs
    <3>3. CallOK([c EXCEPT !.to = d2])
      BY <2>1, <2>2, Distinct DEF CallOK, File!Calls, File!Dirs
    <3> QED BY <2>1, <2>2, <3>1, <3>2, <3>3 DEF File!Calls
  <2>3. CASE c.at = "write" /\ c.event = e /\ c.to = d2 /\ c.to # d
    <3>1. File!Follow(e, d, d2)[q] = [c EXCEPT !.to = Absent] BY <2>3 DEF File!Follow
    <3>2. [c EXCEPT !.to = Absent] \in File!Calls BY <2>1 DEF File!Calls, File!Dirs
    <3>3. CallOK([c EXCEPT !.to = Absent])
      BY <2>1, <2>3, Distinct DEF CallOK, File!Calls, File!Dirs
    <3> QED BY <2>1, <2>3, <3>1, <3>2, <3>3 DEF File!Calls
  <2>4. CASE ~(c.at = "write" /\ c.event = e /\ c.to \in {d, d2})
    BY <2>1, <2>4 DEF File!Follow
  <2> QED BY <2>2, <2>3, <2>4
<1>3. DOMAIN File!Follow(e, d, d2) = Processes BY DEF File!Follow
<1>4. \A q \in Processes :
        call'[q] = IF q = p THEN File!Idle ELSE File!Follow(e, d, d2)[q]
  BY <1>3
<1>5. call' = [q \in Processes |-> IF q = p THEN File!Idle ELSE File!Follow(e, d, d2)[q]]
  BY <1>3
<1>6. \A q \in Processes : CallOK(call[q])'
  BY <1>1, <1>2, <1>4 DEF CallOK, File!Idle
<1>7. File!Idle.event = NoEvent BY DEF File!Idle
<1> QED BY <1>1, <1>2, <1>4, <1>5, <1>6, <1>7

\* A call that begins with a well-made step keeps FileInv, but for the files.
LEMMA BeginInv ==
  ASSUME FileInv, NEW p \in Processes, NEW e \in FileEvents, NEW step \in File!Calls,
         File!Begin(p, e, step), CallOK(step),
         holds' \in [Processes -> SUBSET FileEvents], UNCHANGED <<file, accepted, completed>>
  PROVE  FileInv'
<1>1. File!FileTypeOK' BY BeginStep DEF FileInv, File!FileTypeOK
<1>2. \A q \in Processes : CallOK(call[q])' BY BeginStep DEF FileInv, CallOK
<1> QED BY <1>1, <1>2 DEF FileInv

LEMMA FileStep == ASSUME FileInv, File!FileNext PROVE FileInv'
<1> SUFFICES ASSUME NEW p \in Processes,
                    \/ \E e \in FileEvents :
                         \/ File!Send(p, e) \/ File!ReceiveRead(p, e) \/ File!Missing(p, e)
                         \/ File!Acknowledge(p, e) \/ File!Reject(p, e) \/ File!Retry(p, e)
                    \/ File!ReceiveRename(p) \/ File!Open(p) \/ File!Write(p)
                    \/ File!Unlink(p) \/ File!Crash(p)
             PROVE  FileInv'
  BY DEF File!FileNext
<1> DEFINE c == call[p]
<1>0. c \in File!Calls /\ CallOK(c) /\ (c.at # "idle" => c.event \in FileEvents)
  BY DEF FileInv, File!FileTypeOK, CallOK
<1>1. ASSUME NEW e \in FileEvents, File!Send(p, e) PROVE FileInv'
  <2> DEFINE step == File!Step("open", e, 0, "inbound", Absent)
  <2>1. step \in File!Calls /\ CallOK(step)
    BY Distinct DEF File!Step, File!Calls, CallOK, File!Dirs
  <2> QED BY <1>1, <2>1, BeginInv DEF File!Send, FileInv, File!FileTypeOK
<1>2. ASSUME NEW e \in FileEvents, File!ReceiveRead(p, e) PROVE FileInv'
  <2> DEFINE step == File!Step("rename", e, 0, Absent, Absent)
  <2>1. e \in accepted BY <1>2 DEF File!ReceiveRead, FileInv, File!Dirs
  <2>2. step \in File!Calls /\ CallOK(step)
    BY <2>1, Distinct DEF File!Step, File!Calls, CallOK, File!Dirs
  <2> QED BY <1>2, <2>2, BeginInv DEF File!ReceiveRead, FileInv, File!FileTypeOK
<1>3. ASSUME NEW e \in FileEvents, File!Missing(p, e) PROVE FileInv'
  BY <1>3 DEF File!Missing, FileInv, File!FileTypeOK, CallOK
<1>4. ASSUME NEW e \in FileEvents, File!Acknowledge(p, e) PROVE FileInv'
  <2> DEFINE step == File!Step("remove", e, 0, Absent, "processing")
  <2>1. e \in accepted BY <1>4 DEF File!Acknowledge, FileInv, File!Dirs
  <2>2. step \in File!Calls /\ CallOK(step)
    BY <2>1, Distinct DEF File!Step, File!Calls, CallOK, File!Dirs
  <2> QED BY <1>4, <2>2, BeginInv DEF File!Acknowledge, FileInv, File!FileTypeOK
<1>5. ASSUME NEW e \in FileEvents, File!Reject(p, e) PROVE FileInv'
  <2> DEFINE count == file.processing[e] + 1
             step == File!Step("open", e, count, File!Destination(count), "processing")
  <2>1. count \in File!Whole
    BY <1>5, Distinct DEF File!Reject, FileInv
  <2>2. File!Destination(count) \in File!Dirs \ {"processing"} BY DEF File!Destination, File!Dirs
  <2>3. step \in File!Calls /\ CallOK(step)
    BY <2>1, <2>2, Distinct DEF File!Step, File!Calls, CallOK, File!Dirs
  <2> QED BY <1>5, <2>3, BeginInv DEF File!Reject, FileInv, File!FileTypeOK
<1>6. ASSUME NEW e \in FileEvents, File!Retry(p, e) PROVE FileInv'
  <2> DEFINE step == File!Step("open", e, 0, "inbound", "dead_letter")
  <2>1. step \in File!Calls /\ CallOK(step)
    BY Distinct DEF File!Step, File!Calls, CallOK, File!Dirs
  <2> QED BY <1>6, <2>1, BeginInv DEF File!Retry, FileInv, File!FileTypeOK
<1>7. CASE File!ReceiveRename(p)
  <2> DEFINE e == c.event
  <2>1. e \in FileEvents /\ e \in accepted BY <1>0, <1>7 DEF File!ReceiveRename, CallOK
  <2>2. holds' \in [Processes -> SUBSET FileEvents]
    BY <1>7, <2>1 DEF File!ReceiveRename, FileInv, File!FileTypeOK
  <2>3. UNCHANGED <<accepted, completed, contested, interrupted, crashes>>
    BY <1>7 DEF File!ReceiveRename
  <2>4. CASE file.inbound[e] = Absent
    <3>1. call' = [call EXCEPT ![p] = File!Idle] /\ UNCHANGED file
      BY <1>7, <2>4 DEF File!ReceiveRename
    <3>2. File!Idle \in File!Calls /\ CallOK(File!Idle)
      BY Distinct DEF File!Idle, File!Calls, CallOK, File!Dirs
    <3> QED BY <2>2, <2>3, <3>1, <3>2 DEF FileInv, File!FileTypeOK, CallOK
  <2>5. CASE file.inbound[e] # Absent
    <3>1. file' = [file EXCEPT !.processing[e] = file.inbound[e], !.inbound[e] = Absent]
          /\ call' = [File!Follow(e, "inbound", "processing") EXCEPT ![p] = File!Idle]
      BY <1>7, <2>5 DEF File!ReceiveRename
    <3>2. call' \in [Processes -> File!Calls] /\ \A q \in Processes : CallOK(call[q])'
      BY <2>1, <2>3, <3>1, Followed DEF File!Dirs
    <3>3. /\ file' \in [File!Dirs -> [FileEvents -> File!Whole \cup {Absent, Torn}]]
          /\ \A x \in FileEvents :
               /\ {file'.inbound[x], file'.processing[x]} \subseteq Rejectable \cup {Absent, Torn}
               /\ \A d \in File!Dirs : file'[d][x] \in File!Whole => x \in accepted'
      BY <2>1, <2>3, <3>1, Distinct DEF FileInv, File!FileTypeOK, File!Dirs
    <3> QED BY <2>2, <2>3, <3>2, <3>3 DEF FileInv, File!FileTypeOK
  <2> QED BY <2>4, <2>5
<1>8. CASE File!Open(p)
  <2>1. c.event \in FileEvents /\ c.at = "open" /\ c.to \in File!Dirs
    BY <1>0, <1>8 DEF File!Open, CallOK, File!Calls
  <2>2. call' = [call EXCEPT ![p] = [c EXCEPT !.at = "write"]]
        /\ file' = [file EXCEPT ![c.to][c.event] = Torn]
        /\ UNCHANGED <<holds, accepted, completed, contested, interrupted, crashes>>
    BY <1>8 DEF File!Open
  <2>3. [c EXCEPT !.at = "write"] \in File!Calls BY <1>0 DEF File!Calls
  <2>4. CallOK(call[p])'
    <3>1. call'[p] = [c EXCEPT !.at = "write"] BY <2>2 DEF FileInv, File!FileTypeOK
    <3> QED BY <1>0, <2>1, <2>2, <3>1 DEF File!Calls, CallOK
  <2>5. \A q \in Processes : CallOK(call[q])'
    BY <2>2, <2>4 DEF FileInv, File!FileTypeOK, CallOK
  <2>6. /\ file' \in [File!Dirs -> [FileEvents -> File!Whole \cup {Absent, Torn}]]
        /\ \A x \in FileEvents :
             /\ {file'.inbound[x], file'.processing[x]} \subseteq Rejectable \cup {Absent, Torn}
             /\ \A d \in File!Dirs : file'[d][x] \in File!Whole => x \in accepted'
    BY <2>1, <2>2, Distinct DEF FileInv, File!FileTypeOK, File!Dirs
  <2> QED BY <2>2, <2>3, <2>5, <2>6 DEF FileInv, File!FileTypeOK
<1>9. CASE File!Write(p)
  <2> DEFINE next == IF c.from = Absent THEN File!Idle
                     ELSE [c EXCEPT !.at = "unlink", !.to = Absent]
  <2>1. c.event \in FileEvents /\ c.at = "write" /\ c.count \in File!Whole
    BY <1>0, <1>9 DEF File!Write, CallOK, File!Calls
  <2>2. /\ file' = IF c.to = Absent THEN file ELSE [file EXCEPT ![c.to][c.event] = c.count]
        /\ call' = [call EXCEPT ![p] = next]
        /\ accepted' = accepted \cup {c.event}
        /\ UNCHANGED <<holds, completed, contested, interrupted, crashes>>
    BY <1>9 DEF File!Write
  <2>3. next \in File!Calls
    BY <1>0, Distinct DEF File!Idle, File!Calls
  <2>4. CallOK(call[p])'
    <3>1. call'[p] = next BY <2>2 DEF FileInv, File!FileTypeOK
    <3> QED
      BY <1>0, <2>1, <2>2, <3>1, Distinct DEF File!Calls, CallOK, File!Idle, File!Dirs
  <2>5. ASSUME NEW q \in Processes PROVE CallOK(call[q])'
    <3>1. CASE q = p BY <2>4, <3>1
    <3>2. CASE q # p
      <4>1. CallOK(call[q]) /\ call'[q] = call[q] /\ accepted \subseteq accepted'
        BY <2>2, <3>2 DEF FileInv, File!FileTypeOK
      <4> QED BY <4>1 DEF CallOK
    <3> QED BY <3>1, <3>2
  <2>6. /\ file' \in [File!Dirs -> [FileEvents -> File!Whole \cup {Absent, Torn}]]
        /\ \A x \in FileEvents :
             /\ {file'.inbound[x], file'.processing[x]} \subseteq Rejectable \cup {Absent, Torn}
             /\ \A d \in File!Dirs : file'[d][x] \in File!Whole => x \in accepted'
    <3>1. c.to = Absent \/ c.to \in File!Dirs BY <1>0 DEF File!Calls
    <3>2. c.to \in {"inbound", "processing"} => c.count \in Rejectable BY <1>0 DEF CallOK
    <3> QED BY <2>1, <2>2, <3>1, <3>2, Distinct DEF FileInv, File!FileTypeOK, File!Dirs
  <2> QED BY <2>1, <2>2, <2>3, <2>5, <2>6 DEF FileInv, File!FileTypeOK
<1>10. CASE File!Unlink(p)
  <2>1. c.event \in FileEvents /\ c.from \in File!Dirs /\ c.event \in accepted
    BY <1>0, <1>10 DEF File!Unlink, CallOK, File!Calls
  <2>2. /\ file' = [file EXCEPT ![c.from][c.event] = Absent]
        /\ call' = [File!Follow(c.event, c.from, Absent) EXCEPT ![p] = File!Idle]
        /\ completed' \subseteq completed \cup {c.event}
        /\ UNCHANGED <<holds, accepted, contested, interrupted, crashes>>
    BY <1>10 DEF File!Unlink
  <2>3. call' \in [Processes -> File!Calls] /\ \A q \in Processes : CallOK(call[q])'
    <3>1. Absent # "processing" BY Distinct DEF File!Dirs
    <3> QED BY <2>1, <2>2, <3>1, Followed
  <2>4. /\ file' \in [File!Dirs -> [FileEvents -> File!Whole \cup {Absent, Torn}]]
        /\ \A x \in FileEvents :
             /\ {file'.inbound[x], file'.processing[x]} \subseteq Rejectable \cup {Absent, Torn}
             /\ \A d \in File!Dirs : file'[d][x] \in File!Whole => x \in accepted'
    BY <2>1, <2>2, Distinct DEF FileInv, File!FileTypeOK, File!Dirs
  <2> QED BY <2>1, <2>2, <2>3, <2>4 DEF FileInv, File!FileTypeOK
<1>11. CASE File!Crash(p)
  <2>1. File!Idle \in File!Calls /\ CallOK(File!Idle)
    BY Distinct DEF File!Idle, File!Calls, CallOK, File!Dirs
  <2>2. c.event \in FileEvents \cup {NoEvent} BY <1>0 DEF File!Calls
  <2>3. crashes' \in 0..MaxCrashes
    BY <1>11, TransportsAssumption DEF TransportsAssumption, File!Crash, FileInv, File!FileTypeOK
  <2>4. \A q \in Processes : CallOK(call[q])'
    BY <1>11, <2>1 DEF File!Crash, FileInv, File!FileTypeOK, CallOK
  <2> QED BY <1>11, <2>1, <2>2, <2>3, <2>4 DEF File!Crash, FileInv, File!FileTypeOK
<1> QED BY <1>1, <1>2, <1>3, <1>4, <1>5, <1>6, <1>7, <1>8, <1>9, <1>10, <1>11

LEMMA TypeStep ==
  ASSUME TypeOK, MemoryInv, FileInv, [Next]_vars
  PROVE  (TypeOK /\ MemoryInv /\ FileInv)'
<1>1. CASE UseMemory
  <2>1. MemoryInv' BY <1>1, MemoryStep DEF UseMemory
  <2>2. FileInv' BY <1>1 DEF UseMemory, files, FileInv, File!FileTypeOK, CallOK
  <2> QED BY <1>1, <2>1, <2>2 DEF UseMemory, TypeOK, MemoryInv, FileInv
<1>2. CASE UseFiles
  <2>1. FileInv' BY <1>2, FileStep DEF UseFiles
  <2>2. MemoryInv' BY <1>2 DEF UseFiles, memory, MemoryInv, Memory!MemoryTypeOK
  <2> QED BY <1>2, <2>1, <2>2 DEF UseFiles, TypeOK, MemoryInv, FileInv
<1>3. CASE UNCHANGED vars
  BY <1>3 DEF vars, memory, files, TypeOK, MemoryInv, FileInv, Memory!MemoryTypeOK,
              File!FileTypeOK, CallOK
<1> QED BY <1>1, <1>2, <1>3 DEF Next

\* The state of either transport is well typed, and no count outgrows the budget.
THEOREM TransportsTyped == Spec => []TypeOK
<1>1. Init => (TypeOK /\ MemoryInv /\ FileInv)
  BY MemoryInit, FileInit DEF Init, TypeOK, MemoryInv, FileInv
<1>2. TypeOK /\ MemoryInv /\ FileInv /\ [Next]_vars => (TypeOK /\ MemoryInv /\ FileInv)' BY TypeStep
<1> QED BY <1>1, <1>2, PTL DEF Spec

-------------------------------------------------------------------------------
(* The transport on disk: a step concerns one event.                       *)

LEMMA IdleEvent == File!Idle.event = NoEvent /\ NoEvent \notin FileEvents
BY TransportsAssumption DEF TransportsAssumption, File!Idle

\* A step of process p that concerns the event x, or none.
AccessTo(p, x) ==
  \/ /\ x \in FileEvents
     /\ \/ File!Send(p, x) \/ File!ReceiveRead(p, x) \/ File!Acknowledge(p, x)
        \/ File!Reject(p, x) \/ File!Retry(p, x)
  \/ /\ x = call[p].event
     /\ \/ File!ReceiveRename(p) \/ File!Open(p) \/ File!Write(p)
        \/ File!Unlink(p) \/ File!Crash(p)
  \/ x = NoEvent /\ \E e \in FileEvents : File!Missing(p, e)

Untouched(e) ==
  /\ \A d \in File!Dirs : file'[d][e] = file[d][e]
  /\ \A q \in Processes : call'[q].event = e \/ call[q].event = e => call'[q] = call[q]
  /\ e \in accepted' <=> e \in accepted
  /\ e \in completed' <=> e \in completed
  /\ e \in contested' <=> e \in contested
  /\ e \in interrupted' <=> e \in interrupted

LEMMA Local ==
  ASSUME FileInv, NEW p \in Processes, NEW x \in FileEvents \cup {NoEvent}, AccessTo(p, x),
         NEW e \in FileEvents \ {x}
  PROVE  Untouched(e)
<1> DEFINE c == call[p]
<1>0. /\ c \in File!Calls /\ CallOK(c)
      /\ c.at # "idle" => c.event \in FileEvents
      /\ {"inbound", "processing", "dead_letter"} = File!Dirs
  BY DEF FileInv, File!FileTypeOK, CallOK, File!Dirs
<1>1. ASSUME NEW step, step.event = x, x \in FileEvents, File!Begin(p, x, step),
             UNCHANGED <<file, accepted, completed>>
      PROVE  Untouched(e)
  <2>1. c.event = NoEvent BY <1>1, IdleEvent DEF File!Begin
  <2>2. call' = [call EXCEPT ![p] = step] /\ contested' \in {contested, contested \cup {x}}
        /\ UNCHANGED interrupted
    BY <1>1 DEF File!Begin
  <2>3. call'[p] = step /\ \A q \in Processes \ {p} : call'[q] = call[q]
    BY <2>2 DEF FileInv, File!FileTypeOK
  <2>4. \A q \in Processes : call'[q].event = e \/ call[q].event = e => call'[q] = call[q]
    BY <1>1, <2>1, <2>3, IdleEvent
  <2> QED BY <1>1, <2>2, <2>4 DEF Untouched
<1>2. CASE /\ x \in FileEvents
           /\ \/ File!Send(p, x) \/ File!ReceiveRead(p, x) \/ File!Acknowledge(p, x)
              \/ File!Reject(p, x) \/ File!Retry(p, x)
  <2>1. /\ UNCHANGED <<file, accepted, completed>>
        /\ \E at, n, d, from : File!Begin(p, x, File!Step(at, x, n, d, from))
    BY <1>2 DEF File!Send, File!ReceiveRead, File!Acknowledge, File!Reject, File!Retry
  <2>2. PICK at, n, d, from : File!Begin(p, x, File!Step(at, x, n, d, from)) BY <2>1
  <2>3. File!Step(at, x, n, d, from).event = x BY DEF File!Step
  <2> QED BY <1>1, <1>2, <2>1, <2>2, <2>3
<1>3. CASE x = c.event /\ (File!ReceiveRename(p) \/ File!Unlink(p))
  <2>1. c.event \in FileEvents /\ c.event # e BY <1>0, <1>3 DEF File!ReceiveRename, File!Unlink
  <2>2. CASE File!ReceiveRename(p) /\ file.inbound[x] = Absent
    <3>1. call' = [call EXCEPT ![p] = File!Idle]
          /\ UNCHANGED <<file, accepted, completed, contested, interrupted>>
      BY <1>3, <2>2 DEF File!ReceiveRename
    <3>2. \A q \in Processes : call'[q].event = e \/ call[q].event = e => call'[q] = call[q]
      BY <2>1, <3>1, IdleEvent DEF FileInv, File!FileTypeOK
    <3> QED BY <3>1, <3>2 DEF Untouched
  <2>3. CASE File!ReceiveRename(p) /\ file.inbound[x] # Absent
    <3>1. /\ file' = [file EXCEPT !.processing[x] = file.inbound[x], !.inbound[x] = Absent]
          /\ call' = [File!Follow(x, "inbound", "processing") EXCEPT ![p] = File!Idle]
          /\ UNCHANGED <<accepted, completed, contested, interrupted>>
      BY <1>3, <2>3 DEF File!ReceiveRename
    <3>2. /\ call'[p] = File!Idle
          /\ \A q \in Processes \ {p} : call[q].event # x => call'[q] = call[q]
          /\ \A q \in Processes : call'[q].event \in {call[q].event, NoEvent}
      BY <1>0, <1>3, <2>1, <3>1, Followed
    <3>3. \A d \in File!Dirs : file'[d][e] = file[d][e]
      BY <1>0, <1>3, <2>1, <3>1 DEF FileInv, File!FileTypeOK
    <3>4. \A q \in Processes : call'[q].event = e \/ call[q].event = e => call'[q] = call[q]
      BY <1>3, <2>1, <3>2, IdleEvent
    <3> QED BY <3>1, <3>3, <3>4 DEF Untouched
  <2>4. CASE File!Unlink(p)
    <3>1. /\ c.from \in File!Dirs
          /\ file' = [file EXCEPT ![c.from][x] = Absent]
          /\ call' = [File!Follow(x, c.from, Absent) EXCEPT ![p] = File!Idle]
          /\ completed' \in {completed, completed \cup {x}}
          /\ UNCHANGED <<accepted, contested, interrupted>>
      BY <1>0, <1>3, <2>4 DEF File!Unlink, CallOK, File!Calls
    <3>2. /\ call'[p] = File!Idle
          /\ \A q \in Processes \ {p} : call[q].event # x => call'[q] = call[q]
          /\ \A q \in Processes : call'[q].event \in {call[q].event, NoEvent}
      <4>1. Absent # "processing" BY Distinct DEF File!Dirs
      <4> QED BY <1>3, <2>1, <3>1, <4>1, Followed
    <3>3. \A d \in File!Dirs : file'[d][e] = file[d][e]
      BY <1>3, <2>1, <3>1 DEF FileInv, File!FileTypeOK
    <3>4. \A q \in Processes : call'[q].event = e \/ call[q].event = e => call'[q] = call[q]
      BY <1>3, <2>1, <3>2, IdleEvent
    <3> QED BY <1>3, <2>1, <3>1, <3>3, <3>4 DEF Untouched
  <2> QED BY <1>3, <2>2, <2>3, <2>4
<1>4. CASE x = c.event /\ (File!Open(p) \/ File!Write(p))
  <2>1. c.event \in FileEvents /\ c.event # e BY <1>0, <1>4 DEF File!Open, File!Write
  <2> DEFINE next == IF File!Open(p) THEN [c EXCEPT !.at = "write"]
                     ELSE IF c.from = Absent THEN File!Idle
                     ELSE [c EXCEPT !.at = "unlink", !.to = Absent]
  <2>2. \A q \in Processes : call'[q] = IF q = p THEN next ELSE call[q]
    BY <1>4 DEF File!Open, File!Write, FileInv, File!FileTypeOK
  <2>3. next.event \in {x, NoEvent} BY <1>0, <1>4, IdleEvent DEF File!Calls
  <2>4. c.to \in File!Dirs \cup {Absent} BY <1>0 DEF File!Calls
  <2>5. \/ file' = file
        \/ c.to \in File!Dirs /\ file' = [file EXCEPT ![c.to][c.event] = Torn]
        \/ c.to \in File!Dirs /\ file' = [file EXCEPT ![c.to][c.event] = c.count]
    BY <1>0, <1>4, <2>4 DEF File!Open, File!Write, CallOK
  <2>6. \A d \in File!Dirs : file'[d][e] = file[d][e]
    BY <2>1, <2>5 DEF FileInv, File!FileTypeOK
  <2>7. /\ call'[p].event \in {x, NoEvent}
        /\ \A q \in Processes \ {p} : call'[q] = call[q]
    BY <2>2, <2>3
  <2>8. \A q \in Processes : call'[q].event = e \/ call[q].event = e => call'[q] = call[q]
    BY <1>4, <2>1, <2>7, IdleEvent
  <2> QED BY <1>4, <2>1, <2>6, <2>8 DEF Untouched, File!Open, File!Write
<1>5. CASE x = c.event /\ File!Crash(p)
  <2>1. \A q \in Processes : call'[q].event = e \/ call[q].event = e => call'[q] = call[q]
    BY <1>5, IdleEvent DEF File!Crash, FileInv, File!FileTypeOK
  <2> QED BY <1>5, <2>1 DEF File!Crash, Untouched
<1>6. CASE \E y \in FileEvents : File!Missing(p, y) BY <1>6 DEF File!Missing, Untouched
<1> QED BY <1>2, <1>3, <1>4, <1>5, <1>6 DEF AccessTo

-------------------------------------------------------------------------------
(* The transport on disk: nothing is lost.                                 *)

SomeCopy(e, Ds) == \E d \in Ds : file[d][e] \in File!Whole

\* What the call c, the only one on e, finds when it goes on.
CallSafe(e, c) ==
  /\ c.at = "rename" => file.inbound[e] \in File!Whole
  /\ c.at \in {"open", "write"} /\ c.from = Absent => e \notin accepted
  /\ c.at \in {"open", "write"} => c.to \in File!Dirs \ {c.from}
  /\ c.at \in {"open", "write"} /\ c.from # Absent => file[c.from][e] \in File!Whole
  /\ c.at = "unlink" => SomeCopy(e, File!Dirs \ {c.from})

SafeEvent(e) ==
  e \notin contested =>
    /\ \A p, q \in Processes : call[p].event = e /\ call[q].event = e => p = q
    /\ \A p \in Processes : call[p].event = e => CallSafe(e, call[p])
    /\ e \in accepted \ completed => SomeCopy(e, File!Dirs)

LEMMA Elsewhere ==
  ASSUME NEW e \in FileEvents, FileInv, SafeEvent(e), Untouched(e)
  PROVE  SafeEvent(e)'
<1> SUFFICES ASSUME (e \notin contested)'
             PROVE  /\ \A p, q \in Processes : call'[p].event = e /\ call'[q].event = e => p = q
                    /\ \A p \in Processes : call'[p].event = e => CallSafe(e, call[p])'
                    /\ e \in accepted' \ completed' => SomeCopy(e, File!Dirs)'
  BY DEF SafeEvent
<1> USE DEF Untouched
<1>1. /\ \A p, q \in Processes : call[p].event = e /\ call[q].event = e => p = q
      /\ \A p \in Processes : call[p].event = e => CallSafe(e, call[p])
      /\ e \in accepted \ completed => SomeCopy(e, File!Dirs)
  BY DEF SafeEvent
<1>2. ASSUME NEW p \in Processes, call'[p].event = e PROVE CallSafe(e, call[p])'
  <2>1. call'[p] = call[p] /\ CallSafe(e, call[p]) BY <1>1, <1>2
  <2>2. call[p].from \in File!Dirs \cup {Absent} BY DEF FileInv, File!FileTypeOK, File!Calls
  <2>3. "inbound" \in File!Dirs BY DEF File!Dirs
  <2> QED BY <2>1, <2>2, <2>3 DEF CallSafe, SomeCopy
<1>3. e \in accepted' \ completed' => SomeCopy(e, File!Dirs)' BY <1>1 DEF SomeCopy
<1> QED BY <1>1, <1>2, <1>3

\* A call on e starts: if another call is on e, e is contested from now on.
LEMMA BeginSafe ==
  ASSUME NEW e \in FileEvents, FileInv, SafeEvent(e),
         NEW p \in Processes, NEW step \in File!Calls,
         File!Begin(p, e, step), step.event = e,
         UNCHANGED <<file, accepted, completed>>, CallSafe(e, step)
  PROVE  SafeEvent(e)'
<1> SUFFICES ASSUME (e \notin contested)'
             PROVE  /\ \A q, r \in Processes : call'[q].event = e /\ call'[r].event = e => q = r
                    /\ \A q \in Processes : call'[q].event = e => CallSafe(e, call[q])'
                    /\ e \in accepted' \ completed' => SomeCopy(e, File!Dirs)'
  BY DEF SafeEvent
<1>1. call'[p] = step /\ \A q \in Processes \ {p} : call'[q] = call[q] BY BeginStep
<1>2. e \notin contested /\ \A q \in Processes : call[q].event # e BY DEF File!Begin
<1>3. \A q \in Processes : call'[q].event = e => q = p BY <1>1, <1>2
<1>4. CallSafe(e, call[p])' BY <1>1 DEF CallSafe, SomeCopy
<1>5. e \in accepted' \ completed' => SomeCopy(e, File!Dirs)' BY <1>2 DEF SafeEvent, SomeCopy
<1> QED BY <1>3, <1>4, <1>5

\* The only call on e ends or goes on: what it was is what it leaves.
LEMMA OwnStep ==
  ASSUME NEW e \in FileEvents, FileInv, SafeEvent(e), NEW p \in Processes,
         call[p].event = e, contested' = contested,
         \A q \in Processes : call'[q].event \in {call[q].event, NoEvent},
         e \notin contested /\ CallSafe(e, call[p]) =>
            /\ call'[p].event = e => CallSafe(e, call[p])'
            /\ e \in accepted' \ completed' => SomeCopy(e, File!Dirs)'
  PROVE  SafeEvent(e)'
<1> SUFFICES ASSUME e \notin contested
             PROVE  /\ \A q, r \in Processes :
                         call'[q].event = e /\ call'[r].event = e => q = r
                    /\ \A q \in Processes : call'[q].event = e => CallSafe(e, call[q])'
                    /\ e \in accepted' \ completed' => SomeCopy(e, File!Dirs)'
  BY DEF SafeEvent
<1>1. /\ \A q \in Processes : call[q].event = e => q = p
      /\ CallSafe(e, call[p])
  BY DEF SafeEvent
<1>2. \A q \in Processes : call'[q].event = e => q = p BY <1>1, IdleEvent
<1> QED BY <1>1, <1>2

\* A step that concerns e.
LEMMA OwnSafe ==
  ASSUME NEW e \in FileEvents, FileInv, SafeEvent(e), NEW p \in Processes, AccessTo(p, e)
  PROVE  SafeEvent(e)'
<1> DEFINE c == call[p]
<1>0. /\ c \in File!Calls /\ CallOK(c)
      /\ {"inbound", "processing", "dead_letter"} = File!Dirs
  BY DEF FileInv, File!FileTypeOK, File!Dirs
<1>1. CASE File!Send(p, e)
  <2> DEFINE step == File!Step("open", e, 0, "inbound", Absent)
  <2>1. step \in File!Calls /\ step.event = e BY Distinct DEF File!Step, File!Calls, File!Dirs
  <2>2. CallSafe(e, step) BY <1>1, Distinct DEF File!Send, CallSafe, File!Step, File!Dirs
  <2> QED BY <1>1, <2>1, <2>2, BeginSafe DEF File!Send
<1>2. CASE File!ReceiveRead(p, e)
  <2> DEFINE step == File!Step("rename", e, 0, Absent, Absent)
  <2>1. step \in File!Calls /\ step.event = e BY Distinct DEF File!Step, File!Calls, File!Dirs
  <2>2. CallSafe(e, step) BY <1>2 DEF File!ReceiveRead, CallSafe, File!Step
  <2> QED BY <1>2, <2>1, <2>2, BeginSafe DEF File!ReceiveRead
<1>3. CASE File!Acknowledge(p, e)
  <2> DEFINE step == File!Step("remove", e, 0, Absent, "processing")
  <2>1. step \in File!Calls /\ step.event = e BY Distinct DEF File!Step, File!Calls, File!Dirs
  <2>2. CallSafe(e, step) BY DEF CallSafe, File!Step
  <2> QED BY <1>3, <2>1, <2>2, BeginSafe DEF File!Acknowledge
<1>4. CASE File!Reject(p, e)
  <2> DEFINE count == file.processing[e] + 1
             step == File!Step("open", e, count, File!Destination(count), "processing")
  <2>1. count \in File!Whole BY <1>4, Distinct DEF File!Reject, FileInv
  <2>2. File!Destination(count) \in File!Dirs \ {"processing"} BY DEF File!Destination, File!Dirs
  <2>3. step \in File!Calls /\ step.event = e BY <2>1, <2>2 DEF File!Step, File!Calls, File!Dirs
  <2>4. CallSafe(e, step)
    BY <1>0, <1>4, <2>2, Distinct DEF File!Reject, CallSafe, File!Step
  <2> QED BY <1>4, <2>3, <2>4, BeginSafe DEF File!Reject
<1>5. CASE File!Retry(p, e)
  <2> DEFINE step == File!Step("open", e, 0, "inbound", "dead_letter")
  <2>1. step \in File!Calls /\ step.event = e BY Distinct DEF File!Step, File!Calls, File!Dirs
  <2>2. CallSafe(e, step) BY <1>0, <1>5, Distinct DEF File!Retry, CallSafe, File!Step
  <2> QED BY <1>5, <2>1, <2>2, BeginSafe DEF File!Retry
<1>6. CASE c.event = e /\ File!ReceiveRename(p)
  <2> SUFFICES ASSUME e \notin contested, CallSafe(e, c)
               PROVE  call'[p].event # e /\ SomeCopy(e, File!Dirs)'
                      /\ \A q \in Processes : call'[q].event \in {call[q].event, NoEvent}
    BY <1>6, OwnStep DEF File!ReceiveRename, SafeEvent
  <2>1. file.inbound[e] \in File!Whole BY <1>6 DEF File!ReceiveRename, CallSafe
  <2>2. /\ file' = [file EXCEPT !.processing[e] = file.inbound[e], !.inbound[e] = Absent]
        /\ call' = [File!Follow(e, "inbound", "processing") EXCEPT ![p] = File!Idle]
        /\ accepted' = accepted
    BY <1>6, <2>1, Distinct DEF File!ReceiveRename
  <2>3. file'.processing[e] \in File!Whole
    BY <2>1, <2>2 DEF FileInv, File!FileTypeOK, File!Dirs
  <2>4. SomeCopy(e, File!Dirs)' BY <1>0, <2>3 DEF SomeCopy
  <2> QED BY <1>0, <2>2, <2>4, Followed, IdleEvent
<1>7. CASE c.event = e /\ File!Open(p)
  <2>1. /\ c.at = "open" /\ c.to \in File!Dirs
        /\ file' = [file EXCEPT ![c.to][e] = Torn]
        /\ call' = [call EXCEPT ![p] = [c EXCEPT !.at = "write"]]
        /\ UNCHANGED <<accepted, completed, contested>>
    BY <1>0, <1>7 DEF File!Open, CallOK, File!Calls
  <2>2. call'[p] = [c EXCEPT !.at = "write"] /\ \A q \in Processes \ {p} : call'[q] = call[q]
    BY <2>1 DEF FileInv, File!FileTypeOK
  <2> SUFFICES ASSUME CallSafe(e, c)
               PROVE  /\ CallSafe(e, call[p])'
                      /\ e \in accepted' \ completed' => SomeCopy(e, File!Dirs)'
    <3>1. \A q \in Processes : call'[q].event = call[q].event BY <1>0, <2>2 DEF File!Calls
    <3> QED BY <1>7, <2>1, <3>1, OwnStep
  <2>3. c.from \in File!Dirs \cup {Absent} BY <1>0 DEF File!Calls
  <2>4. c.to \in File!Dirs \ {c.from} /\ (c.from = Absent => e \notin accepted)
        /\ (c.from # Absent => file[c.from][e] \in File!Whole)
    BY <2>1 DEF CallSafe
  <2>5. c.from # Absent => c.from \in File!Dirs /\ file'[c.from][e] = file[c.from][e]
    BY <2>1, <2>3, <2>4 DEF FileInv, File!FileTypeOK
  <2>6. call'[p].at = "write" /\ call'[p].to = c.to /\ call'[p].from = c.from
    BY <1>0, <2>2 DEF File!Calls
  <2>7. CallSafe(e, call[p])' BY <2>1, <2>4, <2>5, <2>6 DEF CallSafe
  <2>8. e \in accepted' \ completed' => SomeCopy(e, File!Dirs)'
    BY <2>1, <2>4, <2>5 DEF SomeCopy
  <2> QED BY <2>7, <2>8
<1>8. CASE c.event = e /\ File!Write(p)
  <2> DEFINE next == IF c.from = Absent THEN File!Idle
                     ELSE [c EXCEPT !.at = "unlink", !.to = Absent]
  <2>1. /\ c.at = "write" /\ c.count \in File!Whole /\ c.to \in File!Dirs \cup {Absent}
        /\ file' = IF c.to = Absent THEN file ELSE [file EXCEPT ![c.to][e] = c.count]
        /\ call' = [call EXCEPT ![p] = next]
        /\ accepted' = accepted \cup {e}
        /\ UNCHANGED <<completed, contested>>
    BY <1>0, <1>8 DEF File!Write, File!Calls
  <2>2. call'[p] = next /\ \A q \in Processes \ {p} : call'[q] = call[q]
    BY <2>1 DEF FileInv, File!FileTypeOK
  <2>3. next.event \in {c.event, NoEvent} BY <1>0, IdleEvent DEF File!Calls
  <2> SUFFICES ASSUME CallSafe(e, c)
               PROVE  /\ call'[p].event = e => CallSafe(e, call[p])'
                      /\ e \in accepted' \ completed' => SomeCopy(e, File!Dirs)'
    <3>1. \A q \in Processes : call'[q].event \in {call[q].event, NoEvent} BY <2>2, <2>3
    <3> QED BY <1>8, <2>1, <3>1, OwnStep
  <2>4. c.to \in File!Dirs \ {c.from} /\ c.to # Absent BY <2>1, Distinct DEF CallSafe
  <2>5. file'[c.to][e] \in File!Whole BY <2>1, <2>4 DEF FileInv, File!FileTypeOK
  <2>6. \E d \in File!Dirs \ {c.from} : file'[d][e] \in File!Whole BY <2>4, <2>5
  <2>7. call'[p].event = e => call'[p].at = "unlink" /\ call'[p].from = c.from
    BY <1>0, <2>2, IdleEvent DEF File!Calls
  <2>8. call'[p].event = e => CallSafe(e, call[p])' BY <2>6, <2>7 DEF CallSafe, SomeCopy
  <2> QED BY <2>6, <2>8 DEF SomeCopy
<1>9. CASE c.event = e /\ File!Unlink(p)
  <2>1. /\ c.at \in {"unlink", "remove"} /\ c.from \in File!Dirs
        /\ file' = [file EXCEPT ![c.from][e] = Absent]
        /\ call' = [File!Follow(e, c.from, Absent) EXCEPT ![p] = File!Idle]
        /\ completed' = IF c.at = "remove" /\ file[c.from][e] # Absent
                        THEN completed \cup {e} ELSE completed
        /\ UNCHANGED <<accepted, contested>>
    BY <1>0, <1>9 DEF File!Unlink, CallOK, File!Calls
  <2>2. /\ call'[p].event # e
        /\ \A q \in Processes : call'[q].event \in {call[q].event, NoEvent}
    <3>1. Absent # "processing" BY Distinct DEF File!Dirs
    <3> QED BY <2>1, <3>1, Followed, IdleEvent
  <2> SUFFICES ASSUME e \notin contested, CallSafe(e, c), e \in accepted' \ completed'
               PROVE  SomeCopy(e, File!Dirs)'
    BY <1>9, <2>1, <2>2, OwnStep
  <2>3. CASE c.at = "unlink"
    <3>1. PICK d \in File!Dirs \ {c.from} : file[d][e] \in File!Whole
      BY <2>3 DEF CallSafe, SomeCopy
    <3>2. file'[d][e] = file[d][e] BY <2>1, <3>1 DEF FileInv, File!FileTypeOK
    <3> QED BY <3>1, <3>2 DEF SomeCopy
  <2>4. CASE c.at = "remove"
    <3>1. file[c.from][e] = Absent BY <2>1, <2>4
    <3>2. PICK d \in File!Dirs : file[d][e] \in File!Whole
      BY <2>1 DEF SafeEvent, SomeCopy
    <3>3. d # c.from BY <3>1, <3>2, Distinct
    <3>4. file'[d][e] = file[d][e] BY <2>1, <3>2, <3>3 DEF FileInv, File!FileTypeOK
    <3> QED BY <3>2, <3>4 DEF SomeCopy
  <2> QED BY <2>1, <2>3, <2>4
<1>10. CASE c.event = e /\ File!Crash(p)
  <2>1. /\ call' = [call EXCEPT ![p] = File!Idle]
        /\ UNCHANGED <<file, accepted, completed, contested>>
    BY <1>10 DEF File!Crash
  <2>2. call'[p].event # e /\ \A q \in Processes : call'[q].event \in {call[q].event, NoEvent}
    BY <2>1, IdleEvent DEF FileInv, File!FileTypeOK
  <2>3. e \notin contested /\ e \in accepted' \ completed' => SomeCopy(e, File!Dirs)'
    BY <2>1 DEF SafeEvent, SomeCopy
  <2> QED BY <1>10, <2>1, <2>2, <2>3, OwnStep
<1> QED
  BY <1>1, <1>2, <1>3, <1>4, <1>5, <1>6, <1>7, <1>8, <1>9, <1>10, IdleEvent DEF AccessTo

LEMMA SomeAccess ==
  ASSUME FileInv, File!FileNext
  PROVE  \E p \in Processes, x \in FileEvents \cup {NoEvent} : AccessTo(p, x)
<1>1. \A p \in Processes : call[p].event \in FileEvents \cup {NoEvent}
  BY DEF FileInv, File!FileTypeOK, File!Calls
<1> QED BY <1>1 DEF File!FileNext, AccessTo

LEMMA SafeStep ==
  ASSUME NEW e \in FileEvents, FileInv, SafeEvent(e), File!FileNext
  PROVE  SafeEvent(e)'
<1>1. PICK p \in Processes, x \in FileEvents \cup {NoEvent} : AccessTo(p, x) BY SomeAccess
<1>2. CASE x = e BY <1>1, <1>2, OwnSafe
<1>3. CASE x # e BY <1>1, <1>3, Local, Elsewhere
<1> QED BY <1>2, <1>3

\* On disk an event that was sent and not acknowledged is there in one piece,
\* unless two calls worked on it at the same time, whoever died.
THEOREM NothingIsLost == Spec => []NothingLost
<1> DEFINE Inv == TypeOK /\ MemoryInv /\ FileInv /\ \A e \in FileEvents : SafeEvent(e)
<1>1. Init => Inv
  <2> SUFFICES ASSUME Init PROVE Inv OBVIOUS
  <2>1. TypeOK /\ MemoryInv /\ FileInv
    BY MemoryInit, FileInit DEF Init, TypeOK, MemoryInv, FileInv
  <2>2. ASSUME NEW e \in FileEvents PROVE SafeEvent(e)
    BY IdleEvent DEF Init, File!FileInit, SafeEvent
  <2> QED BY <2>1, <2>2
<1>2. Inv /\ [Next]_vars => Inv'
  <2> SUFFICES ASSUME Inv, [Next]_vars PROVE Inv' OBVIOUS
  <2>1. (TypeOK /\ MemoryInv /\ FileInv)' BY TypeStep
  <2>2. ASSUME NEW e \in FileEvents PROVE SafeEvent(e)'
    <3>1. CASE UseFiles BY <3>1, SafeStep DEF UseFiles
    <3>2. CASE UseMemory \/ UNCHANGED vars
      BY <3>2 DEF UseMemory, vars, files, SafeEvent, CallSafe, SomeCopy
    <3> QED BY <3>1, <3>2 DEF Next
  <2> QED BY <2>1, <2>2
<1>3. Inv => NothingLost
  <2> SUFFICES ASSUME Inv, NEW e \in accepted \ (completed \cup contested)
               PROVE  \E d \in File!Dirs : file[d][e] \in File!Whole
    BY DEF NothingLost, File!NothingLost
  <2>1. e \in FileEvents BY DEF FileInv, File!FileTypeOK
  <2> QED BY <2>1 DEF SafeEvent, SomeCopy
<1> QED BY <1>1, <1>2, <1>3, PTL DEF Spec

-------------------------------------------------------------------------------
(* The transport on disk delivers.                                         *)

Disputed(e) == e \in contested \cup interrupted

None(e) == \A d \in File!Dirs : file[d][e] = Absent

Only(e, d) ==
  file[d][e] \in File!Whole /\ \A d2 \in File!Dirs \ {d} : file[d2][e] = Absent

\* An event no call works on: not sent, settled, or there in one copy.
AtRest(e) ==
  \/ None(e) /\ (e \in accepted => e \in completed)
  \/ e \notin completed /\ \E d \in File!Dirs : Only(e, d)

\* Where a reject or a retry writes the next copy.
Goal(c) == IF c.from = "processing" THEN File!Destination(c.count) ELSE "inbound"

\* How the files of an event look to the only call c on it.
InHand(e, c) ==
  /\ e \notin completed
  /\ \/ /\ c.at \in {"open", "write"} /\ c.from = Absent
        /\ c.to = "inbound" /\ c.count = 0 /\ e \notin accepted
        /\ file.inbound[e] = IF c.at = "open" THEN Absent ELSE Torn
        /\ file.processing[e] = Absent /\ file.dead_letter[e] = Absent
     \/ c.at = "rename" /\ Only(e, "inbound")
     \/ c.at = "remove" /\ c.from = "processing" /\ Only(e, "processing")
     \/ /\ c.at \in {"open", "write", "unlink"}
        /\ c.from \in {"processing", "dead_letter"}
        /\ c.at # "unlink" => c.to = Goal(c)
        /\ file[c.from][e] \in File!Whole
        /\ c.count = IF c.from = "processing" THEN file.processing[e] + 1 ELSE 0
        /\ file[Goal(c)][e] = CASE c.at = "open" -> Absent
                                [] c.at = "write" -> Torn
                                [] c.at = "unlink" -> c.count
        /\ \A d \in File!Dirs \ {c.from, Goal(c)} : file[d][e] = Absent

Shape(e) ==
  ~Disputed(e) =>
    /\ (\A p \in Processes : call[p].event # e) => AtRest(e)
    /\ \A p \in Processes : call[p].event = e => InHand(e, call[p])

FileBudget == IF MaxRetries = 0 THEN 0 ELSE MaxRetries - 1

\* What a step of either transport may do to an event, as EventDelivery sees it.
Hop(budget, pl, pl2, n, n2) ==
  \/ pl2 = pl /\ n2 = n
  \/ <<pl, pl2>> \in {<<"unsent", "waiting">>, <<"waiting", "processing">>,
                      <<"dead", "waiting">>} /\ n2 = n
  \/ pl = "processing" /\ pl2 = "done" /\ n2 = 0
  \/ pl = "processing" /\ pl2 = "waiting" /\ n < budget /\ n2 = n + 1
  \/ pl = "processing" /\ pl2 = "dead" /\ n >= budget /\ n2 = 0
  \/ pl2 = "disputed" /\ n2 = 0

FileHop(e) == Hop(FileBudget, FilePlace(e), FilePlace(e)', FileRefused(e), FileRefused(e)')

\* An event nothing touched is where it was.
LEMMA ShapeElsewhere ==
  ASSUME NEW e \in FileEvents, FileInv, Shape(e), Untouched(e)
  PROVE  Shape(e)' /\ FilePlace(e)' = FilePlace(e) /\ FileRefused(e)' = FileRefused(e)
<1>0. {"inbound", "processing", "dead_letter"} = File!Dirs BY DEF File!Dirs
<1>1. FilePlace(e)' = FilePlace(e) /\ FileRefused(e)' = FileRefused(e)
  BY <1>0 DEF Untouched, FilePlace, FileRefused
<1>2. Shape(e)'
  <2> SUFFICES ASSUME ~Disputed(e)'
               PROVE  /\ (\A p \in Processes : call'[p].event # e) => AtRest(e)'
                      /\ \A p \in Processes : call'[p].event = e => InHand(e, call[p])'
    BY DEF Shape
  <2>1. ~Disputed(e) BY DEF Disputed, Untouched
  <2>2. ASSUME \A p \in Processes : call'[p].event # e PROVE AtRest(e)'
    <3>1. \A p \in Processes : call[p].event # e BY <2>2 DEF Untouched
    <3>2. AtRest(e) BY <2>1, <3>1 DEF Shape
    <3> QED BY <3>2 DEF Untouched, AtRest, None, Only
  <2>3. ASSUME NEW p \in Processes, call'[p].event = e PROVE InHand(e, call[p])'
    <3>1. call'[p] = call[p] BY <2>3 DEF Untouched
    <3>2. InHand(e, call[p]) BY <2>1, <2>3, <3>1 DEF Shape
    <3>3. Goal(call[p]) \in File!Dirs BY DEF Goal, File!Destination, File!Dirs
    <3> QED BY <1>0, <3>1, <3>2, <3>3 DEF Untouched, InHand, Only, Goal
  <2> QED BY <2>2, <2>3
<1> QED BY <1>1, <1>2

\* A call on an event at rest takes it in hand, and leaves it where it is.
LEMMA BeginShape ==
  ASSUME NEW e \in FileEvents, FileInv, Shape(e), ~Disputed(e)',
         NEW p \in Processes, NEW step \in File!Calls, step.event = e,
         File!Begin(p, e, step), UNCHANGED <<file, accepted, completed>>,
         AtRest(e) => InHand(e, step)
  PROVE  Shape(e)' /\ FileHop(e)
<1>1. /\ call'[p] = step /\ \A q \in Processes \ {p} : call'[q] = call[q]
      /\ UNCHANGED interrupted
  BY BeginStep
<1>2. ~Disputed(e) /\ \A q \in Processes : call[q].event # e
  BY <1>1 DEF Disputed, File!Begin
<1>3. InHand(e, step) BY <1>2 DEF Shape
<1>4. InHand(e, call[p])' BY <1>1, <1>3 DEF InHand, Only, Goal
<1>5. Shape(e)' BY <1>1, <1>2, <1>4 DEF Shape
<1>6. FilePlace(e)' = FilePlace(e) /\ FileRefused(e)' = FileRefused(e)
  BY <1>2 DEF FilePlace, FileRefused, Disputed
<1> QED BY <1>5, <1>6 DEF FileHop, Hop

\* The only call on an event goes on or ends.
LEMMA OwnShape ==
  ASSUME NEW e \in FileEvents, SafeEvent(e), ~Disputed(e),
         NEW p \in Processes, call[p].event = e, UNCHANGED <<contested, interrupted>>,
         \A q \in Processes : call'[q].event \in {call[q].event, NoEvent},
         call'[p].event = e => InHand(e, call[p])',
         call'[p].event # e => AtRest(e)'
  PROVE  Shape(e)'
<1>1. \A q \in Processes : call[q].event = e => q = p BY DEF SafeEvent, Disputed
<1>2. \A q \in Processes : call'[q].event = e => q = p BY <1>1, IdleEvent
<1>3. ASSUME \A q \in Processes : call'[q].event # e PROVE AtRest(e)' BY <1>3
<1> QED BY <1>2, <1>3 DEF Shape

LEMMA ShapeBegin ==
  ASSUME NEW e \in FileEvents, FileInv, Shape(e), ~Disputed(e)', NEW p \in Processes,
         \/ File!Send(p, e) \/ File!ReceiveRead(p, e) \/ File!Acknowledge(p, e)
         \/ File!Reject(p, e) \/ File!Retry(p, e)
  PROVE  Shape(e)' /\ FileHop(e)
<1>0. {"inbound", "processing", "dead_letter"} = File!Dirs BY DEF File!Dirs
<1>1. CASE File!Send(p, e)
  <2> DEFINE step == File!Step("open", e, 0, "inbound", Absent)
  <2>1. step \in File!Calls /\ step.event = e BY Distinct DEF File!Step, File!Calls, File!Dirs
  <2>2. e \notin accepted /\ e \notin completed BY <1>1 DEF File!Send, FileInv, File!FileTypeOK
  <2>3. AtRest(e) => None(e) BY <2>2 DEF AtRest, Only, FileInv
  <2>4. AtRest(e) => InHand(e, step)
    BY <1>0, <2>2, <2>3, Distinct DEF InHand, File!Step, None
  <2> QED BY <1>1, <2>1, <2>4, BeginShape DEF File!Send
<1>2. CASE File!ReceiveRead(p, e)
  <2> DEFINE step == File!Step("rename", e, 0, Absent, Absent)
  <2>1. step \in File!Calls /\ step.event = e BY Distinct DEF File!Step, File!Calls, File!Dirs
  <2>2. AtRest(e) => InHand(e, step)
    BY <1>0, <1>2, Distinct DEF File!ReceiveRead, InHand, File!Step, None, AtRest, Only
  <2> QED BY <1>2, <2>1, <2>2, BeginShape DEF File!ReceiveRead
<1>3. CASE File!Acknowledge(p, e)
  <2> DEFINE step == File!Step("remove", e, 0, Absent, "processing")
  <2>1. step \in File!Calls /\ step.event = e BY Distinct DEF File!Step, File!Calls, File!Dirs
  <2>2. AtRest(e) => InHand(e, step)
    BY <1>0, <1>3, Distinct DEF File!Acknowledge, InHand, File!Step, None, AtRest, Only
  <2> QED BY <1>3, <2>1, <2>2, BeginShape DEF File!Acknowledge
<1>4. CASE File!Reject(p, e)
  <2> DEFINE count == file.processing[e] + 1
             step == File!Step("open", e, count, File!Destination(count), "processing")
  <2>1. count \in File!Whole BY <1>4, Distinct DEF File!Reject, FileInv
  <2>2. File!Destination(count) \in File!Dirs \ {"processing"} BY DEF File!Destination, File!Dirs
  <2>3. step \in File!Calls /\ step.event = e BY <2>1, <2>2 DEF File!Step, File!Calls, File!Dirs
  <2>4. Goal(step) = File!Destination(count) BY DEF Goal, File!Step
  <2>5. AtRest(e) => Only(e, "processing") /\ e \notin completed
    BY <1>0, <1>4, Distinct DEF File!Reject, None, AtRest, Only
  <2>6. AtRest(e) => InHand(e, step)
    BY <1>0, <1>4, <2>2, <2>4, <2>5, Distinct DEF File!Reject, InHand, File!Step, Only
  <2> QED BY <1>4, <2>3, <2>6, BeginShape DEF File!Reject
<1>5. CASE File!Retry(p, e)
  <2> DEFINE step == File!Step("open", e, 0, "inbound", "dead_letter")
  <2>1. step \in File!Calls /\ step.event = e BY Distinct DEF File!Step, File!Calls, File!Dirs
  <2>2. Goal(step) = "inbound" BY DEF Goal, File!Step
  <2>3. AtRest(e) => Only(e, "dead_letter") /\ e \notin completed
    BY <1>0, <1>5, Distinct DEF File!Retry, None, AtRest, Only
  <2>4. AtRest(e) => InHand(e, step)
    BY <1>0, <1>5, <2>2, <2>3, Distinct DEF File!Retry, InHand, File!Step, Only
  <2> QED BY <1>5, <2>1, <2>4, BeginShape DEF File!Retry
<1> QED BY <1>1, <1>2, <1>3, <1>4, <1>5

LEMMA ShapeRename ==
  ASSUME NEW e \in FileEvents, FileInv, SafeEvent(e), Shape(e), ~Disputed(e),
         NEW p \in Processes, call[p].event = e, File!ReceiveRename(p)
  PROVE  Shape(e)' /\ FileHop(e)
<1>0. {"inbound", "processing", "dead_letter"} = File!Dirs BY DEF File!Dirs
<1>1. call[p].at = "rename" /\ InHand(e, call[p]) BY DEF File!ReceiveRename, Shape
<1>2. Only(e, "inbound") /\ e \notin completed BY <1>1 DEF InHand
<1>3. /\ file' = [file EXCEPT !.processing[e] = file.inbound[e], !.inbound[e] = Absent]
      /\ call' = [File!Follow(e, "inbound", "processing") EXCEPT ![p] = File!Idle]
      /\ UNCHANGED <<accepted, completed, contested, interrupted>>
  BY <1>2, Distinct DEF File!ReceiveRename, Only
<1>4. /\ call'[p].event # e
      /\ \A q \in Processes : call'[q].event \in {call[q].event, NoEvent}
  BY <1>0, <1>3, Followed, IdleEvent
<1>5. /\ file'.processing[e] = file.inbound[e] /\ file.inbound[e] \in File!Whole
      /\ file'.inbound[e] = Absent /\ file'.dead_letter[e] = Absent
      /\ file.processing[e] = Absent /\ file.dead_letter[e] = Absent
  BY <1>0, <1>2, <1>3 DEF Only, FileInv, File!FileTypeOK
<1>6. AtRest(e)' BY <1>0, <1>2, <1>3, <1>5 DEF AtRest, Only
<1>7. Shape(e)' BY <1>3, <1>4, <1>6, OwnShape
<1>8. FilePlace(e) = "waiting" /\ FileRefused(e) = file.inbound[e]
  BY <1>2, <1>5, Distinct DEF FilePlace, FileRefused, Disputed
<1>9. FilePlace(e)' = "processing" /\ FileRefused(e)' = file.inbound[e]
  BY <1>2, <1>3, <1>5, Distinct DEF FilePlace, FileRefused, Disputed
<1> QED BY <1>7, <1>8, <1>9 DEF FileHop, Hop

LEMMA ShapeOpen ==
  ASSUME NEW e \in FileEvents, FileInv, SafeEvent(e), Shape(e), ~Disputed(e),
         NEW p \in Processes, call[p].event = e, File!Open(p)
  PROVE  Shape(e)' /\ FileHop(e)
<1> DEFINE c == call[p]
           next == [c EXCEPT !.at = "write"]
<1>0. {"inbound", "processing", "dead_letter"} = File!Dirs /\ c \in File!Calls
  BY DEF File!Dirs, FileInv, File!FileTypeOK
<1>1. /\ c.at = "open" /\ InHand(e, c) /\ c.to \in File!Dirs
      /\ file' = [file EXCEPT ![c.to][e] = Torn]
      /\ call' = [call EXCEPT ![p] = next]
      /\ UNCHANGED <<accepted, completed, contested, interrupted>>
  BY <1>0 DEF File!Open, Shape, FileInv, CallOK, File!Calls
<1>2. call'[p] = next /\ \A q \in Processes : call'[q].event = call[q].event
  BY <1>0, <1>1 DEF FileInv, File!FileTypeOK, File!Calls
<1>3. /\ next.at = "write" /\ next.from = c.from /\ next.count = c.count /\ next.to = c.to
      /\ next.event = e /\ Goal(next) = Goal(c)
  BY <1>0 DEF File!Calls, Goal
<1>4. file'[c.to][e] = Torn /\ \A d \in File!Dirs \ {c.to} : file'[d][e] = file[d][e]
  BY <1>1 DEF FileInv, File!FileTypeOK
<1>5. CASE c.from = Absent
  <2>1. c.to = "inbound" /\ c.count = 0 /\ e \notin accepted /\ e \notin completed
        /\ file.inbound[e] = Absent /\ file.processing[e] = Absent /\ file.dead_letter[e] = Absent
    BY <1>0, <1>1, <1>5, Distinct DEF InHand
  <2>2. file'.inbound[e] = Torn /\ file'.processing[e] = Absent /\ file'.dead_letter[e] = Absent
    BY <1>0, <1>4, <2>1
  <2>3. InHand(e, call[p])' BY <1>1, <1>2, <1>3, <1>5, <2>1, <2>2 DEF InHand
  <2>4. FilePlace(e)' = FilePlace(e) /\ FileRefused(e)' = FileRefused(e)
    BY <1>1, <2>1, <2>2, Distinct DEF FilePlace, FileRefused, Disputed
  <2> QED BY <1>1, <1>2, <1>3, <2>3, <2>4, OwnShape DEF FileHop, Hop
<1>6. CASE c.from # Absent
  <2>1. /\ c.from \in {"processing", "dead_letter"} /\ c.to = Goal(c) /\ e \notin completed
        /\ file[c.from][e] \in File!Whole
        /\ c.count = IF c.from = "processing" THEN file.processing[e] + 1 ELSE 0
        /\ file[Goal(c)][e] = Absent
        /\ \A d \in File!Dirs \ {c.from, Goal(c)} : file[d][e] = Absent
    BY <1>0, <1>1, <1>6 DEF InHand
  <2>2. Goal(c) \in {"inbound", "dead_letter"} /\ Goal(c) # c.from
    BY <2>1, Distinct DEF Goal, File!Destination
  <2>3. /\ file'[c.from][e] = file[c.from][e] /\ file'[Goal(c)][e] = Torn
        /\ \A d \in File!Dirs \ {c.from, Goal(c)} : file'[d][e] = Absent
    BY <1>0, <1>4, <2>1, <2>2
  <2>4. c.from = "processing" => file'.processing[e] = file.processing[e] BY <2>3
  <2>5. InHand(e, call[p])'
    <3>1. /\ call'[p].at = "write" /\ call'[p].from = c.from /\ call'[p].to = Goal(c)
          /\ call'[p].count = c.count /\ Goal(call[p])' = Goal(c)
      BY <1>2, <1>3, <2>1 DEF Goal
    <3> QED BY <1>1, <2>1, <2>3, <2>4, <3>1 DEF InHand
  <2>6. FilePlace(e)' = FilePlace(e) /\ FileRefused(e)' = FileRefused(e)
    BY <1>0, <1>1, <2>1, <2>2, <2>3, Distinct DEF FilePlace, FileRefused, Disputed
  <2> QED BY <1>1, <1>2, <1>3, <2>5, <2>6, OwnShape DEF FileHop, Hop
<1> QED BY <1>5, <1>6

LEMMA ShapeWrite ==
  ASSUME NEW e \in FileEvents, FileInv, SafeEvent(e), Shape(e), ~Disputed(e),
         NEW p \in Processes, call[p].event = e, File!Write(p)
  PROVE  Shape(e)' /\ FileHop(e)
<1> DEFINE c == call[p]
           next == IF c.from = Absent THEN File!Idle
                   ELSE [c EXCEPT !.at = "unlink", !.to = Absent]
<1>0. {"inbound", "processing", "dead_letter"} = File!Dirs /\ c \in File!Calls
  BY DEF File!Dirs, FileInv, File!FileTypeOK
<1>1. c.at = "write" /\ InHand(e, c) BY DEF File!Write, Shape
<1>2. /\ c.to \in File!Dirs /\ c.to # Absent /\ c.count \in File!Whole
      /\ c.from # Absent => c.from \in {"processing", "dead_letter"} /\ c.to = Goal(c)
      /\ c.from = Absent => c.to = "inbound"
  BY <1>0, <1>1, Distinct DEF InHand, File!Calls, Goal, File!Destination
<1>3. /\ file' = [file EXCEPT ![c.to][e] = c.count]
      /\ call' = [call EXCEPT ![p] = next]
      /\ accepted' = accepted \cup {e}
      /\ UNCHANGED <<completed, contested, interrupted>>
  BY <1>2 DEF File!Write
<1>4. call'[p] = next /\ next.event \in {e, NoEvent}
      /\ \A q \in Processes : call'[q].event \in {call[q].event, NoEvent}
  BY <1>0, <1>3, IdleEvent DEF FileInv, File!FileTypeOK, File!Calls
<1>5. file'[c.to][e] = c.count /\ \A d \in File!Dirs \ {c.to} : file'[d][e] = file[d][e]
  BY <1>2, <1>3 DEF FileInv, File!FileTypeOK
<1>6. CASE c.from = Absent
  <2>1. c.to = "inbound" /\ c.count = 0 /\ e \notin completed
        /\ file.inbound[e] = Torn /\ file.processing[e] = Absent /\ file.dead_letter[e] = Absent
    BY <1>0, <1>1, <1>6, Distinct DEF InHand
  <2>2. file'.inbound[e] = 0 /\ file'.processing[e] = Absent /\ file'.dead_letter[e] = Absent
    BY <1>0, <1>5, <2>1
  <2>3. 0 \in File!Whole BY Distinct
  <2>4. AtRest(e)' BY <1>0, <1>3, <2>1, <2>2, <2>3 DEF AtRest, Only
  <2>5. call'[p].event # e BY <1>4, <1>6, IdleEvent
  <2>6. FilePlace(e) = "unsent" /\ FileRefused(e) = 0
    BY <2>1, Distinct DEF FilePlace, FileRefused, Disputed
  <2>7. FilePlace(e)' = "waiting" /\ FileRefused(e)' = 0
    BY <1>3, <2>1, <2>2, <2>3, Distinct DEF FilePlace, FileRefused, Disputed
  <2> QED BY <1>3, <1>4, <2>4, <2>5, <2>6, <2>7, OwnShape DEF FileHop, Hop
<1>7. CASE c.from # Absent
  <2>1. /\ c.from \in {"processing", "dead_letter"} /\ c.to = Goal(c) /\ e \notin completed
        /\ file[c.from][e] \in File!Whole
        /\ c.count = IF c.from = "processing" THEN file.processing[e] + 1 ELSE 0
        /\ file[Goal(c)][e] = Torn
        /\ \A d \in File!Dirs \ {c.from, Goal(c)} : file[d][e] = Absent
    BY <1>0, <1>1, <1>2, <1>7 DEF InHand
  <2>2. Goal(c) \in {"inbound", "dead_letter"} /\ Goal(c) # c.from
    BY <2>1, Distinct DEF Goal, File!Destination
  <2>3. /\ file'[c.from][e] = file[c.from][e] /\ file'[Goal(c)][e] = c.count
        /\ \A d \in File!Dirs \ {c.from, Goal(c)} : file'[d][e] = Absent
    BY <1>0, <1>5, <2>1, <2>2
  <2>4. c.from = "processing" => file'.processing[e] = file.processing[e] BY <2>3
  <2>5. InHand(e, call[p])'
    <3>1. /\ call'[p].at = "unlink" /\ call'[p].from = c.from
          /\ call'[p].count = c.count /\ Goal(call[p])' = Goal(c)
      BY <1>0, <1>4, <1>7 DEF Goal, File!Calls
    <3> QED BY <1>3, <2>1, <2>3, <2>4, <3>1 DEF InHand
  <2>6. FilePlace(e)' = FilePlace(e) /\ FileRefused(e)' = FileRefused(e)
    <3>1. ~Disputed(e)' /\ e \notin completed' BY <1>3, <2>1 DEF Disputed
    <3>2. CASE c.from = "processing"
      <4>1. file'.processing[e] = file.processing[e] /\ file.processing[e] \in File!Whole
        BY <2>1, <2>4, <3>2
      <4>2. FilePlace(e) = "processing" /\ FilePlace(e)' = "processing"
        BY <2>1, <3>1, <4>1 DEF FilePlace, Disputed
      <4> QED BY <4>1, <4>2 DEF FileRefused
    <3>3. CASE c.from = "dead_letter"
      <4>1. /\ file'.processing[e] = Absent /\ file.processing[e] = Absent
            /\ file'.dead_letter[e] \in File!Whole /\ file.dead_letter[e] \in File!Whole
        BY <1>0, <2>1, <2>2, <2>3, <3>3
      <4>2. FilePlace(e) = "dead" /\ FilePlace(e)' = "dead"
        BY <2>1, <3>1, <4>1, Distinct DEF FilePlace, Disputed
      <4> QED BY <4>2 DEF FileRefused
    <3> QED BY <2>1, <3>2, <3>3
  <2>7. call'[p].event = e BY <1>0, <1>4, <1>7 DEF File!Calls
  <2> QED BY <1>3, <1>4, <2>5, <2>6, <2>7, OwnShape DEF FileHop, Hop
<1> QED BY <1>6, <1>7

LEMMA ShapeUnlink ==
  ASSUME NEW e \in FileEvents, FileInv, SafeEvent(e), Shape(e), ~Disputed(e),
         NEW p \in Processes, call[p].event = e, File!Unlink(p)
  PROVE  Shape(e)' /\ FileHop(e)
<1> DEFINE c == call[p]
<1>0. /\ {"inbound", "processing", "dead_letter"} = File!Dirs /\ c \in File!Calls
      /\ c.from \in File!Dirs
  BY DEF File!Dirs, FileInv, File!FileTypeOK, File!Unlink, CallOK, File!Calls
<1>1. c.at \in {"unlink", "remove"} /\ InHand(e, c) BY DEF File!Unlink, Shape
<1>2. /\ file' = [file EXCEPT ![c.from][e] = Absent]
      /\ call' = [File!Follow(e, c.from, Absent) EXCEPT ![p] = File!Idle]
      /\ completed' = IF c.at = "remove" /\ file[c.from][e] # Absent
                      THEN completed \cup {e} ELSE completed
      /\ UNCHANGED <<accepted, contested, interrupted>>
  BY DEF File!Unlink
<1>3. call'[p].event # e /\ \A q \in Processes : call'[q].event \in {call[q].event, NoEvent}
  <2>1. Absent # "processing" BY Distinct DEF File!Dirs
  <2> QED BY <1>0, <1>2, <2>1, Followed, IdleEvent
<1>4. file'[c.from][e] = Absent /\ \A d \in File!Dirs \ {c.from} : file'[d][e] = file[d][e]
  BY <1>0, <1>2 DEF FileInv, File!FileTypeOK
<1>5. CASE c.at = "remove"
  <2>1. c.from = "processing" /\ Only(e, "processing") /\ e \notin completed
    BY <1>1, <1>5 DEF InHand
  <2>2. None(e)' BY <1>4, <2>1 DEF None, Only
  <2>3. e \in completed' BY <1>2, <1>5, <2>1, Distinct DEF Only
  <2>4. AtRest(e)' BY <2>2, <2>3 DEF AtRest
  <2>5. FilePlace(e) = "processing"
    <3>1. file.processing[e] \in File!Whole BY <2>1 DEF Only
    <3> QED BY <2>1, <3>1 DEF FilePlace, Disputed
  <2>6. FilePlace(e)' = "done" /\ FileRefused(e)' = 0
    <3>1. FilePlace(e)' = "done" BY <1>2, <2>3 DEF FilePlace, Disputed
    <3> QED BY <3>1 DEF FileRefused
  <2> QED BY <1>2, <1>3, <2>4, <2>5, <2>6, OwnShape DEF FileHop, Hop
<1>6. CASE c.at = "unlink"
  <2> DEFINE g == Goal(c)
  <2>1. /\ c.from \in {"processing", "dead_letter"} /\ e \notin completed
        /\ file[c.from][e] \in File!Whole
        /\ c.count = IF c.from = "processing" THEN file.processing[e] + 1 ELSE 0
        /\ file[g][e] = c.count
        /\ \A d \in File!Dirs \ {c.from, g} : file[d][e] = Absent
    BY <1>0, <1>1, <1>6 DEF InHand
  <2>2. g \in {"inbound", "dead_letter"} /\ g # c.from /\ g \in File!Dirs
    BY <1>0, <2>1, Distinct DEF Goal, File!Destination
  <2>3. c.count \in File!Whole /\ e \in accepted BY <1>0, <1>6 DEF File!Calls, FileInv, CallOK
  <2>5. e \notin completed' BY <1>2, <1>6, <2>1
  <2>6. AtRest(e)'
    <3>1. \E d \in File!Dirs : Only(e, d)' BY <1>4, <2>1, <2>2, <2>3 DEF Only
    <3> QED BY <2>5, <3>1 DEF AtRest
  <2>7. Shape(e)' BY <1>2, <1>3, <2>6, OwnShape
  <2>8. /\ file'[g][e] = c.count /\ \A d \in File!Dirs \ {g} : file'[d][e] = Absent
    BY <1>4, <2>1, <2>2
  <2>9. /\ g = "inbound" => FilePlace(e)' = "waiting" /\ FileRefused(e)' = c.count
        /\ g = "dead_letter" => FilePlace(e)' = "dead" /\ FileRefused(e)' = 0
    BY <1>0, <1>2, <2>2, <2>3, <2>5, <2>8, Distinct DEF FilePlace, FileRefused, Disputed
  <2>10. CASE c.from = "dead_letter"
    <3>1. g = "inbound" /\ c.count = 0 BY <2>1, <2>10 DEF Goal
    <3>2. file.processing[e] = Absent /\ file.dead_letter[e] \in File!Whole
      BY <1>0, <2>1, <2>10, <3>1
    <3>3. FilePlace(e) = "dead" /\ FileRefused(e) = 0
      <4>1. FilePlace(e) = "dead" BY <2>1, <3>2, Distinct DEF FilePlace, Disputed
      <4> QED BY <4>1 DEF FileRefused
    <3> QED BY <2>7, <2>9, <3>1, <3>3 DEF FileHop, Hop
  <2>11. CASE c.from = "processing"
    <3>1. FilePlace(e) = "processing" /\ FileRefused(e) = file.processing[e]
      <4>1. FilePlace(e) = "processing" BY <2>1, <2>11 DEF FilePlace, Disputed
      <4> QED BY <4>1 DEF FileRefused
    <3>2. /\ g = File!Destination(c.count) /\ c.count = file.processing[e] + 1
          /\ file.processing[e] \in Nat
      BY <2>1, <2>11, Distinct DEF Goal
    <3>3. g = "inbound" => file.processing[e] < FileBudget
      BY <3>2, TransportsAssumption DEF TransportsAssumption, File!Destination, FileBudget
    <3>4. g = "dead_letter" => file.processing[e] >= FileBudget
      BY <3>2, TransportsAssumption DEF TransportsAssumption, File!Destination, FileBudget
    <3> QED BY <2>2, <2>7, <2>9, <3>1, <3>2, <3>3, <3>4 DEF FileHop, Hop
  <2> QED BY <2>1, <2>10, <2>11
<1> QED BY <1>1, <1>5, <1>6

\* What a step does to the event it concerns.
LEMMA ShapeStep ==
  ASSUME NEW e \in FileEvents, FileInv, SafeEvent(e), Shape(e), NEW p \in Processes,
         AccessTo(p, e)
  PROVE  Shape(e)' /\ FileHop(e)
<1>1. CASE Disputed(e)'
  <2>1. FilePlace(e)' = "disputed" /\ FileRefused(e)' = 0
    <3>1. FilePlace(e)' = "disputed" BY <1>1 DEF FilePlace, Disputed
    <3> QED BY <3>1 DEF FileRefused
  <2> QED BY <1>1, <2>1 DEF Shape, FileHop, Hop
<1>2. CASE ~Disputed(e)'
  <2>1. CASE \/ File!Send(p, e) \/ File!ReceiveRead(p, e) \/ File!Acknowledge(p, e)
             \/ File!Reject(p, e) \/ File!Retry(p, e)
    BY <1>2, <2>1, ShapeBegin
  <2>2. CASE call[p].event = e /\ File!Crash(p)
    BY <1>2, <2>2, IdleEvent DEF File!Crash, Disputed
  <2>3. CASE /\ call[p].event = e
             /\ \/ File!ReceiveRename(p) \/ File!Open(p) \/ File!Write(p) \/ File!Unlink(p)
    <3>1. ~Disputed(e)
      BY <1>2, <2>3 DEF Disputed, File!ReceiveRename, File!Open, File!Write, File!Unlink
    <3> QED BY <2>3, <3>1, ShapeRename, ShapeOpen, ShapeWrite, ShapeUnlink
  <2> QED BY <2>1, <2>2, <2>3, IdleEvent DEF AccessTo
<1> QED BY <1>1, <1>2

-------------------------------------------------------------------------------
(* Both transports deliver.                                                *)

PlaceOf(e) == IF kind = "memory" THEN MemoryPlace(e) ELSE FilePlace(e)
RefusedOf(e) == IF kind = "memory" THEN MemoryRefused(e) ELSE FileRefused(e)
Budget == IF kind = "memory" \/ MaxRetries = 0 THEN MaxRetries ELSE MaxRetries - 1

Stays(e) == PlaceOf(e)' = PlaceOf(e) /\ RefusedOf(e)' = RefusedOf(e)

\* What happens to one event is a step of EventDelivery.
LEMMA HopDelivers ==
  ASSUME NEW x \in Events, UNCHANGED kind, \A e \in Events \ {x} : Stays(e),
         Hop(Budget, PlaceOf(x), PlaceOf(x)', RefusedOf(x), RefusedOf(x)')
  PROVE  [Delivery!Next]_Delivery!delivery
<1> USE DEF PlaceOf, RefusedOf, Budget, Stays
<1>1. CASE Stays(x) BY <1>1 DEF Delivery!delivery
<1>2. CASE PlaceOf(x) = "unsent" /\ PlaceOf(x)' = "waiting" /\ RefusedOf(x)' = RefusedOf(x)
  <2>1. Delivery!Send(x) BY <1>2 DEF Delivery!Send, Delivery!Move
  <2> QED BY <2>1 DEF Delivery!Next
<1>3. CASE PlaceOf(x) = "dead" /\ PlaceOf(x)' = "waiting" /\ RefusedOf(x)' = RefusedOf(x)
  <2>1. Delivery!Revive(x) BY <1>3 DEF Delivery!Revive, Delivery!Move
  <2> QED BY <2>1 DEF Delivery!Next
<1>4. CASE PlaceOf(x) = "waiting" /\ PlaceOf(x)' = "processing" /\ RefusedOf(x)' = RefusedOf(x)
  <2>1. Delivery!HandOut({x}, {}) BY <1>4 DEF Delivery!HandOut
  <2> QED BY <2>1 DEF Delivery!Next
<1>5. CASE PlaceOf(x) = "processing" /\ PlaceOf(x)' = "done" /\ RefusedOf(x)' = 0
  <2>1. Delivery!Settle(x) BY <1>5 DEF Delivery!Settle, Delivery!Move
  <2> QED BY <2>1 DEF Delivery!Next
<1>6. CASE /\ PlaceOf(x) = "processing" /\ PlaceOf(x)' = "waiting"
           /\ RefusedOf(x) < Budget /\ RefusedOf(x)' = RefusedOf(x) + 1
  <2>1. Delivery!Return(x) BY <1>6 DEF Delivery!Return, Delivery!Move
  <2> QED BY <2>1 DEF Delivery!Next
<1>7. CASE /\ PlaceOf(x) = "processing" /\ PlaceOf(x)' = "dead"
           /\ RefusedOf(x) >= Budget /\ RefusedOf(x)' = 0
  <2>1. Delivery!Bury(x) BY <1>7 DEF Delivery!Bury, Delivery!Move
  <2> QED BY <2>1 DEF Delivery!Next
<1>8. CASE PlaceOf(x)' = "disputed" /\ RefusedOf(x)' = 0
  <2>1. Delivery!GiveUp(x) BY <1>8 DEF Delivery!GiveUp
  <2> QED BY <2>1 DEF Delivery!Next
<1> QED BY <1>1, <1>2, <1>3, <1>4, <1>5, <1>6, <1>7, <1>8 DEF Hop

\* A receiver takes all that waits, and may settle some of it.
LEMMA HandOutDelivers ==
  ASSUME UNCHANGED kind, NEW S \in SUBSET Events, NEW settled \in SUBSET S,
         \A e \in S : PlaceOf(e) = "waiting",
         \A e \in settled : PlaceOf(e)' = "done" /\ RefusedOf(e)' = 0,
         \A e \in S \ settled : PlaceOf(e)' = "processing" /\ RefusedOf(e)' = RefusedOf(e),
         \A e \in Events \ S : Stays(e)
  PROVE  Delivery!Next
<1>1. settled \in SUBSET Events OBVIOUS
<1>2. Delivery!HandOut(S, settled)
  BY DEF Delivery!HandOut, PlaceOf, RefusedOf, Budget, Stays
<1> QED BY <1>1, <1>2 DEF Delivery!Next

\* Where an event of the transport in memory is follows from the sets.
MemoryLook(e) ==
  /\ e \in inbound => PlaceOf(e) = "waiting" /\ RefusedOf(e) = retries[e]
  /\ e \in processing => PlaceOf(e) = "processing" /\ RefusedOf(e) = retries[e]
  /\ e \in deadLetter => PlaceOf(e) = "dead" /\ RefusedOf(e) = 0
  /\ e \notin inbound \cup processing \cup deadLetter =>
       /\ PlaceOf(e) = IF status[e] = "completed" THEN "done" ELSE "unsent"
       /\ RefusedOf(e) = 0

LEMMA MemoryLooks == MemoryInv /\ kind = "memory" => \A e \in Events : MemoryLook(e)
BY DEF MemoryInv, MemoryLook, PlaceOf, RefusedOf, MemoryPlace, MemoryRefused

LEMMA MemoryDelivers ==
  ASSUME MemoryInv, MemoryInv', UseMemory
  PROVE  [Delivery!Next]_Delivery!delivery
<1>1. /\ \A e \in Events : MemoryLook(e) /\ MemoryLook(e)'
      /\ UNCHANGED kind /\ Budget = MaxRetries
  <2>1. (MemoryInv /\ kind = "memory" => \A e \in Events : MemoryLook(e))' BY MemoryLooks, PTL
  <2> QED BY <2>1, MemoryLooks DEF UseMemory, Budget
<1>2. ASSUME NEW e \in Events, Memory!Send(e) PROVE [Delivery!Next]_Delivery!delivery
  <2>1. /\ e \in inbound' /\ e \notin inbound \cup processing \cup deadLetter
        /\ status[e] # "completed" /\ retries'[e] = 0
    BY <1>2 DEF Memory!Send, MemoryInv
  <2>2. Hop(Budget, PlaceOf(e), PlaceOf(e)', RefusedOf(e), RefusedOf(e)')
    BY <1>1, <2>1 DEF MemoryLook, Hop
  <2>3. \A x \in Events \ {e} : Stays(x)
    BY <1>1, <1>2 DEF Memory!Send, MemoryLook, Stays, MemoryInv, Memory!MemoryTypeOK
  <2> QED BY <1>1, <2>2, <2>3, HopDelivers
<1>3. ASSUME NEW e \in Events, Memory!Acknowledge(e) PROVE [Delivery!Next]_Delivery!delivery
  <2>1. /\ e \in processing /\ e \notin (inbound \cup processing \cup deadLetter)'
        /\ status'[e] = "completed"
    BY <1>3 DEF Memory!Acknowledge, Memory!Settle, MemoryInv, Memory!MemoryTypeOK
  <2>2. Hop(Budget, PlaceOf(e), PlaceOf(e)', RefusedOf(e), RefusedOf(e)')
    BY <1>1, <2>1 DEF MemoryLook, Hop
  <2>3. \A x \in Events \ {e} : Stays(x)
    BY <1>1, <1>3 DEF Memory!Acknowledge, Memory!Settle, MemoryLook, Stays, MemoryInv,
                      Memory!MemoryTypeOK
  <2> QED BY <1>1, <2>2, <2>3, HopDelivers
<1>4. ASSUME NEW e \in Events, Memory!Requeue(e) PROVE [Delivery!Next]_Delivery!delivery
  <2>1. /\ e \in processing /\ e \in inbound' /\ retries[e] < Budget
        /\ retries'[e] = retries[e] + 1
    BY <1>1, <1>4 DEF Memory!Requeue, Memory!Settle, MemoryInv, Memory!MemoryTypeOK
  <2>2. Hop(Budget, PlaceOf(e), PlaceOf(e)', RefusedOf(e), RefusedOf(e)')
    BY <1>1, <2>1 DEF MemoryLook, Hop
  <2>3. \A x \in Events \ {e} : Stays(x)
    BY <1>1, <1>4 DEF Memory!Requeue, Memory!Settle, MemoryLook, Stays, MemoryInv,
                      Memory!MemoryTypeOK
  <2> QED BY <1>1, <2>2, <2>3, HopDelivers
<1>5. ASSUME NEW e \in Events, Memory!Bury(e) PROVE [Delivery!Next]_Delivery!delivery
  <2>1. e \in processing /\ e \in deadLetter' /\ retries[e] >= Budget
    BY <1>1, <1>5 DEF Memory!Bury, Memory!Settle, MemoryInv, Memory!MemoryTypeOK
  <2>2. Hop(Budget, PlaceOf(e), PlaceOf(e)', RefusedOf(e), RefusedOf(e)')
    BY <1>1, <2>1 DEF MemoryLook, Hop
  <2>3. \A x \in Events \ {e} : Stays(x)
    BY <1>1, <1>5 DEF Memory!Bury, Memory!Settle, MemoryLook, Stays, MemoryInv,
                      Memory!MemoryTypeOK
  <2> QED BY <1>1, <2>2, <2>3, HopDelivers
<1>6. ASSUME NEW e \in Events, Memory!Retry(e) PROVE [Delivery!Next]_Delivery!delivery
  <2>1. e \in deadLetter /\ e \in inbound' /\ retries'[e] = 0
    BY <1>6 DEF Memory!Retry, MemoryInv, Memory!MemoryTypeOK
  <2>2. Hop(Budget, PlaceOf(e), PlaceOf(e)', RefusedOf(e), RefusedOf(e)')
    BY <1>1, <2>1 DEF MemoryLook, Hop
  <2>3. \A x \in Events \ {e} : Stays(x)
    BY <1>1, <1>6 DEF Memory!Retry, MemoryLook, Stays, MemoryInv, Memory!MemoryTypeOK
  <2> QED BY <1>1, <2>2, <2>3, HopDelivers
<1>7. ASSUME NEW k \in keys, Memory!Expire(k) PROVE [Delivery!Next]_Delivery!delivery
  <2>1. \A x \in Events : Stays(x) BY <1>1, <1>7 DEF Memory!Expire, MemoryLook, Stays
  <2> QED BY <1>1, <2>1 DEF Delivery!delivery, Stays, PlaceOf, RefusedOf, Budget
<1>8. ASSUME NEW settled \in SUBSET inbound,
             inbound' = {}, processing' = processing \cup (inbound \ settled),
             UNCHANGED <<deadLetter, retries>>,
             \A x \in Events : status'[x] = IF x \in settled THEN "completed" ELSE status[x]
      PROVE  [Delivery!Next]_Delivery!delivery
  <2>1. inbound \in SUBSET Events BY DEF MemoryInv, Memory!MemoryTypeOK
  <2>2. \A x \in inbound : PlaceOf(x) = "waiting" BY <1>1, <2>1 DEF MemoryLook
  <2>3. \A x \in settled : PlaceOf(x)' = "done" /\ RefusedOf(x)' = 0
    BY <1>1, <1>8, <2>1 DEF MemoryLook, MemoryInv
  <2>4. \A x \in inbound \ settled : PlaceOf(x)' = "processing" /\ RefusedOf(x)' = RefusedOf(x)
    BY <1>1, <1>8, <2>1 DEF MemoryLook
  <2>5. \A x \in Events \ inbound : Stays(x) BY <1>1, <1>8 DEF MemoryLook, Stays
  <2> QED BY <1>1, <2>1, <2>2, <2>3, <2>4, <2>5, HandOutDelivers
<1>9. ASSUME NEW S, Memory!Receive(S) PROVE [Delivery!Next]_Delivery!delivery
  <2>1. {} \in SUBSET inbound /\ processing' = processing \cup (inbound \ {})
    BY <1>9 DEF Memory!Receive, Memory!Drain
  <2> QED BY <1>8, <1>9, <2>1 DEF Memory!Receive, Memory!Drain
<1>10. ASSUME NEW e \in Events, Memory!Wait(e) PROVE [Delivery!Next]_Delivery!delivery
  <2> DEFINE settled == inbound \cap {e}
  <2>1. settled \in SUBSET inbound /\ processing' = processing \cup (inbound \ settled)
    BY <1>10 DEF Memory!Wait, MemoryInv
  <2>2. \A x \in Events : status'[x] = IF x \in settled THEN "completed" ELSE status[x]
    BY <1>10 DEF Memory!Wait, MemoryInv, Memory!MemoryTypeOK
  <2> QED BY <1>8, <1>10, <2>1, <2>2 DEF Memory!Wait
<1>11. ASSUME Memory!ProcessInbound PROVE [Delivery!Next]_Delivery!delivery
  <2>1. inbound \in SUBSET inbound /\ processing' = processing \cup (inbound \ inbound)
    BY <1>11 DEF Memory!ProcessInbound
  <2> QED BY <1>8, <1>11, <2>1 DEF Memory!ProcessInbound
<1> QED
  BY <1>2, <1>3, <1>4, <1>5, <1>6, <1>7, <1>9, <1>10, <1>11
     DEF UseMemory, Memory!MemoryNext, Memory!Reject

LEMMA FileDelivers ==
  ASSUME FileInv, \A e \in FileEvents : SafeEvent(e) /\ Shape(e), UseFiles
  PROVE  [Delivery!Next]_Delivery!delivery /\ \A e \in FileEvents : Shape(e)'
<1>1. kind = "file" /\ kind' = "file" /\ Budget = FileBudget
  BY DEF UseFiles, Budget, FileBudget
<1>2. PICK p \in Processes, x \in FileEvents \cup {NoEvent} : AccessTo(p, x)
  BY SomeAccess DEF UseFiles
<1>3. ASSUME NEW e \in FileEvents \ {x}
      PROVE  Shape(e)' /\ FilePlace(e)' = FilePlace(e) /\ FileRefused(e)' = FileRefused(e)
  <2>1. Untouched(e) BY <1>2, Local
  <2> QED BY <2>1, ShapeElsewhere
<1>4. \A e \in Events \ FileEvents : FilePlace(e) = "unsent" /\ FilePlace(e)' = "unsent"
  BY DEF FilePlace
<1>5. \A e \in Events \ FileEvents : FileRefused(e) = 0 /\ FileRefused(e)' = 0
  BY <1>4 DEF FileRefused
<1>6. \A e \in Events \ {x} : Stays(e)
  BY <1>1, <1>3, <1>4, <1>5 DEF Stays, PlaceOf, RefusedOf
<1>7. CASE x \in FileEvents
  <2>1. Shape(x)' /\ FileHop(x) BY <1>2, <1>7, ShapeStep
  <2>2. x \in Events /\ Hop(Budget, PlaceOf(x), PlaceOf(x)', RefusedOf(x), RefusedOf(x)')
    BY <1>1, <1>7, <2>1, TransportsAssumption
       DEF TransportsAssumption, FileHop, PlaceOf, RefusedOf
  <2> QED BY <1>1, <1>3, <1>6, <2>1, <2>2, HopDelivers
<1>8. CASE x \notin FileEvents
  <2>1. \A e \in Events : Stays(e)
    BY <1>2, <1>6, <1>8, TransportsAssumption DEF TransportsAssumption
  <2> QED BY <1>1, <1>3, <1>8, <2>1 DEF Delivery!delivery, Stays, PlaceOf, RefusedOf, Budget
<1> QED BY <1>7, <1>8

\* Both transports implement EventDelivery: an event is handed out only between
\* its send and its acknowledgement, and dies only when its budget is spent.
THEOREM TransportsDeliver == Spec => Delivers
<1> DEFINE Inv == /\ TypeOK /\ MemoryInv /\ FileInv
                  /\ \A e \in FileEvents : SafeEvent(e) /\ Shape(e)
<1>1. Init => Inv /\ Delivery!Init
  <2> SUFFICES ASSUME Init PROVE Inv /\ Delivery!Init OBVIOUS
  <2>1. TypeOK /\ MemoryInv /\ FileInv
    BY MemoryInit, FileInit DEF Init, TypeOK, MemoryInv, FileInv
  <2>2. ASSUME NEW e \in FileEvents PROVE SafeEvent(e) /\ Shape(e)
    <3>1. \A p \in Processes : call[p].event # e BY IdleEvent DEF Init, File!FileInit
    <3>2. None(e) /\ e \notin accepted BY DEF Init, File!FileInit, None
    <3> QED BY <3>1, <3>2 DEF SafeEvent, Shape, AtRest
  <2>3. \A e \in Events : FilePlace(e) = "unsent" /\ FileRefused(e) = 0
    <3>1. \A e \in FileEvents : file.inbound[e] \notin File!Whole
             /\ file.processing[e] \notin File!Whole /\ file.dead_letter[e] \notin File!Whole
      BY Distinct DEF Init, File!FileInit, File!Dirs
    <3>2. \A e \in Events : FilePlace(e) = "unsent"
      BY <3>1 DEF FilePlace, Init, File!FileInit
    <3> QED BY <3>2 DEF FileRefused
  <2>4. \A e \in Events : MemoryPlace(e) = "unsent" /\ MemoryRefused(e) = 0
    BY DEF Init, Memory!MemoryInit, MemoryPlace, MemoryRefused
  <2>5. Budget \in Nat BY TransportsAssumption DEF TransportsAssumption, Budget
  <2>6. Delivery!Init BY <2>3, <2>4, <2>5 DEF Delivery!Init, Budget
  <2> QED BY <2>1, <2>2, <2>6
<1>2. Inv /\ [Next]_vars => Inv' /\ [Delivery!Next]_Delivery!delivery
  <2> SUFFICES ASSUME Inv, [Next]_vars PROVE Inv' /\ [Delivery!Next]_Delivery!delivery OBVIOUS
  <2>1. (TypeOK /\ MemoryInv /\ FileInv)' BY TypeStep
  <2>2. CASE UseMemory
    <3>1. ASSUME NEW e \in FileEvents PROVE (SafeEvent(e) /\ Shape(e))'
      BY <2>2 DEF UseMemory, files, SafeEvent, CallSafe, SomeCopy, Shape, Disputed, AtRest,
                  InHand, None, Only, Goal
    <3> QED BY <2>1, <2>2, <3>1, MemoryDelivers
  <2>3. CASE UseFiles
    <3>1. \A e \in FileEvents : SafeEvent(e)' BY <2>3, SafeStep DEF UseFiles
    <3> QED BY <2>1, <2>3, <3>1, FileDelivers
  <2>4. CASE UNCHANGED vars
    <3>1. ASSUME NEW e \in FileEvents PROVE (SafeEvent(e) /\ Shape(e))'
      BY <2>4 DEF vars, files, SafeEvent, CallSafe, SomeCopy, Shape, Disputed, AtRest,
                  InHand, None, Only, Goal
    <3>2. UNCHANGED Delivery!delivery
      BY <2>4 DEF vars, files, memory, Delivery!delivery, MemoryPlace, FilePlace,
                  MemoryRefused, FileRefused
    <3> QED BY <2>1, <3>1, <3>2
  <2> QED BY <2>2, <2>3, <2>4 DEF Next
<1> QED BY <1>1, <1>2, PTL DEF Spec, Delivers, Delivery!Spec
===============================================================================
