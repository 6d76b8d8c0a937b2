-------------------------- MODULE MemoryTransport --------------------------
(***************************************************************************)
(* InMemoryTransport (integrations/transport.py) and what the adapters and *)
(* the siblings' doubles do with it.  One process, one thread: every       *)
(* operation is a step.                                                    *)
(*                                                                         *)
(* receive empties the queue of every target at once, so one set stands    *)
(* for all the queues.  An event object is sent once, as every adapter     *)
(* does, and passes the validation; two events may carry one idempotency   *)
(* key.  dead_letter_after_retries has its default, TRUE.                  *)
(***************************************************************************)
EXTENDS FiniteSets, Integers

CONSTANTS
    Events,      \* the events callers send
    KeyOf,       \* [Events -> idempotency keys]
    TypeOf,      \* [Events -> event types]
    MaxRetries   \* TransportConfig.max_retries

VARIABLES
    inbound,     \* the events waiting in some queue
    processing,  \* the events received and not settled
    deadLetter,  \* the events given up
    keys,        \* the idempotency keys not yet expired
    retries,     \* [Events -> Nat], _retry_counts
    status,      \* [Events -> {"new", "pending", "completed", "dead_letter"}]
    handed       \* the events a caller received and has yet to settle

memory == <<inbound, processing, deadLetter, keys, retries, status, handed>>

MemoryTypeOK ==
    /\ inbound \subseteq Events
    /\ processing \subseteq Events
    /\ deadLetter \subseteq Events
    /\ keys \subseteq {KeyOf[e] : e \in Events}
    /\ retries \in [Events -> 0..MaxRetries]
    /\ status \in [Events -> {"new", "pending", "completed", "dead_letter"}]
    /\ handed \subseteq processing

MemoryInit ==
    /\ inbound = {} /\ processing = {} /\ deadLetter = {}
    /\ keys = {}
    /\ retries = [e \in Events |-> 0]
    /\ status = [e \in Events |-> "new"]
    /\ handed = {}

\* A key that is remembered refuses the event; else it is queued.
Send(e) ==
    /\ status[e] = "new"
    /\ KeyOf[e] \notin keys
    /\ keys' = keys \cup {KeyOf[e]}
    /\ inbound' = inbound \cup {e}
    /\ status' = [status EXCEPT ![e] = "pending"]
    /\ UNCHANGED <<processing, deadLetter, retries, handed>>

\* A key older than idempotency_ttl_seconds is forgotten.
Expire(k) ==
    /\ keys' = keys \ {k}
    /\ UNCHANGED <<inbound, processing, deadLetter, retries, status, handed>>

\* Everything that waits moves to processing; the caller gets what it asked for.
Drain(returned) ==
    /\ processing' = processing \cup inbound
    /\ inbound' = {}
    /\ handed' = handed \cup returned

\* receive, without a filter or for one type of event.
Receive(wanted) ==
    /\ inbound # {}
    /\ Drain(inbound \cap wanted)
    /\ UNCHANGED <<deadLetter, keys, retries, status>>

\* pop from processing, by whoever received the event.
Settle(e, outcome) ==
    /\ e \in handed
    /\ processing' = processing \ {e}
    /\ handed' = handed \ {e}
    /\ status' = [status EXCEPT ![e] = outcome]
    /\ UNCHANGED keys

Acknowledge(e) ==
    /\ Settle(e, "completed")
    /\ UNCHANGED <<inbound, deadLetter, retries>>

Requeue(e) ==
    /\ retries[e] < MaxRetries
    /\ Settle(e, "pending")
    /\ retries' = [retries EXCEPT ![e] = @ + 1]
    /\ inbound' = inbound \cup {e}
    /\ UNCHANGED deadLetter

\* Mutant of Bury: the count of rejections is compared one too early.
BuryEarly(e) ==
    /\ retries[e] + 1 >= MaxRetries
    /\ Settle(e, "dead_letter")
    /\ deadLetter' = deadLetter \cup {e}
    /\ retries' = [retries EXCEPT ![e] = 0]
    /\ UNCHANGED inbound

Bury(e) ==
    /\ retries[e] >= MaxRetries
    /\ Settle(e, "dead_letter")
    /\ deadLetter' = deadLetter \cup {e}
    /\ retries' = [retries EXCEPT ![e] = 0]
    /\ UNCHANGED inbound

Reject(e) == Requeue(e) \/ Bury(e)

Retry(e) ==
    /\ e \in deadLetter
    /\ deadLetter' = deadLetter \ {e}
    /\ status' = [status EXCEPT ![e] = "pending"]
    /\ retries' = [retries EXCEPT ![e] = 0]
    /\ inbound' = inbound \cup {e}
    /\ UNCHANGED <<processing, keys, handed>>

\* _wait_for_response: a poll takes all that waits, settles the answer if it is
\* there, and leaves every other event in processing.
Wait(answer) ==
    /\ inbound # {}
    /\ processing' = (processing \cup inbound) \ (inbound \cap {answer})
    /\ inbound' = {}
    /\ status' = IF answer \in inbound THEN [status EXCEPT ![answer] = "completed"]
                                       ELSE status
    /\ UNCHANGED <<deadLetter, keys, retries, handed>>

\* process_inbound of a sibling: receive everything, acknowledge each event.
ProcessInbound ==
    /\ inbound # {}
    /\ inbound' = {}
    /\ status' = [e \in Events |-> IF e \in inbound THEN "completed" ELSE status[e]]
    /\ UNCHANGED <<processing, deadLetter, keys, retries, handed>>

MemoryNext ==
    \/ \E e \in Events :
         \/ Send(e) \/ Acknowledge(e) \/ Reject(e) \/ Retry(e) \/ Wait(e)
    \/ \E k \in keys : Expire(k)
    \/ Receive(Events)
    \/ \E t \in {TypeOf[e] : e \in Events} : Receive({e \in Events : TypeOf[e] = t})
    \/ ProcessInbound
=============================================================================
