------------------------------ MODULE FileService ------------------------------
(***************************************************************************)
(* engine/platform/files/file_service.cpp and the sequential half of        *)
(* file_read_stream.cpp: typed requests in front of asynchronous backends.  *)
(* One owner thread submits, cancels and dispatches; backends complete from *)
(* any thread, under the lock of the request's completion_state.            *)
(*                                                                          *)
(* A request is its id.  Its bytes are their number, a mount its readers in *)
(* order and its one writer.  A submission the backend refuses at once is   *)
(* one it completes at once with that error: begin() makes it so.  stat,    *)
(* list and flush are a read or a write that reserves nothing.              *)
(***************************************************************************)
EXTENDS Integers, Sequences, FiniteSets, FiniteSetsExt

CONSTANTS
    MaxIds,       \* bound: how many requests are ever accepted
    MaxRequests, MaxBuffer,   \* service_options: max_requests, max_buffer_bytes
    Readers,      \* how many readers the mount has
    Sizes,        \* the bytes of one read, write or block
    Budgets       \* the values of max_callbacks the host passes

Ids == 1 .. MaxIds
Kinds == {"read", "write", "open", "block"}
\* What a backend answers; the end of a stream, which also closes it, counts as an error.
Results == {"success", "not_found", "io"}

ASSUME FileServiceAssumption ==
    /\ MaxIds \in Nat /\ MaxRequests \in Nat /\ MaxBuffer \in Nat
    /\ Readers \in Nat \ {0} /\ Sizes \subseteq Nat /\ Budgets \subseteq Nat \ {0}

VARIABLES
    accepted,     \* the last id given out
    kind, size, source,   \* of each accepted request; source: the stream a block is of
    pending,      \* requests not delivered, in order of submission
    working,      \* requests a backend holds
    index,        \* the backend of each request, from 1
    completed,    \* completion_state.completed
    cancelled,    \* completion_state.cancelled
    reserved,     \* buffer_budget.reserved
    closing, onShutdown,
    open,         \* streams their backend has open; a stream is the id that opened it
    held,         \* streams whose read_stream is there, from the call that opens them
    tracked,      \* implementation.streams
    pc, visits, place, room,   \* dispatch_completions: count - visited, index + 1, budget left
    outcome,      \* history: what each callback was told
    verdict,      \* history: what cancel answered first
    fresh,        \* history: requests submitted by callbacks of this dispatch
    told          \* history: calls of the shutdown callback

requests == <<accepted, kind, size, source>>
progress == <<working, index, completed>>
streams == <<open, held, tracked>>
dispatch == <<pc, visits, place, room>>
history == <<outcome, verdict, fresh, told>>
vars == <<requests, pending, progress, cancelled, reserved, closing, onShutdown, streams,
          dispatch, history>>

Init ==
    /\ accepted = 0 /\ kind = [r \in Ids |-> "none"] /\ size = [r \in Ids |-> 0]
    /\ source = [r \in Ids |-> 0] /\ pending = <<>> /\ reserved = 0
    /\ working = {} /\ index = [r \in Ids |-> 1] /\ completed = [r \in Ids |-> "none"]
    /\ cancelled = {} /\ closing = FALSE /\ onShutdown = FALSE
    /\ open = {} /\ held = {} /\ tracked = {}
    /\ pc = "idle" /\ visits = 0 /\ place = 1 /\ room = 0
    /\ outcome = [r \in Ids |-> "none"] /\ verdict = [r \in Ids |-> "none"]
    /\ fresh = {} /\ told = 0

-----------------------------------------------------------------------------
Waiting == {pending[i] : i \in 1 .. Len(pending)}
\* Reads and openings try the readers in turn; a block stays with the stream's backend.
Backends(r) == IF kind[r] \in {"read", "open"} THEN Readers ELSE 1
FallsBack(r) == completed[r] = "not_found" /\ index[r] < Backends(r)
\* A completion that is the request's last word.
Settled(r) == completed[r] # "none" /\ ~FallsBack(r)
\* The owner thread runs the host's code: between dispatches or in a callback of one.
HostRuns == pc \in {"idle", "callback"}

(* Calls of the host.  A refused call changes nothing.                      *)

\* The buffers of the undelivered requests are within the budget.
Affordable(bytes) == bytes <= MaxBuffer - reserved

Submit(what, bytes, stream) ==
    LET r == accepted + 1 IN
    /\ HostRuns /\ ~closing /\ accepted < MaxIds
    /\ Affordable(bytes) /\ Len(pending) < MaxRequests
    /\ accepted' = r
    /\ kind' = [kind EXCEPT ![r] = what] /\ size' = [size EXCEPT ![r] = bytes]
    /\ source' = [source EXCEPT ![r] = stream]
    /\ pending' = Append(pending, r) /\ reserved' = reserved + bytes
    /\ working' = working \cup {r}
    /\ fresh' = IF pc = "callback" THEN fresh \cup {r} ELSE fresh
    /\ UNCHANGED <<index, completed, cancelled, closing, onShutdown, open, tracked, dispatch,
                   outcome, verdict, told>>

Read(bytes) == Submit("read", bytes, 0) /\ UNCHANGED held
Write(bytes) == Submit("write", bytes, 0) /\ UNCHANGED held
\* read_stream::read_sequential, before and after its stream is there; one block at a time,
\* and two buffers for each.
OpenStream == Submit("open", 0, 0) /\ held' = held \cup {accepted'}
ReadBlock(stream, bytes) ==
    /\ stream \in held \ Waiting /\ \A r \in Waiting : source[r] # stream
    /\ Submit("block", 2 * bytes, stream) /\ UNCHANGED held

\* pending_request::cancel of the requests that are not settled; a block closes its stream.
CancelAll(all) ==
    LET heard == {r \in all \cap Waiting : ~Settled(r)} IN
    /\ cancelled' = cancelled \cup heard
    /\ verdict' = [r \in Ids |-> CASE r \in heard -> "granted"
                                   [] r \in (all \cap Waiting) \ (heard \cup cancelled) -> "refused"
                                   [] OTHER -> verdict[r]]
Aborted(all) == {source[r] : r \in {r \in all \cap Waiting : ~Settled(r)}}

Cancel(r) ==
    /\ HostRuns /\ r \in Waiting
    /\ CancelAll({r})
    /\ open' = open \ Aborted({r})
    /\ UNCHANGED <<requests, pending, progress, reserved, closing, onShutdown, held, tracked,
                   dispatch, outcome, fresh, told>>

\* The read_stream is destroyed: it cancels its opening or its block and closes its source.
DropStream(stream) ==
    /\ HostRuns /\ stream \in held
    /\ CancelAll({r \in Waiting : r = stream \/ source[r] = stream})
    /\ open' = IF stream \in Waiting THEN open ELSE open \ {stream}
    /\ held' = held \ {stream}
    /\ UNCHANGED <<requests, pending, progress, reserved, closing, onShutdown, tracked,
                   dispatch, outcome, fresh, told>>

Shutdown ==
    /\ HostRuns /\ ~closing
    /\ closing' = TRUE /\ onShutdown' = TRUE
    /\ CancelAll(Waiting)
    /\ open' = open \ (Aborted(Waiting) \cup tracked) /\ tracked' = {}
    /\ UNCHANGED <<requests, pending, progress, reserved, held, dispatch, outcome, fresh, told>>

-----------------------------------------------------------------------------
(* A backend, on any thread.  A closed stream has no more bytes.            *)

Complete(r, result) ==
    /\ r \in working /\ working' = working \ {r}
    /\ result = "success" => kind[r] # "block" \/ source[r] \in open
    /\ completed' = [completed EXCEPT ![r] = result]
    /\ open' = IF kind[r] = "open" /\ result = "success" THEN open \cup {r} ELSE open
    /\ UNCHANGED <<requests, pending, index, cancelled, reserved, closing, onShutdown, held,
                   tracked, dispatch, history>>

-----------------------------------------------------------------------------
(* dispatch_completions                                                     *)

BeginDispatch(budget) ==
    /\ pc = "idle"
    /\ pc' = "visiting" /\ visits' = Len(pending) /\ place' = 1 /\ room' = budget
    /\ UNCHANGED <<requests, pending, progress, cancelled, reserved, closing, onShutdown,
                   streams, history>>

Visiting == pc = "visiting" /\ visits > 0 /\ room > 0

\* advance() finds nothing; or the next backend is asked.
Skip ==
    /\ Visiting /\ completed[pending[place]] = "none"
    /\ visits' = visits - 1 /\ place' = place + 1
    /\ UNCHANGED <<requests, pending, progress, cancelled, reserved, closing, onShutdown,
                   streams, pc, room, history>>
ForgetToBegin ==
    LET r == pending[place] IN
    /\ Visiting /\ FallsBack(r) /\ r \notin cancelled
    /\ completed' = [completed EXCEPT ![r] = "none"] /\ index' = [index EXCEPT ![r] = @ + 1]
    /\ visits' = visits - 1 /\ place' = place + 1
    /\ UNCHANGED <<requests, pending, working, cancelled, reserved, closing, onShutdown,
                   streams, pc, room, history>>
FallBack ==
    LET r == pending[place] IN
    /\ Visiting /\ FallsBack(r) /\ r \notin cancelled
    /\ completed' = [completed EXCEPT ![r] = "none"] /\ index' = [index EXCEPT ![r] = @ + 1]
    /\ working' = working \cup {r}
    /\ visits' = visits - 1 /\ place' = place + 1
    /\ UNCHANGED <<requests, pending, cancelled, reserved, closing, onShutdown, streams, pc,
                   room, history>>

\* What the callback is told.  A stream that opens while the service closes is cancelled.
OutcomeAsCompleted(r) == completed[r]
Outcome(r) ==
    IF r \in cancelled \/ (kind[r] = "open" /\ completed[r] = "success" /\ closing)
    THEN "cancelled" ELSE completed[r]

\* The source this delivery closes: one that opened for nobody, or one that is at its end.
ClosedBy(r) ==
    CASE kind[r] = "open" -> IF Outcome(r) = "success" /\ r \in held THEN {} ELSE {r}
      [] OTHER -> IF Outcome(r) = "success" THEN {} ELSE {source[r]}

\* advance() has the last word: the request leaves the table and its budget, then its callback
\* begins.
Deliver ==
    LET r == pending[place] IN
    /\ Visiting /\ completed[r] # "none" /\ (r \in cancelled \/ ~FallsBack(r))
    /\ outcome' = [outcome EXCEPT ![r] = Outcome(r)]
    /\ pending' = [i \in 1 .. Len(pending) - 1 |->
                       IF i < place THEN pending[i] ELSE pending[i + 1]]
    /\ reserved' = reserved - size[r]
    /\ size' = [size EXCEPT ![r] = 0] /\ source' = [source EXCEPT ![r] = 0]
    /\ completed' = [completed EXCEPT ![r] = "none"] /\ cancelled' = cancelled \ {r}
    /\ open' = open \ ClosedBy(r)
    /\ held' = IF Outcome(r) = "success" THEN held ELSE held \ {r, source[r]}
    /\ tracked' = IF kind[r] = "open" /\ Outcome(r) = "success" THEN tracked \cup {r} ELSE tracked
    /\ pc' = "callback" /\ visits' = visits - 1 /\ room' = room - 1
    /\ UNCHANGED <<accepted, kind, working, index, closing, onShutdown, place, verdict, fresh,
                   told>>

EndCallback ==
    /\ pc = "callback" /\ pc' = "visiting"
    /\ UNCHANGED <<requests, pending, progress, cancelled, reserved, closing, onShutdown,
                   streams, visits, place, room, history>>

\* The loop is over; the shutdown callback counts in the same budget.
EndDispatch ==
    /\ pc = "visiting" /\ (visits = 0 \/ room = 0)
    /\ pc' = "idle" /\ visits' = 0 /\ place' = 1 /\ room' = 0
    /\ IF closing /\ pending = <<>> /\ onShutdown /\ room > 0
       THEN onShutdown' = FALSE /\ told' = told + 1
       ELSE UNCHANGED <<onShutdown, told>>
    /\ fresh' = {}
    /\ UNCHANGED <<requests, pending, progress, cancelled, reserved, closing, streams,
                   outcome, verdict>>

-----------------------------------------------------------------------------
Host ==
    \/ \E bytes \in Sizes :
           Read(bytes) \/ Write(bytes) \/ \E stream \in Ids : ReadBlock(stream, bytes)
    \/ OpenStream \/ Shutdown
    \/ \E r \in Ids : Cancel(r) \/ DropStream(r)
BackendThread == \E r \in Ids, result \in Results : Complete(r, result)
StartDispatch == \E budget \in Budgets : BeginDispatch(budget)
Dispatch == Skip \/ FallBack \/ Deliver \/ EndCallback \/ EndDispatch

Next == Host \/ BackendThread \/ StartDispatch \/ Dispatch

Spec == Init /\ [][Next]_vars

-----------------------------------------------------------------------------
(* Properties *)

\* Every variable has its type; the table and the buffers stay within their limits, and what
\* is reserved is exactly what the undelivered requests hold.
TypeOK ==
    /\ Len(pending) <= MaxRequests /\ reserved \in 0 .. MaxBuffer
    /\ reserved = MapThenSumSet(LAMBDA r : size[r], Waiting)
    /\ accepted \in 0 .. MaxIds /\ kind \in [Ids -> Kinds \cup {"none"}]
    /\ pending \in Seq(1 .. accepted) /\ working \subseteq 1 .. accepted
    /\ index \in [Ids -> 1 .. Readers] /\ completed \in [Ids -> Results \cup {"none"}]
    /\ cancelled \subseteq 1 .. accepted /\ closing \in BOOLEAN /\ onShutdown \in BOOLEAN
    /\ open \subseteq 1 .. accepted /\ held \subseteq 1 .. accepted /\ tracked \subseteq 1 .. accepted
    /\ pc \in {"idle", "visiting", "callback"} /\ visits \in Nat /\ room \in Nat
    /\ place \in 1 .. Len(pending) + 1 /\ visits <= Len(pending) - place + 1

\* cancel() tells the truth, although the backend may answer at the same moment: who was told
\* that the cancellation took is called back with cancelled, who was told that it came too late
\* is called back with the answer (streams aside, which a shutdown still takes back).  And
\* not_found is only said when the last reader said it, and a request that a callback submits is
\* not called back by the same dispatch, however fast its backend is.
OutcomeIsHonest ==
    /\ TypeOK
    /\ \A r \in Ids :
           /\ verdict[r] = "granted" => outcome[r] \in {"none", "cancelled"}
           /\ verdict[r] = "refused" /\ kind[r] # "open" => outcome[r] # "cancelled"
           /\ outcome[r] = "not_found" => index[r] = Backends(r)
    /\ \A r \in fresh : outcome[r] = "none"

\* The shutdown callback is the last one and comes once: every accepted request was called back
\* before, no backend works for the service any more, and no stream is left open, not even one
\* that was being opened, or whose opening had been cancelled.
ShutdownIsLast ==
    told > 0 => /\ told = 1 /\ pending = <<>> /\ working = {} /\ open = {}
                /\ \A r \in 1 .. accepted : outcome[r] # "none"

\* Every accepted request has been called back, and a shutdown has ended.
EveryCallIsBack ==
    /\ \A r \in 1 .. accepted : outcome[r] # "none"
    /\ closing => told = 1
=============================================================================
