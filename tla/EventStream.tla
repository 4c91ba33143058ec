------------------------------ MODULE EventStream ------------------------------
(***************************************************************************)
(* The client of the Efata platform: plain requests, and one message whose *)
(* answer is a stream of server-sent events that is parsed, checked and    *)
(* handed over while it arrives.  The platform, the network and the caller *)
(* each may stop it at any line.                                           *)
(*                                                                         *)
(* A line is [field, size] and, with field "event", its name, or, with     *)
(* "data", what is written on it: [text, execution_id, sequence].  The     *)
(* text is a JSON object, a list, blank, broken, or the head or the tail   *)
(* of an object that two lines share.                                      *)
(***************************************************************************)
EXTENDS Integers, Sequences, SequencesExt, FiniteSetsExt

CONSTANTS
    Absent,
    Bodies,              \* bound: the answers of the platform, sequences of lines
    Statuses,            \* bound: the statuses of its answers
    MaxEventBytes,       \* max_event_bytes
    MaxEvents,           \* max_events
    Kept,                \* the observations a client keeps: 100
    MaxCalls             \* bound on the calls of one client

Answer(b) ==
    /\ Len(b) \in Nat /\ DOMAIN b = 1..Len(b)
    /\ \A i \in DOMAIN b :
         /\ b[i].field \in {"event", "data", "other"} => b[i].size \in Nat
         /\ b[i].field = "event" => b[i].name # Absent

ASSUME StreamAssumption ==
    /\ \A b \in Bodies : Answer(b)
    /\ MaxEventBytes \in Nat /\ MaxEvents \in Nat /\ Kept \in Nat \ {0}

VARIABLES
    phase,               \* of the stream: "idle", "reading", "yielded", or how it ended
    body, at,            \* the answer, and how many of its lines have been read
    event_name, data_lines, event_bytes,
    event_count, expected_execution_id, last_sequence, done_seen,
    events,              \* handed to the caller, in order
    observations,        \* result codes, oldest first
    calls                \* history: how each call ended for its caller

parser == <<event_name, data_lines, event_bytes>>
checks == <<event_count, expected_execution_id, last_sequence, done_seen>>
streamVars == <<phase, body, at, parser, checks, events, observations, calls>>

EventNames == {"status", "execution", "agent_started", "chunk",
               "agent_chunk", "agent_done", "error", "done"}

-----------------------------------------------------------------------------
(* One event *)

\* str(value): a number and its digits are the same execution.
ExecutionId(data) ==
    IF data.execution_id = Absent THEN Absent ELSE data.execution_id.value

\* int(value): digits are a number, a word is none.
SequenceOf(data) ==
    IF data.sequence = Absent THEN Absent
    ELSE IF data.sequence.form = "word" THEN Absent ELSE data.sequence.value

EmptyObject == [text |-> "object", execution_id |-> Absent, sequence |-> Absent]

\* What is written on numbered lines, the blank ones stripped.
Written(lines) == {k \in DOMAIN lines : lines[k].text # "blank"}

\* What json.loads makes of n written lines.
Joined(n, first, last) ==
    CASE n = 0 -> EmptyObject
      [] n = 1 -> first
      [] OTHER -> IF n = 2 /\ first.text = "head" /\ last.text = "tail"
                  THEN [first EXCEPT !.text = "object"]
                  ELSE [first EXCEPT !.text = "broken"]

\* "\n".join(data_lines).strip(), read as JSON.
Payload(lines) ==
    IF Written(lines) = {} THEN EmptyObject
    ELSE Joined(Cardinality(Written(lines)), lines[Min(Written(lines))], lines[Max(Written(lines))])

\* _parse_event succeeds: the name is known and the data an object.
Parses(name, data) == name \in EventNames /\ data.text = "object"

\* validate_progressive lets the event pass.
Follows(name, data) ==
    /\ ~done_seen
    /\ event_count < MaxEvents
    /\ ExecutionId(data) # Absent /\ expected_execution_id # Absent
         => ExecutionId(data) = expected_execution_id
    /\ SequenceOf(data) # Absent /\ last_sequence # Absent
         => SequenceOf(data) = last_sequence + 1

AdvanceChecks(name, data) ==
    /\ event_count' = event_count + 1
    /\ expected_execution_id' = IF expected_execution_id = Absent THEN ExecutionId(data)
                                ELSE expected_execution_id
    /\ last_sequence' = IF SequenceOf(data) = Absent THEN last_sequence ELSE SequenceOf(data)
    /\ done_seen' = (name = "done")

-----------------------------------------------------------------------------
(* Calls and what is kept of them *)

\* _http_result_code
ResultCode(status) ==
    CASE status = 401 -> "AUTHENTICATION_FAILED"
      [] status = 403 -> "AUTHORIZATION_FAILED"
      [] status = 404 -> "CONTRACT_OR_RESOURCE_NOT_FOUND"
      [] status = 409 -> "CONFLICT"
      [] status = 429 -> "RATE_LIMITED"
      [] OTHER -> IF status >= 500 THEN "UPSTREAM_FAILURE"
                  ELSE IF status >= 400 THEN "UPSTREAM_REJECTED" ELSE "OK"

\* Mutant: the oldest observations are kept.
KeepOldest(code) ==
    observations' = SubSeq(Append(observations, code), 1, Min({Kept, Len(observations) + 1}))

\* _observe
Observe(code) ==
    LET longer == Append(observations, code)
    IN  observations' = SubSeq(longer, Max({1, Len(longer) - Kept + 1}), Len(longer))

Ends(outcome) == calls' = Append(calls, outcome)
StreamEnds(outcome) == Ends(outcome) /\ phase' = outcome

\* What the transport raises, by the errors it is reported as.
Breaks == {"UPSTREAM_TIMEOUT", "UPSTREAM_UNAVAILABLE", "UPSTREAM_TRANSPORT_ERROR"}

Reading == phase \in {"reading", "yielded"}

\* Every call begun leaves one entry, an open stream when it ends.
MayCall == Len(calls) + (IF Reading THEN 1 ELSE 0) < MaxCalls

-----------------------------------------------------------------------------
StreamInit ==
    /\ phase = "idle" /\ body = <<>> /\ at = 0
    /\ event_name = Absent /\ data_lines = <<>> /\ event_bytes = 0
    /\ event_count = 0 /\ expected_execution_id = Absent
    /\ last_sequence = Absent /\ done_seen = FALSE
    /\ events = <<>> /\ observations = <<>> /\ calls = <<>>

Stream == <<phase, body, at, parser, checks, events>>

(* _request, and _json of the answer; also between two events of a stream. *)
\* Answered; the caller may find that the answer is no JSON.
RequestAnswered(status, json) ==
    /\ phase # "reading" /\ MayCall
    /\ Observe(ResultCode(status))
    /\ Ends(IF ResultCode(status) = "OK" /\ ~json THEN "UPSTREAM_RESPONSE_INVALID"
            ELSE ResultCode(status))
    /\ UNCHANGED Stream

RequestBroken(code) ==
    /\ phase # "reading" /\ MayCall
    /\ Observe(code) /\ Ends(code)
    /\ UNCHANGED Stream

(* iter_stream_message: what a stream keeps is its own, and one is enough. *)
OpenStream(status, answer) ==
    /\ phase = "idle" /\ MayCall
    /\ ResultCode(status) = "OK"
    /\ phase' = "reading" /\ body' = answer /\ at' = 0
    /\ UNCHANGED <<parser, checks, events, observations, calls>>

StreamRefused(status) ==
    /\ ~Reading /\ MayCall
    /\ ResultCode(status) # "OK"
    /\ Observe(ResultCode(status)) /\ Ends(ResultCode(status))
    /\ UNCHANGED Stream

\* The transport fails while the stream is read.  An error that is neither a
\* timeout nor a broken network leaves unobserved and as it is.
StreamBreaks(code) ==
    /\ Reading
    /\ IF code = "UPSTREAM_TRANSPORT_ERROR"
       THEN StreamEnds("HTTP_ERROR") /\ UNCHANGED observations
       ELSE StreamEnds(code) /\ Observe(code)
    /\ UNCHANGED <<body, at, parser, checks, events>>

\* The caller drops the generator at an event.
Abandon ==
    /\ phase = "yielded"
    /\ StreamEnds("ABANDONED")
    /\ UNCHANGED <<body, at, parser, checks, events, observations>>

\* EfataV2SseContractError passes through the client unobserved.
Rejected == StreamEnds("CONTRACT") /\ UNCHANGED observations

(* iter_sse_events *)
Line == body[at + 1]
NextLine(field) == Reading /\ at < Len(body) /\ Line.field \in field

Pending == event_name # Absent \/ data_lines # <<>>

\* flush of a pending event.
Flush ==
    LET data == Payload(data_lines)
    IN  IF Parses(event_name, data) /\ Follows(event_name, data)
        THEN /\ AdvanceChecks(event_name, data)
             /\ event_name' = Absent /\ data_lines' = <<>> /\ event_bytes' = 0
             /\ events' = Append(events, [name |-> event_name, data |-> data])
             /\ phase' = "yielded"
             /\ UNCHANGED <<observations, calls>>
        ELSE Rejected /\ UNCHANGED <<parser, checks, events>>

\* Without a pending event the bytes stay counted.
ReadBlank ==
    /\ NextLine({"blank"})
    /\ at' = at + 1
    /\ IF Pending
       THEN Flush
       ELSE phase' = "reading" /\ UNCHANGED <<parser, checks, events, observations, calls>>
    /\ UNCHANGED body

ReadComment ==
    /\ NextLine({"comment"})
    /\ at' = at + 1 /\ phase' = "reading"
    /\ UNCHANGED <<body, parser, checks, events, observations, calls>>

ReadField ==
    /\ NextLine({"event", "data", "other"})
    /\ at' = at + 1
    /\ event_bytes' = event_bytes + Line.size
    /\ IF event_bytes' > MaxEventBytes
       THEN Rejected /\ UNCHANGED <<event_name, data_lines>>
       ELSE /\ phase' = "reading"
            /\ event_name' = IF Line.field = "event" THEN Line.name ELSE event_name
            /\ data_lines' = IF Line.field = "data" THEN Append(data_lines, Line.data)
                             ELSE data_lines
            /\ UNCHANGED <<observations, calls>>
    /\ UNCHANGED <<body, checks, events>>

\* Mutant: a stream that just stops ends well.
EndWithoutDone ==
    /\ Reading /\ at = Len(body) /\ ~Pending
    /\ StreamEnds("OK") /\ Observe("OK")
    /\ UNCHANGED <<body, at, parser, checks, events>>

\* The lines are over and nothing is pending.
EndStream ==
    /\ Reading /\ at = Len(body) /\ ~Pending
    /\ IF done_seen THEN StreamEnds("OK") /\ Observe("OK") ELSE Rejected
    /\ UNCHANGED <<body, at, parser, checks, events>>

\* The last event needs no blank line after it.
ReadLast ==
    /\ Reading /\ at = Len(body) /\ Pending
    /\ Flush
    /\ UNCHANGED <<body, at>>

StreamNext ==
    \/ \E status \in Statuses, json \in BOOLEAN : RequestAnswered(status, json)
    \/ \E code \in Breaks : RequestBroken(code)
    \/ \E status \in Statuses :
         \/ \E answer \in Bodies : OpenStream(status, answer)
         \/ StreamRefused(status)
    \/ \E code \in Breaks : StreamBreaks(code)
    \/ Abandon
    \/ ReadBlank \/ ReadComment \/ ReadField \/ EndStream \/ ReadLast

StreamSpec == StreamInit /\ [][StreamNext]_streamVars

-----------------------------------------------------------------------------
(* What a whole answer says, read at once *)

\* The ends of its blocks: its blank lines, and its end.
Stops(b) == {i \in DOMAIN b : b[i].field = "blank"} \cup {Len(b) + 1}

\* The lines of a field in the block before line i.
Fields(b, i, field) ==
    {j \in 1..i - 1 : b[j].field = field /\ \A k \in j..i - 1 : b[k].field # "blank"}

\* The blocks that are events, and what they are.
EventStops(b) == {i \in Stops(b) : Fields(b, i, "event") \cup Fields(b, i, "data") # {}}
Said(b, i) ==
    LET names == Fields(b, i, "event")
    IN  [name |-> IF names = {} THEN Absent ELSE b[Max(names)].name,
         data |-> Payload([j \in Fields(b, i, "data") |-> b[j].data])]

StopsBefore(b, i) == {j \in EventStops(b) : j < i}
Events(b) ==
    [k \in 1..Cardinality(EventStops(b)) |->
        Said(b, CHOOSE i \in EventStops(b) : Cardinality(StopsBefore(b, i)) = k - 1)]

Size(line) == IF line.field \in {"event", "data", "other"} THEN line.size ELSE 0

\* The size of the first n lines.
SizeOf(b, n) ==
    LET size[k \in 0..n] == IF k = 0 THEN 0 ELSE size[k - 1] + Size(b[k])
    IN  size[n]

\* The size of what follows the last event before line i, up to this line.
Counted(b, i) == SizeOf(b, i) - SizeOf(b, Max({0} \cup StopsBefore(b, i)))

\* validate_terminal_contract
TerminalContract(es) ==
    LET ids == {ExecutionId(es[k].data) : k \in DOMAIN es} \ {Absent}
        number(k) == SequenceOf(es[k].data)
        numbered == {k \in DOMAIN es : number(k) # Absent}
    IN  /\ {k \in DOMAIN es : es[k].name = "done"} = {Len(es)} \ {0}
        /\ es # <<>>
        /\ \A x, y \in ids : x = y
        /\ \A j, k \in numbered :
              j < k /\ (\A m \in numbered : ~(j < m /\ m < k)) => number(k) = number(j) + 1

Whole(b) ==
    /\ \A k \in DOMAIN Events(b) : Parses(Events(b)[k].name, Events(b)[k].data)
    /\ Len(Events(b)) <= MaxEvents
    /\ \A i \in DOMAIN b : Counted(b, i) <= MaxEventBytes
    /\ TerminalContract(Events(b))

-----------------------------------------------------------------------------
(* Properties *)

\* A stream read line by line is judged as if its whole answer had been read
\* at once: it ends well exactly when the answer is whole, after each event of
\* it was handed over, and whenever the caller has control, after a failure too,
\* it holds the first events of the answer in their order and no other.
StreamsAreJudgedWhole ==
    /\ phase # "reading" => IsPrefix(events, Events(body))
    /\ phase = "OK" => Whole(body) /\ events = Events(body)
    /\ phase = "CONTRACT" => ~Whole(body)

\* Every call that ends with an answer or an error of the bridge is observed
\* exactly once, with the code its caller saw, and the newest are kept in the
\* order the calls ended; an answer that is no JSON was observed as answered,
\* and a stream that breaks its contract or is abandoned is not observed.
ObservedOnce ==
    LET seen == {k \in DOMAIN calls : calls[k] \notin {"CONTRACT", "HTTP_ERROR", "ABANDONED"}}
        told(k) == IF calls[k] = "UPSTREAM_RESPONSE_INVALID" THEN "OK" ELSE calls[k]
        later(k) == Cardinality({j \in seen : j > k})
    IN  /\ Len(observations) = Min({Kept, Cardinality(seen)})
        /\ \A k \in seen : later(k) < Len(observations) =>
              observations[Len(observations) - later(k)] = told(k)
=============================================================================
