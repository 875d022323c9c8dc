-------------------------------- MODULE Mcp --------------------------------
(***************************************************************************)
(* The client of an MCP server (crates/opca-core/src/extensions/mcp.rs): a *)
(* child process at the end of two pipes, a table of callers by request id,*)
(* a reader task that hands answers out, and callers that may time out or  *)
(* be dropped at any await.  request borrows the client mutably, so one    *)
(* call is under way at a time, but its traces stay in the table, in the   *)
(* pipes and in the server.                                                *)
(***************************************************************************)
EXTENDS Naturals, SequencesExt, FiniteSets

CONSTANTS
    MaxCalls,    \* bound: requests sent, initialize included
    PipeSize,    \* lines the server's stdin takes unread
    MaxNoise     \* bound: lines that are no answer, and second answers

VARIABLES
    phase,       \* where request is: "start", "idle", "writing", "waiting", "gone"
    ready,       \* whether the handshake is done
    id,          \* the request under way, the last one otherwise
    pending,     \* the keys of McpClient.pending
    reply,       \* what the oneshot channel of the call under way holds
    returned,    \* history: what each call returned
    stdin,       \* the pipe to the server: requests, or Junk for a line it cannot answer
    torn,        \* whether the pipe ends in part of a line
    stdout,      \* the pipe from the server
    asked,       \* the requests the server has read and may answer
    alive,       \* whether the child process runs
    reader,      \* whether the reader task runs
    noise        \* counter for the bound

serverVars == <<asked, alive, noise>>
vars == <<phase, ready, id, pending, reply, returned, stdin, torn, stdout, serverVars, reader>>

\* The call under way, and what it asks; a line that asks or answers nothing; one
\* that the server numbers itself, for a request of its own.
Call == Len(returned) + 1
Request == [id |-> id, of |-> Call]
Junk == [id |-> 0, of |-> 0]
Answer(request, ok) == [id |-> request.id, of |-> request.of, ok |-> ok]
Own(n) == [id |-> n, of |-> 0, ok |-> TRUE]
None == Answer(Junk, FALSE)
Result(got, why) == [call |-> Call, got |-> got, why |-> why]
Failed(why) == Result(None, why)
Busy == phase \in {"writing", "waiting"}

Init ==
    /\ phase = "start" /\ ready = FALSE /\ id = 0
    /\ pending = {} /\ reply = None /\ returned = <<>>
    /\ stdin = <<>> /\ torn = FALSE /\ stdout = <<>>
    /\ asked = {} /\ alive = TRUE /\ reader = TRUE /\ noise = 0

-----------------------------------------------------------------------------
(* McpClient.request; start calls it once, for initialize *)

\* Mutant: a request that follows one that failed takes its id again.
IdTakenAgain == IF returned # <<>> /\ Last(returned).why # "answered" THEN id ELSE id + 1
\* next_id.fetch_add
NextId == id + 1

\* How a call comes back: a start that fails kills the child and leaves no
\* client.
Return(result) ==
    /\ returned' = Append(returned, result)
    /\ ready' = (ready \/ result.got.ok)
    /\ phase' = IF ready' THEN "idle" ELSE "gone"
    /\ alive' = (alive /\ ready')
    /\ UNCHANGED <<id, pending, reply, stdout, asked, noise, reader>>

\* check_alive, then the id and the entry in the table.
Begin ==
    /\ phase \in {"start", "idle"} /\ Len(returned) < MaxCalls
    /\ UNCHANGED <<stdin, torn>>
    /\ \/ /\ alive
          /\ id' = NextId
          /\ pending' = pending \cup {id'}
          /\ reply' = None
          /\ phase' = "writing"
          /\ UNCHANGED <<ready, returned, stdout, serverVars, reader>>
       \/ ~alive /\ Return(Failed("exited"))

\* A line behind part of another is part of that line.
Write ==
    /\ phase = "writing"
    /\ \/ /\ alive /\ Len(stdin) < PipeSize
          /\ stdin' = Append(stdin, IF torn THEN Junk ELSE Request)
          /\ torn' = FALSE
          /\ phase' = "waiting"
          /\ UNCHANGED <<ready, id, pending, reply, returned, stdout, serverVars, reader>>
       \/ /\ ~alive
          /\ Return(Failed("write"))
          /\ UNCHANGED <<stdin, torn>>

\* The first answer ends the handshake: "initialized" is sent, unanswered.
Receive ==
    /\ phase = "waiting" /\ reply # None
    /\ Return(Result(reply, "answered"))
    /\ stdin' = IF ready' /\ ~ready THEN Append(stdin, Junk) ELSE stdin
    /\ UNCHANGED torn

\* Mutant: a dead server is not waited for, nor given up.
TimeIsUpAlive == phase = "waiting" /\ alive
TimeIsUp == phase = "waiting"

\* The 30 s are counted from when the request is written; the entry stays.
TimeOut ==
    /\ TimeIsUp
    /\ Return(Failed("timed out"))
    /\ UNCHANGED <<stdin, torn>>

\* The caller's future is dropped where it awaits; part of the line may be
\* written, and the entry stays.
Abandon ==
    /\ Busy
    /\ Return(Failed("dropped"))
    /\ torn' \in {torn, torn \/ (phase = "writing" /\ alive)}
    /\ UNCHANGED stdin

\* Drop: the child is killed; the reader ends by itself.
DropClient ==
    /\ phase = "idle"
    /\ phase' = "gone" /\ alive' = FALSE
    /\ UNCHANGED <<ready, id, pending, reply, returned, stdin, torn, stdout, asked, noise, reader>>

-----------------------------------------------------------------------------
(* run_reader *)

\* Any line with a number is taken for the answer of that number, a request of the
\* server too: it has neither result nor error, which reads as the result null.  An
\* entry of the table leads to its own caller, if that one still waits.
Awaited(line) == line.id \in pending /\ line.id = id /\ Busy

ReadLine ==
    /\ reader
    /\ \/ /\ stdout # <<>>
          /\ stdout' = Tail(stdout)
          /\ LET line == Head(stdout)
             IN  /\ pending' = pending \ {line.id}
                 /\ reply' = IF Awaited(line) THEN line ELSE reply
          /\ UNCHANGED reader
       \/ /\ stdout = <<>> /\ ~alive
          /\ reader' = FALSE
          /\ UNCHANGED <<stdout, pending, reply>>
    /\ UNCHANGED <<phase, ready, id, returned, stdin, torn, serverVars>>

-----------------------------------------------------------------------------
(* The server: reads when it likes, answers in any order, or not at all *)

ServerReads ==
    /\ alive /\ stdin # <<>>
    /\ stdin' = Tail(stdin)
    /\ asked' = asked \cup ({Head(stdin)} \ {Junk})
    /\ UNCHANGED <<phase, ready, id, pending, reply, returned, torn, stdout, alive, noise, reader>>

\* Again: the server forgets that it has answered.
ServerAnswers(request, ok, again) ==
    /\ alive
    /\ again => noise < MaxNoise
    /\ stdout' = Append(stdout, Answer(request, ok))
    /\ asked' = IF again THEN asked ELSE asked \ {request}
    /\ noise' = IF again THEN noise + 1 ELSE noise
    /\ UNCHANGED <<phase, ready, id, pending, reply, returned, stdin, torn, alive, reader>>

\* A notification or a log line (n is 0, which is no call's number), or a request
\* of the server, which counts its own numbers.
ServerTalks(n) ==
    /\ alive /\ noise < MaxNoise
    /\ stdout' = Append(stdout, Own(n))
    /\ noise' = noise + 1
    /\ UNCHANGED <<phase, ready, id, pending, reply, returned, stdin, torn, asked, alive, reader>>

ServerDies ==
    /\ alive
    /\ alive' = FALSE
    /\ UNCHANGED <<phase, ready, id, pending, reply, returned, stdin, torn, stdout, asked, noise, reader>>

Server ==
    \/ ServerReads
    \/ \E request \in asked, ok, again \in BOOLEAN : ServerAnswers(request, ok, again)
    \/ \E n \in 0..MaxCalls : ServerTalks(n)
    \/ ServerDies

-----------------------------------------------------------------------------
Next == Begin \/ Write \/ Receive \/ TimeOut \/ Abandon \/ DropClient \/ ReadLine \/ Server

\* tokio runs the client's tasks and its timer; nothing is asked of the server.
Fairness == WF_vars(Write) /\ WF_vars(Receive \/ TimeOut)

Spec == Init /\ [][Next]_vars /\ Fairness

-----------------------------------------------------------------------------
(* Properties *)

TypeOK ==
    /\ phase \in {"start", "idle", "writing", "waiting", "gone"}
    /\ {ready, torn, alive, reader} \subseteq BOOLEAN
    /\ id \in Nat
    /\ pending \subseteq 1..id /\ {request.id : request \in asked} \subseteq 1..id

\* The call that returns an answer, or has it in its channel, has the answer to
\* its own request, or a request of the server's own that bears its number: neither
\* a late answer to a call that timed out or was dropped, nor a second one, ever
\* reaches the call behind it; and the call under way has an entry in the table
\* until it has one of the two, so its answer is not missed.
AnswersMatch ==
    /\ Busy /\ reply # None => reply.id = id /\ reply.of \in {0, Call}
    /\ \A r \in ToSet(returned) : r.got # None => r.got.of \in {0, r.call}
    /\ Busy => reply # None \/ id \in pending

\* A call returns, unless the server has stopped reading and the pipe to it is
\* full: the 30 s do not cover the write.
Stuck == phase = "writing" /\ alive /\ Len(stdin) = PipeSize
CallReturns == Busy ~> (~Busy \/ Stuck)
=============================================================================
