--------------------------- MODULE ProviderStream ---------------------------
(***************************************************************************)
(* One streamed reply: the server's events, the parser of each dialect     *)
(* (provider/openai.rs, anthropic.rs, gemini.rs) and Task::collect_stream  *)
(* (task/run.rs), which turns them into tool calls.  Parser and collector  *)
(* are joined by a channel with one writer and one reader, so they are     *)
(* taken together: a server event yields the provider events at once.      *)
(*                                                                         *)
(* Arguments arrive in two pieces; a piece is <<index, half>>, so that one *)
(* that lands in another call can be told.  Text deltas are left out.      *)
(***************************************************************************)
EXTENDS Naturals, Sequences, SequencesExt

CONSTANTS
    Calls,       \* what the model may call: records [tool, arg]
    MaxCalls,    \* bound: calls in one reply
    Dialects     \* which of "openai", "anthropic", "gemini" to consider

ASSUME ProviderStreamAssumption ==
    /\ MaxCalls \in Nat
    /\ Dialects \subseteq {"openai", "anthropic", "gemini"}

VARIABLES
    dialect,     \* the provider the Task was given
    said,        \* the calls the model means to make, by index
    sent,        \* per index: 0, 1 started, 2 first half, 3 whole, 4 stopped
    current,     \* openai: current_index, 0 for None
    open,        \* openai: open_indices; anthropic: index_to_tool_id
    got,         \* the collector: in_flight and tool_calls
    end,         \* "open", "done" or "failed"; "closed" when it was taken up
    straight     \* history: no piece came after a later call began

streamVars == <<said, sent, current, open, got, end, straight>>

Index  == 1..MaxCalls
Reply  == UNION {[1..n -> Calls] : n \in 0..MaxCalls}
NoArg  == "none"     \* `{}`, what unparsable arguments become
Nothing == [flight |-> <<>>, calls |-> <<>>]

\* provider.stream(): the request is accepted and the parser's task spawned.
Open(reply) ==
    /\ said' = reply
    /\ sent' = [i \in Index |-> 0]
    /\ current' = 0 /\ open' = <<>> /\ got' = Nothing
    /\ end' = "open" /\ straight' = TRUE

-----------------------------------------------------------------------------
(* Task::collect_stream, event by event *)

Started(g, i) ==
    [g EXCEPT !.flight = [j \in DOMAIN g.flight \cup {i} |->
                            IF j = i THEN <<>> ELSE g.flight[j]]]

\* Pieces for a call that is not in flight are dropped.
WithPiece(g, i, p) ==
    IF i \in DOMAIN g.flight
      THEN [g EXCEPT !.flight = [g.flight EXCEPT ![i] = Append(@, p)]] ELSE g

\* serde_json::from_str(raw).unwrap_or({}): all of one call's text, or nothing.
Parsed(raw) ==
    IF \E j \in Index : raw = <<<<j, 1>>, <<j, 2>>>>
      THEN said[raw[1][1]].arg ELSE NoArg

Ended(g, i) ==
    IF i \notin DOMAIN g.flight THEN g
    ELSE [flight |-> [j \in DOMAIN g.flight \ {i} |-> g.flight[j]],
          calls  |-> Append(g.calls, [index |-> i, tool |-> said[i].tool,
                                      arg |-> Parsed(g.flight[i])])]

-----------------------------------------------------------------------------
(* The server and the parsers *)

Begun == {i \in DOMAIN said : sent[i] > 0}
InLine(i) == \A j \in Begun : j <= i

\* openai: an event of another call than the current one ends the current one.
Displaced(i) == current \notin {0, i} /\ Contains(open, current)
AfterSwitch(i) == IF Displaced(i) THEN Ended(got, current) ELSE got
StillOpen(i) == IF Displaced(i) THEN RemoveFirst(open, current) ELSE open

\* Calls begin in the order of their indices.
MayBegin(i) == end = "open" /\ sent[i] = 0 /\ \A j \in 1..(i - 1) : sent[j] > 0
Sends(i, stage) == sent' = [sent EXCEPT ![i] = stage]
MayGoOn(i) == end = "open" /\ sent[i] \in {1, 2}

\* openai: a delta with id and name; one with arguments only.
ToolCallStart(i) ==
    /\ dialect = "openai" /\ MayBegin(i) /\ Sends(i, 1)
    /\ got' = Started(AfterSwitch(i), i)
    /\ open' = Append(StillOpen(i), i)
    /\ current' = i
    /\ UNCHANGED <<said, end, straight>>

ToolCallArgs(i) ==
    /\ dialect = "openai" /\ MayGoOn(i) /\ Sends(i, sent[i] + 1)
    /\ got' = WithPiece(AfterSwitch(i), i, <<i, sent[i]>>)
    /\ open' = StillOpen(i)
    /\ straight' = (straight /\ InLine(i))
    /\ UNCHANGED <<said, current, end>>

\* anthropic: content_block_start, content_block_delta, content_block_stop.
BlockStart(i) ==
    /\ dialect = "anthropic" /\ MayBegin(i) /\ Sends(i, 1)
    /\ got' = Started(got, i)
    /\ open' = Append(open, i)
    /\ UNCHANGED <<said, current, end, straight>>

BlockDelta(i) ==
    /\ dialect = "anthropic" /\ MayGoOn(i) /\ Sends(i, sent[i] + 1)
    /\ got' = WithPiece(got, i, <<i, sent[i]>>)
    /\ straight' = (straight /\ InLine(i))
    /\ UNCHANGED <<said, open, current, end>>

BlockStop(i) ==
    /\ dialect = "anthropic" /\ end = "open" /\ sent[i] = 3 /\ Sends(i, 4)
    /\ got' = Ended(got, i)
    /\ open' = RemoveFirst(open, i)
    /\ straight' = (straight /\ InLine(i))
    /\ UNCHANGED <<said, current, end>>

\* gemini: a functionCall part is a whole call.
FunctionCall(i) ==
    /\ dialect = "gemini" /\ MayBegin(i) /\ Sends(i, 3)
    /\ got' = Ended(WithPiece(WithPiece(Started(got, i), i, <<i, 1>>), i, <<i, 2>>), i)
    /\ UNCHANGED <<said, current, open, end, straight>>

AllSent == \A i \in DOMAIN said : sent[i] = (IF dialect = "anthropic" THEN 4 ELSE 3)

\* Mutant: a call that is still open at the end of the reply is forgotten.
ClosedNone == got

\* close_tool_calls; the other dialects drop what is in flight.
Closed == IF dialect = "openai" THEN FoldLeft(Ended, got, open) ELSE got

\* finish_reason, [DONE], message_stop, finishReason; or the connection ends
\* before them, which every dialect takes for the end of the reply.
Done ==
    /\ end = "open"
    /\ got' = Closed /\ end' = "done"
    /\ UNCHANGED <<said, sent, current, open, straight>>

\* An API error or a broken event stream.
Fail ==
    /\ end = "open"
    /\ end' = "failed"
    /\ UNCHANGED <<said, sent, current, open, got, straight>>

Arrives ==
    \/ \E i \in DOMAIN said :
          \/ ToolCallStart(i) \/ ToolCallArgs(i)
          \/ BlockStart(i) \/ BlockDelta(i) \/ BlockStop(i)
          \/ FunctionCall(i)
    \/ Done \/ Fail

-----------------------------------------------------------------------------

\* Hazard: the pieces of two calls may be mixed on the wire, and the reply may
\* be cut.  Whatever happens, every collected call is one the model made, once,
\* in the order of its beginning unless blocks were mixed, and its arguments
\* are all of its own or none, never part of another's; and a reply that was
\* sent whole, one call after another, is collected whole (openai.rs 194-360,
\* run.rs collect_stream).
ReplyCollected ==
    /\ \A k \in DOMAIN got.calls :
         LET c == got.calls[k] IN
         /\ c.index \in DOMAIN said /\ c.tool = said[c.index].tool
         /\ c.arg \in {said[c.index].arg, NoArg}
         /\ \A l \in 1..(k - 1) :
               got.calls[l].index # c.index
               /\ ((end # "closed" /\ straight) \/ dialect = "openai" => got.calls[l].index < c.index)
    /\ (end = "done" /\ AllSent /\ straight) =>
         [k \in DOMAIN got.calls |-> got.calls[k].arg] = [i \in DOMAIN said |-> said[i].arg]
=============================================================================
