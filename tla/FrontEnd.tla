------------------------------ MODULE FrontEnd ------------------------------
(***************************************************************************)
(* The terminal front end (crates/opca-cli/src/tui and run_tui in main.rs) *)
(* over RealOrchestrator: one loop that takes a key, a notification or a   *)
(* tick at a time, and one task per streamed answer, all of which send to  *)
(* the one channel of the App.  An event in it does not say whose answer   *)
(* it belongs to: what it does depends on the last item of the chat.       *)
(*                                                                         *)
(* Wording, colours, scrolling, the input area and the lines in a Task's   *)
(* panel are left out; a message is its number and what kind of line it is.*)
(***************************************************************************)
EXTENDS Naturals, SequencesExt, FiniteSetsExt

CONSTANTS
    MaxTyped,    \* bound: lines the user enters; a command counts for two
    MaxPieces,   \* bound: what the answers send before they end
    MaxTrouble   \* bound: Escs, notifications that print, streams that end silently

VARIABLES
    mode,        \* App.mode: "orchestrator" or "task"
    chat,        \* App.chat_items
    polling,     \* the loop is inside poll_stream
    working,     \* App.is_working
    queue,       \* App.pending_messages
    quit,        \* App.should_quit
    typed,       \* what was entered: the kind of each line
    handled,     \* history: the messages given to send_message, in order
    running,     \* the messages whose answer is being streamed
    channel,     \* stream_tx to stream_rx
    sent,        \* history: what each answer has said so far
    trouble,     \* counter for the bound
    silent,      \* history: the answers that ended without a word
    clean,       \* history: the answers that had the screen to themselves
    short        \* history: those with a dispatch or an error in them

userVars == <<mode, queue, quit, typed, handled>>
vars == <<userVars, chat, polling, working, running, channel, sent, trouble, silent, clean, short>>

Message == 1..MaxTyped
\* A question for the model, one about a Task, and commands: those that print
\* nothing (/expand, /collapse), those that do, and those that do more.
\* Control-C is a /quit that is never queued.
Kind == {"ask", "status", "quiet", "loud", "clear", "task", "back", "quit"}
Thought == "Thinking"
Said    == "Delta"
Final   == {"Done", "Error"}

Item(kind) == [kind |-> kind, text |-> <<>>]
System  == Item("SystemMessage")
User    == Item("UserMessage")
Panel   == Item("TaskPanel")
Failure == Item("Error")
Streaming == Item("StreamingAssistant")

Init ==
    /\ mode = "orchestrator" /\ chat = <<System>> /\ working = FALSE /\ polling = FALSE
    /\ queue = <<>> /\ quit = FALSE /\ typed = <<>> /\ handled = <<>>
    /\ running = {} /\ channel = <<>> /\ sent = [m \in Message |-> <<>>]
    /\ trouble = 0 /\ silent = {} /\ clean = {} /\ short = {}

\* The answers that may still put something on the screen.
Live == running \cup {e.of : e \in ToSet(channel)}

-----------------------------------------------------------------------------
(* poll_stream *)

LastIs(items, kind) == items # <<>> /\ Last(items).kind = kind
Become(items, kind) == [items EXCEPT ![Len(items)].kind = kind]
Overwrite(items, item) == Append(Front(items), item)
AddTo(items, piece) == [items EXCEPT ![Len(items)].text = Append(@, piece)]

\* Mutant: a dispatch or an error takes the last item, a thought or not.
NoSettling(items, item) == items

\* What every event but Thinking does first with the thought on the screen:
\* it stays, as ThinkingText, and a fresh item goes below it.
Settle(items, item) ==
    IF LastIs(items, "StreamingThinking")
    THEN Append(Become(items, "ThinkingText"), item) ELSE items

TakeThought(items, piece) ==
    LET turned == IF LastIs(items, "StreamingAssistant") /\ Last(items).text = <<>>
                  THEN Become(items, "StreamingThinking") ELSE items
    IN  AddTo(IF LastIs(turned, "StreamingThinking") THEN turned
              ELSE Append(turned, Item("StreamingThinking")), piece)

TakeText(items, piece) ==
    LET settled == Settle(items, Streaming)
    IN  IF LastIs(settled, "StreamingAssistant") THEN AddTo(settled, piece) ELSE settled

TakeDone(items) ==
    IF LastIs(items, "StreamingThinking") THEN Become(items, "ThinkingText")
    ELSE IF LastIs(items, "StreamingAssistant") THEN Become(items, "AssistantText")
    ELSE items

\* Mutant: an error does not end the work.
StopsOnDone(e) == e.kind \in {"Done", "Dispatch"}
Stops(e) == e.kind \notin {Thought, Said}

TakeError(items) == Overwrite(Settle(items, Failure), Failure)
TakeDispatch(items) == Append(Overwrite(Settle(items, System), System), Panel)

\* The chats one event can lead to: the Orchestrator may refuse a dispatch,
\* which is an error like any other.
Take(items, e) ==
    CASE e.kind = Thought    -> {TakeThought(items, e)}
      [] e.kind = Said       -> {TakeText(items, e)}
      [] e.kind = "Done"     -> {TakeDone(items)}
      [] e.kind = "Error"    -> {TakeError(items)}
      [] e.kind = "Dispatch" -> {TakeDispatch(items), TakeError(items)}

-----------------------------------------------------------------------------
(* handle_message and send_message *)

\* What message m leaves of the chat.
Shown(items, m) ==
    CASE typed'[m] \in {"quiet", "quit"} -> items
      [] typed'[m] = "clear" -> <<System>>
      [] typed'[m] \in {"loud", "task", "back"} -> Append(items, System)
      [] typed'[m] \in {"ask", "status"} /\ mode = "task" -> Append(items, User)
      [] typed'[m] = "status" /\ mode # "task" -> items \o <<User, System>>
      [] typed'[m] = "ask" /\ mode # "task" -> items \o <<User, Streaming>>

\* send_message looks at the chat, not at the message it sends.
WantsAnswer(items) == LastIs(items, "StreamingAssistant")

\* send_message(m), which nobody calls while the App works.
SendMessage(m) ==
    /\ handled' = Append(handled, m)
    /\ chat' = Shown(chat, m)
    /\ working' = (typed'[m] = "ask" /\ mode # "task")
    /\ mode' = CASE typed'[m] = "task" -> "task"
                 [] typed'[m] = "back" -> "orchestrator"
                 [] OTHER -> mode
    /\ quit' = (typed'[m] = "quit")
    /\ running' = running \cup (IF WantsAnswer(chat') THEN {m} ELSE {})
    /\ clean' = CASE typed'[m] = "clear" -> {}
                  [] typed'[m] # "clear" /\ Live # {} /\ m \in running' -> clean \ Live
                  [] typed'[m] = "ask" /\ Live = {} -> clean \cup (running' \cap {m})
                  [] OTHER -> clean

-----------------------------------------------------------------------------
(* The loop: a key, a notification or a tick *)

\* Enter.  While the App works the line is queued, a command or not.
Enter(kind) ==
    /\ ~quit /\ ~polling
    /\ typed' = Append(typed, kind)
    /\ Len(typed') + Cardinality({i \in DOMAIN typed' : typed'[i] # "ask"}) <= MaxTyped
    /\ LET m == Len(typed) + 1
       IN  \/ /\ working
              /\ queue' = Append(queue, m)
              /\ UNCHANGED <<mode, quit, handled, chat, working, running, clean>>
           \/ /\ ~working
              /\ SendMessage(m)
              /\ UNCHANGED queue
    /\ UNCHANGED <<polling, channel, sent, trouble, silent, short>>

\* Esc does not stop the answer, only the waiting for it.
Escape ==
    /\ ~quit /\ ~polling /\ working /\ trouble < MaxTrouble
    /\ trouble' = trouble + 1
    /\ working' = FALSE
    /\ clean' = clean \ Live
    /\ UNCHANGED <<userVars, chat, polling, running, channel, sent, silent, short>>

\* Completed and Clarification print a line; StatusChanged only touches a panel.
Notified ==
    /\ ~quit /\ ~polling /\ trouble < MaxTrouble
    /\ trouble' = trouble + 1
    /\ chat' = Append(chat, System)
    /\ clean' = clean \ Live
    /\ UNCHANGED <<userVars, polling, working, running, channel, sent, silent, short>>

\* Mutant: the first of the queue is sent and left there.
QueueKept == queue
QueueRest == Tail(queue)

\* One turn of poll_stream.  The answers go on meanwhile: what they send now is
\* taken in the same tick.
PollStream ==
    /\ ~quit /\ channel # <<>>
    /\ polling' = TRUE
    /\ LET e == Head(channel)
       IN  /\ chat' \in Take(chat, e)
           /\ working' = (working /\ ~Stops(e))
           /\ short' = short \cup (IF e.kind \in {"Dispatch", "Error"} THEN {e.of} ELSE {})
    /\ channel' = Tail(channel)
    /\ UNCHANGED <<userVars, running, sent, trouble, silent, clean>>

\* With the channel empty, the first of the queue if nothing is being worked on.
SendQueued ==
    /\ ~quit /\ channel = <<>>
    /\ polling' = FALSE
    /\ UNCHANGED <<typed, channel, sent, trouble, silent, short>>
    /\ \/ /\ ~working /\ queue # <<>>
          /\ SendMessage(Head(queue))
          /\ queue' = QueueRest
       \/ /\ working \/ queue = <<>>
          /\ UNCHANGED <<mode, queue, quit, handled, chat, working, running, clean>>

Tick == PollStream \/ SendQueued

-----------------------------------------------------------------------------
(* The task of stream_foreground *)

Spoken == FoldFunction(LAMBDA said, n : n + Len(said), 0, sent)

Put(m, kind) == channel' = Append(channel, [kind |-> kind, of |-> m, n |-> Len(sent[m]) + 1])

\* A piece of text or thought; a whole call of dispatch_task, of which only the
\* end sends anything: its task, or an error if the arguments do not parse, and
\* then the stream goes on.
Emit(m, kind) ==
    /\ ~quit /\ m \in running /\ Spoken < MaxPieces
    /\ Put(m, kind)
    /\ sent' = [sent EXCEPT ![m] = Append(@, kind)]
    /\ UNCHANGED <<userVars, chat, polling, working, running, trouble, silent, clean, short>>

\* The provider's Done, or an error of the request or of the stream.
Finish(m, kind) ==
    /\ ~quit /\ m \in running
    /\ Put(m, kind)
    /\ running' = running \ {m}
    /\ UNCHANGED <<userVars, chat, polling, working, sent, trouble, silent, clean, short>>

\* The stream ends without Done, for one after a ProviderEvent::Error, which is
\* ignored: nothing tells the App.
EndSilently(m) ==
    /\ ~quit /\ m \in running /\ trouble < MaxTrouble
    /\ trouble' = trouble + 1
    /\ running' = running \ {m}
    /\ silent' = silent \cup {m}
    /\ clean' = clean \ {m}
    /\ UNCHANGED <<userVars, chat, polling, working, channel, sent, short>>

Answer(m) ==
    \/ \E kind \in {Said, Thought, "Dispatch", "Error"} : Emit(m, kind)
    \/ \E kind \in Final : Finish(m, kind)
    \/ EndSilently(m)

-----------------------------------------------------------------------------
Next ==
    \/ \E kind \in Kind : Enter(kind)
    \/ Escape
    \/ Notified
    \/ Tick
    \/ \E m \in Message : Answer(m)

\* The loop polls every 50 ms when the user and the Tasks are quiet; a provider
\* ends an answer it has begun, however it does.
Fairness ==
    /\ WF_vars(Tick)
    /\ \A m \in Message : WF_vars(\E kind \in Final : Finish(m, kind))

-----------------------------------------------------------------------------
(* Properties *)

\* Every line that was entered is given to send_message exactly once or waits
\* in the queue, whatever Esc, the answers and the notifications do, and the
\* queue is in the order of typing.
TypedIsHandled ==
    /\ IsInjective(handled \o queue)
    /\ ToSet(handled \o queue) = 1..Len(typed)
    /\ \A i, j \in 1..Len(queue) : i < j => queue[i] < queue[j]

\* What a reader comes upon: the texts of the chat, then the channel.
Reading == Append([i \in DOMAIN chat |-> chat[i].text], channel)

\* Each answer's pieces are in the order of sending, and none is there twice.
InOrder(texts) ==
    \A i, k \in DOMAIN texts : \A j \in DOMAIN texts[i], l \in DOMAIN texts[k] :
        (i < k \/ (i = k /\ j < l)) /\ texts[i][j].of = texts[k][l].of
            => texts[i][j].n < texts[k][l].n

\* Of m's answer, what is of these kinds is there.
Holds(texts, m, kinds) ==
    \A n \in DOMAIN sent[m] : sent[m][n] \in kinds =>
        \E text \in ToSet(texts) : [kind |-> sent[m][n], of |-> m, n |-> n] \in ToSet(text)

\* Hazard: thought and text come in any order, from several answers, and each
\* event decides by the last item of the chat alone.  No thought is ever shown in
\* an answer and no text in a thought; what is shown was sent, in that order and
\* once; and an answer that had the screen to itself (no other answer under way,
\* nothing printed meanwhile, no Esc) is there whole, thoughts between the text
\* included; a dispatch or an error replaces text, never a thought
\* (openspec/specs/tui-interface/spec.md:123-139 and :184-190).
ReplyIsWhole ==
    LET texts == Reading
    IN  /\ \A item \in ToSet(chat) : \A e \in ToSet(item.text) :
              /\ item.kind \in (IF e.kind = Thought THEN {"StreamingThinking", "ThinkingText"}
                                ELSE {"StreamingAssistant", "AssistantText"})
              /\ e.n \in DOMAIN sent[e.of] /\ sent[e.of][e.n] = e.kind
        /\ InOrder(texts)
        /\ \A m \in clean : Holds(texts, m, IF m \in short THEN {Thought} ELSE {Said, Thought})

\* The queue drains, unless an answer has ended without a word: then nothing
\* but Esc ends the work (openspec/specs/tui-interface/spec.md:172).
QueueDrains == (queue # <<>>) ~> (queue = <<>> \/ silent # {} \/ quit)
=============================================================================
