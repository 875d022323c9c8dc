----------------------------- MODULE MainProofs -----------------------------
(***************************************************************************)
(* Three invariants of the front ends for any number of lines, answers,    *)
(* Tasks and chains: the terminal interface loses and repeats no line and  *)
(* shows an answer whole, and the mock settles no delivery twice.          *)
(***************************************************************************)
EXTENDS Main, FiniteSetTheorems, SequenceTheorems, TLAPS

-----------------------------------------------------------------------------
(* The lines of the terminal interface *)

Sorted(s) == \A i, j \in 1..Len(s) : i < j => s[i] < s[j]
Distinct(s) == \A i, j \in 1..Len(s) : s[i] = s[j] => i = j

\* The strengthening: what TypedIsHandled says, of the two sequences apart.
Lines ==
    /\ typed \in Seq(Kind) /\ handled \in Seq(Nat) /\ queue \in Seq(Nat)
    /\ Distinct(handled) /\ Sorted(queue)
    /\ \A i \in 1..Len(handled), j \in 1..Len(queue) : handled[i] # queue[j]
    /\ \A i \in 1..Len(handled) : handled[i] \in 1..Len(typed)
    /\ \A j \in 1..Len(queue) : queue[j] \in 1..Len(typed)
    /\ \A n \in 1..Len(typed) : \/ \E i \in 1..Len(handled) : handled[i] = n
                                \/ \E j \in 1..Len(queue) : queue[j] = n

\* One sequence that is the two in a row.
LEMMA LinesImply == Lines => TypedIsHandled
  <1> SUFFICES ASSUME Lines PROVE TypedIsHandled
    OBVIOUS
  <1> DEFINE s == handled \o queue
             h == Len(handled)
             q == Len(queue)
  <1>1. /\ h \in Nat /\ q \in Nat /\ DOMAIN s = 1..(h + q)
        /\ \A i \in 1..h : s[i] = handled[i]
        /\ \A j \in 1..q : s[h + j] = queue[j]
    BY DEF Lines
  <1>2. \A i \in 1..(h + q) : i \in 1..h \/ \E j \in 1..q : i = h + j
    <2> SUFFICES ASSUME NEW i \in 1..(h + q), i \notin 1..h
                 PROVE  i - h \in 1..q /\ i = h + (i - h)
      OBVIOUS
    <2> QED
      BY <1>1
  <1> HIDE DEF s
  <1>3. IsInjective(s)
    <2> SUFFICES ASSUME NEW a \in 1..(h + q), NEW b \in 1..(h + q), s[a] = s[b]
                 PROVE  a = b
      BY <1>1 DEF IsInjective
    <2>1. CASE a \in 1..h /\ b \in 1..h
      BY <1>1, <2>1 DEF Lines, Distinct
    <2>2. ASSUME NEW i \in 1..q, NEW j \in 1..q, a = h + i, b = h + j
          PROVE  a = b
      <3>1. queue[i] = queue[j] /\ queue[i] \in Nat /\ i \in Nat /\ j \in Nat
        BY <1>1, <2>2 DEF Lines
      <3>2. ~(i < j) /\ ~(j < i)
        BY <3>1 DEF Lines, Sorted
      <3> QED
        BY <2>2, <3>1, <3>2
    <2>3. ASSUME NEW i \in 1..h, NEW j \in 1..q
          PROVE  s[i] # s[h + j]
      BY <1>1, <2>3 DEF Lines
    <2> QED
      BY <1>2, <2>1, <2>2, <2>3
  <1>4. ToSet(s) = 1..Len(typed)
    <2>1. ASSUME NEW a \in 1..(h + q) PROVE s[a] \in 1..Len(typed)
      <3>1. /\ \A i \in 1..h : handled[i] \in 1..Len(typed)
            /\ \A j \in 1..q : queue[j] \in 1..Len(typed)
        BY DEF Lines
      <3>2. a \in 1..h \/ \E j \in 1..q : a = h + j
        BY <1>2
      <3> HIDE DEF h, q
      <3> QED
        BY <1>1, <3>1, <3>2
    <2>2. ASSUME NEW n \in 1..Len(typed) PROVE \E a \in 1..(h + q) : s[a] = n
      <3>1. CASE \E i \in 1..h : handled[i] = n
        BY <1>1, <3>1
      <3>2. ASSUME NEW j \in 1..q, queue[j] = n
            PROVE  h + j \in 1..(h + q) /\ s[h + j] = n
        BY <1>1, <3>2
      <3> QED
        BY <3>1, <3>2 DEF Lines
    <2> QED
      BY <1>1, <2>1, <2>2 DEF ToSet
  <1> QED
    BY <1>3, <1>4 DEF s, TypedIsHandled, Lines, Sorted

\* What is new at the end of a sequence keeps it distinct, and apart from
\* another.
LEMMA AppendDistinct ==
    ASSUME NEW s \in Seq(Nat), NEW m \in Nat, Distinct(s),
           \A i \in 1..Len(s) : s[i] # m
    PROVE  Distinct(Append(s, m))
  <1>1. /\ Len(Append(s, m)) = Len(s) + 1
        /\ \A i \in 1..Len(s) : Append(s, m)[i] = s[i]
        /\ Append(s, m)[Len(s) + 1] = m
        /\ \A i \in 1..(Len(s) + 1) : i \in 1..Len(s) \/ i = Len(s) + 1
    OBVIOUS
  <1> QED
    BY <1>1 DEF Distinct

\* What is new at the end of one sequence and not in the other keeps them apart.
LEMMA AppendApart ==
    ASSUME NEW s \in Seq(Nat), NEW m \in Nat, NEW r \in Seq(Nat),
           \A j \in 1..Len(r) : r[j] # m,
           \A i \in 1..Len(s), j \in 1..Len(r) : s[i] # r[j]
    PROVE  \A i \in 1..Len(Append(s, m)), j \in 1..Len(r) : Append(s, m)[i] # r[j]
  <1>1. /\ Len(Append(s, m)) = Len(s) + 1
        /\ \A i \in 1..Len(s) : Append(s, m)[i] = s[i]
        /\ Append(s, m)[Len(s) + 1] = m
        /\ \A i \in 1..(Len(s) + 1) : i \in 1..Len(s) \/ i = Len(s) + 1
    OBVIOUS
  <1> QED
    BY <1>1

\* A line that is entered is the newest, wherever it goes.
LEMMA EnterLines ==
    ASSUME Lines, NEW kind \in Kind, Enter(kind)
    PROVE  Lines'
  <1> DEFINE m == Len(typed) + 1
  <1>1. /\ typed' \in Seq(Kind) /\ Len(typed') = m /\ m \in Nat
        /\ 1..Len(typed') = 1..Len(typed) \cup {m}
        /\ \A n \in 1..Len(typed) : n < m
    BY DEF Lines, Enter
  <1>2. CASE queue' = Append(queue, m) /\ handled' = handled
    <2>1. /\ queue' \in Seq(Nat) /\ Len(queue') = Len(queue) + 1
          /\ \A j \in 1..Len(queue) : queue'[j] = queue[j]
          /\ queue'[Len(queue) + 1] = m
          /\ \A j \in 1..Len(queue') : j \in 1..Len(queue) \/ j = Len(queue) + 1
      BY <1>1, <1>2 DEF Lines
    <2> HIDE DEF m
    <2>2. Sorted(queue')
      <3> SUFFICES ASSUME NEW i \in 1..Len(queue'), NEW j \in 1..Len(queue'), i < j
                   PROVE  queue'[i] < queue'[j]
        BY DEF Sorted
      <3>1. i \in 1..Len(queue)
        BY <2>1
      <3>2. CASE j \in 1..Len(queue)
        BY <2>1, <3>1, <3>2 DEF Lines, Sorted
      <3>3. CASE j = Len(queue) + 1
        BY <1>1, <2>1, <3>1, <3>3 DEF Lines
      <3> QED
        BY <2>1, <3>2, <3>3
    <2>3. \A i \in 1..Len(handled), j \in 1..Len(queue') : handled[i] # queue'[j]
      <3>1. /\ \A i \in 1..Len(handled) : handled[i] \in Nat /\ handled[i] # m
            /\ \A j \in 1..Len(queue), i \in 1..Len(handled) : queue[j] # handled[i]
            /\ queue \in Seq(Nat) /\ handled \in Seq(Nat)
        BY <1>1 DEF Lines
      <3>2. \A j \in 1..Len(Append(queue, m)), i \in 1..Len(handled) :
               Append(queue, m)[j] # handled[i]
        BY <1>1, <3>1, AppendApart
      <3> QED
        BY <1>2, <3>2 DEF m
    <2>4. \A n \in 1..Len(typed') : \/ \E i \in 1..Len(handled) : handled[i] = n
                                    \/ \E j \in 1..Len(queue') : queue'[j] = n
      <3> SUFFICES ASSUME NEW n \in 1..Len(typed')
                   PROVE  \/ \E i \in 1..Len(handled) : handled[i] = n
                          \/ \E j \in 1..Len(queue') : queue'[j] = n
        OBVIOUS
      <3>1. Len(queue) + 1 \in 1..Len(queue') /\ 1..Len(queue) \subseteq 1..Len(queue')
        BY <2>1 DEF Lines
      <3>2. CASE n = m
        BY <2>1, <3>1, <3>2
      <3>3. CASE n \in 1..Len(typed)
        BY <2>1, <3>1, <3>3 DEF Lines
      <3> QED
        BY <1>1, <3>2, <3>3
    <2>5. /\ \A i \in 1..Len(handled) : handled[i] \in 1..Len(typed')
          /\ \A j \in 1..Len(queue') : queue'[j] \in 1..Len(typed')
      BY <1>1, <2>1 DEF Lines
    <2>6. handled' = handled /\ typed' \in Seq(Kind) /\ queue' \in Seq(Nat)
      BY <1>1, <1>2, <2>1
    <2>7. handled \in Seq(Nat) /\ Distinct(handled)
      BY DEF Lines
    <2> QED
      BY <2>2, <2>3, <2>4, <2>5, <2>6, <2>7 DEF Lines
  <1>3. CASE handled' = Append(handled, m) /\ queue' = queue
    <2>1. /\ handled' \in Seq(Nat) /\ Len(handled') = Len(handled) + 1
          /\ \A i \in 1..Len(handled) : handled'[i] = handled[i]
          /\ handled'[Len(handled) + 1] = m
          /\ \A i \in 1..Len(handled') : i \in 1..Len(handled) \/ i = Len(handled) + 1
      BY <1>1, <1>3 DEF Lines
    <2> HIDE DEF m
    <2>m. handled' = Append(handled, m)
      BY <1>3 DEF m
    <2>n. /\ handled \in Seq(Nat) /\ queue \in Seq(Nat) /\ Distinct(handled)
          /\ \A i \in 1..Len(handled) : handled[i] # m
          /\ \A j \in 1..Len(queue) : queue[j] # m
          /\ \A i \in 1..Len(handled), j \in 1..Len(queue) : handled[i] # queue[j]
      BY <1>1 DEF Lines
    <2>2. Distinct(handled')
      BY <1>1, <2>m, <2>n, AppendDistinct
    <2>3. \A i \in 1..Len(handled'), j \in 1..Len(queue) : handled'[i] # queue[j]
      BY <1>1, <2>m, <2>n, AppendApart
    <2>4. \A n \in 1..Len(typed') : \/ \E i \in 1..Len(handled') : handled'[i] = n
                                    \/ \E j \in 1..Len(queue) : queue[j] = n
      <3> SUFFICES ASSUME NEW n \in 1..Len(typed')
                   PROVE  \/ \E i \in 1..Len(handled') : handled'[i] = n
                          \/ \E j \in 1..Len(queue) : queue[j] = n
        OBVIOUS
      <3>1. Len(handled) + 1 \in 1..Len(handled') /\ 1..Len(handled) \subseteq 1..Len(handled')
        BY <2>1 DEF Lines
      <3>2. CASE n = m
        BY <2>1, <3>1, <3>2
      <3>3. CASE n \in 1..Len(typed)
        BY <2>1, <3>1, <3>3 DEF Lines
      <3> QED
        BY <1>1, <3>2, <3>3
    <2>5. /\ \A i \in 1..Len(handled') : handled'[i] \in 1..Len(typed')
          /\ \A j \in 1..Len(queue) : queue[j] \in 1..Len(typed')
      BY <1>1, <2>1 DEF Lines
    <2>6. /\ queue' = queue /\ typed' \in Seq(Kind) /\ handled' \in Seq(Nat)
          /\ queue \in Seq(Nat) /\ Sorted(queue)
      BY <1>1, <1>3, <2>1 DEF Lines
    <2> QED
      BY <2>2, <2>3, <2>4, <2>5, <2>6 DEF Lines
  <1> QED
    BY <1>2, <1>3 DEF Enter, SendMessage

\* A tick hands the first of the queue over, or leaves both as they are.
LEMMA TickLines ==
    ASSUME Lines, Tick
    PROVE  Lines'
  <1>1. typed' = typed
    BY Zenon DEF Tick, PollStream, SendQueued, userVars
  <1>2. CASE queue # <<>> /\ handled' = Append(handled, Head(queue)) /\ queue' = Tail(queue)
    <2> DEFINE m == Head(queue)
    <2>1. /\ queue' \in Seq(Nat) /\ Len(queue') \in Nat /\ Len(queue) = Len(queue') + 1
          /\ \A j \in 1..Len(queue') : queue'[j] = queue[j + 1] /\ j + 1 \in 1..Len(queue)
          /\ m = queue[1] /\ 1 \in 1..Len(queue) /\ m \in Nat
      BY <1>2 DEF Lines
    <2>2. /\ handled' \in Seq(Nat) /\ Len(handled') = Len(handled) + 1
          /\ \A i \in 1..Len(handled) : handled'[i] = handled[i]
          /\ handled'[Len(handled) + 1] = m
          /\ \A i \in 1..Len(handled') : i \in 1..Len(handled) \/ i = Len(handled) + 1
      BY <1>2, <2>1 DEF Lines
    <2> HIDE DEF m
    <2>3. \A j \in 1..Len(queue') : m < queue'[j]
      <3> SUFFICES ASSUME NEW j \in 1..Len(queue') PROVE queue[1] < queue[j + 1]
        BY <2>1
      <3>1. 1 < j + 1 /\ j + 1 \in 1..Len(queue)
        BY <2>1
      <3> QED
        BY <2>1, <3>1 DEF Lines, Sorted
    <2>4. Sorted(queue')
      <3> SUFFICES ASSUME NEW i \in 1..Len(queue'), NEW j \in 1..Len(queue'), i < j
                   PROVE  queue[i + 1] < queue[j + 1]
        BY <2>1 DEF Sorted
      <3>1. i + 1 < j + 1 /\ i + 1 \in 1..Len(queue) /\ j + 1 \in 1..Len(queue)
        BY <2>1
      <3> QED
        BY <3>1 DEF Lines, Sorted
    <2>m. handled' = Append(handled, m)
      BY <1>2 DEF m
    <2>n. /\ handled \in Seq(Nat) /\ Distinct(handled)
          /\ \A i \in 1..Len(handled) : handled[i] # m
      BY <2>1 DEF Lines
    <2>o. \A j \in 1..Len(queue') : queue'[j] # m
      <3> SUFFICES ASSUME NEW j \in 1..Len(queue') PROVE queue'[j] # m
        OBVIOUS
      <3>1. queue'[j] \in Nat /\ m < queue'[j]
        BY <2>1, <2>3
      <3> QED
        BY <2>1, <3>1
    <2>p. \A i \in 1..Len(handled), j \in 1..Len(queue') : handled[i] # queue'[j]
      <3>1. \A j \in 1..Len(queue') : queue'[j] = queue[j + 1] /\ j + 1 \in 1..Len(queue)
        BY <2>1
      <3>2. \A i \in 1..Len(handled), j \in 1..Len(queue) : handled[i] # queue[j]
        BY DEF Lines
      <3> QED
        BY <3>1, <3>2
    <2>5. Distinct(handled')
      BY <2>1, <2>m, <2>n, AppendDistinct
    <2>6. \A i \in 1..Len(handled'), j \in 1..Len(queue') : handled'[i] # queue'[j]
      <3>1. m \in Nat /\ queue' \in Seq(Nat)
        BY <2>1
      <3> QED
        BY <2>m, <2>n, <2>o, <2>p, <3>1, AppendApart
    <2>7. /\ \A i \in 1..Len(handled') : handled'[i] \in 1..Len(typed)
          /\ \A j \in 1..Len(queue') : queue'[j] \in 1..Len(typed)
      BY <2>1, <2>2 DEF Lines
    <2>8. \A n \in 1..Len(typed) : \/ \E i \in 1..Len(handled') : handled'[i] = n
                                   \/ \E j \in 1..Len(queue') : queue'[j] = n
      <3> SUFFICES ASSUME NEW n \in 1..Len(typed)
                   PROVE  \/ \E i \in 1..Len(handled') : handled'[i] = n
                          \/ \E j \in 1..Len(queue') : queue'[j] = n
        OBVIOUS
      <3>1. Len(handled) + 1 \in 1..Len(handled') /\ 1..Len(handled) \subseteq 1..Len(handled')
        BY <2>2 DEF Lines
      <3>2. CASE n = m
        BY <2>2, <3>1, <3>2
      <3>3. CASE \E i \in 1..Len(handled) : handled[i] = n
        BY <2>2, <3>1, <3>3
      <3>4. ASSUME NEW j \in 1..Len(queue), queue[j] = n, n # m
            PROVE  j - 1 \in 1..Len(queue') /\ queue'[j - 1] = n
        <4>1. j # 1
          BY <2>1, <3>4
        <4>2. j - 1 \in 1..Len(queue') /\ (j - 1) + 1 = j
          BY <2>1, <4>1
        <4> QED
          BY <2>1, <3>4, <4>2
      <3> QED
        BY <3>2, <3>3, <3>4 DEF Lines
    <2> QED
      BY <1>1, <2>1, <2>2, <2>4, <2>5, <2>6, <2>7, <2>8 DEF Lines
  <1>3. CASE UNCHANGED <<queue, handled>>
    BY <1>1, <1>3 DEF Lines, Sorted, Distinct
  <1>4. \/ UNCHANGED <<queue, handled>>
        \/ queue # <<>> /\ handled' = Append(handled, Head(queue)) /\ queue' = Tail(queue)
    BY Zenon DEF Tick, PollStream, SendQueued, SendMessage, QueueRest, userVars
  <1> QED
    BY <1>2, <1>3, <1>4

\* No step of the two front ends loses, repeats or reorders a line.
LEMMA StepLines == Lines /\ [MainNext]_<<mock, vars, replVars>> => Lines'
  <1> SUFFICES ASSUME Lines, [MainNext]_<<mock, vars, replVars>> PROVE Lines'
    OBVIOUS
  <1>1. CASE UNCHANGED <<typed, handled, queue>>
    BY <1>1 DEF Lines, Sorted, Distinct
  <1>2. ASSUME NEW m \in Message, Answer(m)
        PROVE  UNCHANGED <<typed, handled, queue>>
    BY <1>2, Zenon DEF Answer, Emit, Finish, EndSilently, userVars
  <1>3. CASE Escape \/ Notified
    BY <1>1, <1>3, Zenon DEF Escape, Notified, userVars
  <1> QED
    BY <1>1, <1>2, <1>3, EnterLines, TickLines DEF MainNext, Next, vars, userVars

\* Whatever Esc, notifications and the streams do meanwhile, each line that is
\* entered is handled once or still waits, in the order of typing (App's
\* pending_messages).
THEOREM TypedHandled == MainSpec => []TypedIsHandled
  <1>1. MainInit => Lines
    BY DEF MainInit, Init, Lines, Sorted, Distinct
  <1> QED
    BY <1>1, StepLines, LinesImply, PTL DEF MainSpec

-----------------------------------------------------------------------------
(* The answers on the screen *)

EventKind == {Thought, Said, "Dispatch", "Error", "Done"}
Event == [kind : EventKind, of : Message, n : Nat]
Thinks == {"StreamingThinking", "ThinkingText"}
Speaks == {"StreamingAssistant", "AssistantText"}
ChatItem == [kind : Thinks \cup Speaks \cup {"SystemMessage", "UserMessage", "TaskPanel", "Error"},
             text : Seq(Event)]

\* The last item of a chat, and what the events of an answer decide by.
End(c) == c[Len(c)]
Streams(c) == End(c).kind \in {"StreamingAssistant", "StreamingThinking"}

\* Texts of the chat c, the one at place j of item i before the one at l of k.
Fits(c) == \A i \in 1..Len(c) : \A j \in 1..Len(c[i].text) :
              c[i].kind \in (IF c[i].text[j].kind = Thought THEN Thinks ELSE Speaks)
Before(i, j, k, l) == i < k \/ (i = k /\ j < l)
Rises(c) == \A i, k \in 1..Len(c) : \A j \in 1..Len(c[i].text), l \in 1..Len(c[k].text) :
               Before(i, j, k, l) /\ c[i].text[j].of = c[k].text[l].of
                  => c[i].text[j].n < c[k].text[l].n
Precedes(c, q) == \A i \in 1..Len(c) : \A j \in 1..Len(c[i].text) : \A l \in 1..Len(q) :
                     c[i].text[j].of = q[l].of => c[i].text[j].n < q[l].n
Climbs(q) == \A j, l \in 1..Len(q) : j < l /\ q[j].of = q[l].of => q[j].n < q[l].n

WasSaid(s, e) == e.n \in 1..Len(s[e.of]) /\ s[e.of][e.n] = e.kind
PieceOf(m, n) == [kind |-> sent[m][n], of |-> m, n |-> n]
OnScreen(c, e) == \E i \in 1..Len(c) : \E j \in 1..Len(c[i].text) : c[i].text[j] = e
Waiting(e) == \E l \in 1..Len(channel) : channel[l] = e

ShownTypes ==
    /\ chat \in Seq(ChatItem) /\ Len(chat) > 0
    /\ channel \in Seq(Event)
    /\ sent \in [Message -> Seq(EventKind)]
    /\ running \subseteq Message /\ clean \subseteq Message /\ short \subseteq Message
    /\ Len(typed) <= MaxTyped

\* Only what was given to send_message has an answer.
Asked ==
    /\ running \cup clean \cup short \subseteq ToSet(handled)
    /\ \A i \in 1..Len(chat) : \A j \in 1..Len(chat[i].text) : chat[i].text[j].of \in ToSet(handled)
    /\ \A l \in 1..Len(channel) : channel[l].of \in ToSet(handled)
    /\ \A m \in Message : sent[m] # <<>> => m \in ToSet(handled)

\* What waits in the channel: a Done is the last of its answer, and what a task
\* that goes on sends next gets a higher number.
Waits ==
    \A l \in 1..Len(channel) :
        /\ channel[l].kind \in {Said, Thought} => WasSaid(sent, channel[l])
        /\ channel[l].of \in running => channel[l].n <= Len(sent[channel[l].of])
        /\ channel[l].kind = "Done" =>
              /\ channel[l].of \notin running
              /\ \A k \in 1..Len(channel) : l < k => channel[k].of # channel[l].of

Placed ==
    /\ Fits(chat) /\ Rises(chat) /\ Precedes(chat, channel) /\ Climbs(channel)
    /\ \A i \in 1..Len(chat) : \A j \in 1..Len(chat[i].text) : WasSaid(sent, chat[i].text[j])

\* An answer that has the screen to itself and goes on: its task is the only one,
\* and until a dispatch or an error the last item is one that takes its pieces.
Undisturbed(m) ==
    /\ Live = {m}
    /\ End(chat).kind # "ThinkingText"
    /\ m \notin short => Streams(chat) /\ working
    /\ m \notin running => channel # <<>> /\ channel[Len(channel)].kind \in Final

\* One that has ended: an event of another comes to the last item only when none
\* of its pieces is in it.
AtRest(m) ==
    (\E j \in 1..Len(End(chat).text) : End(chat).text[j].of = m)
       => Live = {} /\ End(chat).kind # "StreamingAssistant"

Kept(m) ==
    \A n \in 1..Len(sent[m]) : sent[m][n] \in (IF m \in short THEN {Thought} ELSE {Said, Thought})
       => OnScreen(chat, PieceOf(m, n)) \/ Waiting(PieceOf(m, n))

Screen ==
    /\ ShownTypes /\ Asked /\ Waits /\ Placed
    /\ \A m \in clean : Kept(m) /\ (m \in Live => Undisturbed(m)) /\ (m \notin Live => AtRest(m))

\* d is c with another last item.
Replaced(c, d, x) ==
    /\ d \in Seq(ChatItem) /\ Len(d) = Len(c) /\ d[Len(c)] = x
    /\ \A i \in 1..Len(c) : i # Len(c) => d[i] = c[i]

\* d is c with one item more.
Added(c, d, x) ==
    /\ d \in Seq(ChatItem) /\ Len(d) = Len(c) + 1 /\ d[Len(c) + 1] = x
    /\ \A i \in 1..Len(c) : d[i] = c[i]

\* The last item gets another kind (std::mem::take, then the new item with its text).
LEMMA BecomeReplaces ==
    ASSUME NEW c \in Seq(ChatItem), Len(c) > 0,
           NEW kind, kind \in Thinks \cup Speaks
    PROVE  Replaced(c, Become(c, kind), [kind |-> kind, text |-> End(c).text])
  <1>1. Len(c) \in 1..Len(c) /\ c[Len(c)] \in ChatItem
    OBVIOUS
  <1> DEFINE x == [kind |-> kind, text |-> End(c).text]
  <1>2. x \in ChatItem
    BY <1>1 DEF ChatItem, End
  <1>3. [c[Len(c)] EXCEPT !.kind = kind] = x
    BY <1>1 DEF ChatItem, End
  <1>4. Become(c, kind) = [c EXCEPT ![Len(c)] = x]
    BY <1>3 DEF Become
  <1> HIDE DEF x
  <1> QED
    BY <1>1, <1>2, <1>4 DEF Replaced, x

\* The last item takes one piece more (push_str).
LEMMA AddToReplaces ==
    ASSUME NEW c \in Seq(ChatItem), Len(c) > 0, NEW e \in Event
    PROVE  Replaced(c, AddTo(c, e), [kind |-> End(c).kind, text |-> Append(End(c).text, e)])
  <1>1. Len(c) \in 1..Len(c) /\ c[Len(c)] \in ChatItem
    OBVIOUS
  <1> DEFINE x == [kind |-> End(c).kind, text |-> Append(End(c).text, e)]
  <1>2. x \in ChatItem
    BY <1>1 DEF ChatItem, End
  <1>3. [c[Len(c)] EXCEPT !.text = Append(@, e)] = x
    <2>1. \A r \in ChatItem : \A t : [r EXCEPT !.text = t] = [kind |-> r.kind, text |-> t]
      BY DEF ChatItem
    <2> QED
      BY <1>1, <2>1 DEF End
  <1>4. AddTo(c, e) = [c EXCEPT ![Len(c)] = x]
    BY <1>3 DEF AddTo
  <1> HIDE DEF x
  <1> QED
    BY <1>1, <1>2, <1>4 DEF Replaced, x

\* One item more (chat_items.push).
LEMMA AppendAdds ==
    ASSUME NEW c \in Seq(ChatItem), NEW x \in ChatItem
    PROVE  Added(c, Append(c, x), x)
  BY DEF Added

\* The last item gives way to another (*last = ...).
LEMMA OverwriteReplaces ==
    ASSUME NEW c \in Seq(ChatItem), Len(c) > 0, NEW x \in ChatItem
    PROVE  Replaced(c, Overwrite(c, x), x)
  <1>1. Front(c) = SubSeq(c, 1, Len(c) - 1)
    BY DEF Front
  <1>2. /\ Front(c) \in Seq(ChatItem) /\ Len(Front(c)) = Len(c) - 1
        /\ \A i \in 1..Len(Front(c)) : Front(c)[i] = c[i]
    <2>1. /\ 1 \in Int /\ Len(c) - 1 \in Nat /\ (Len(c) - 1) - 1 + 1 = Len(c) - 1
          /\ \A i \in 1..(Len(c) - 1) : c[i] \in ChatItem
      OBVIOUS
    <2>2. /\ Front(c) \in Seq(ChatItem)
          /\ Len(Front(c)) = IF 1 <= Len(c) - 1 THEN (Len(c) - 1) - 1 + 1 ELSE 0
          /\ \A i \in 1..((Len(c) - 1) - 1 + 1) : Front(c)[i] = c[1 + i - 1]
      BY <1>1, <2>1, SubSeqProperties
    <2>3. \A n \in Nat : /\ (n - 1) - 1 + 1 = n - 1
                         /\ 0 < n => IF 1 <= n - 1 THEN TRUE ELSE n - 1 = 0
                         /\ \A i \in 1..(n - 1) : 1 + i - 1 = i
      OBVIOUS
    <2>4. Len(c) \in Nat
      OBVIOUS
    <2>5. Len(Front(c)) = Len(c) - 1
      BY <2>1, <2>2, <2>3, <2>4
    <2> QED
      BY <2>2, <2>3, <2>4, <2>5
  <1>3. \A i \in 1..Len(c) : i # Len(c) => i \in 1..Len(Front(c))
    BY <1>2
  <1> QED
    BY <1>2, <1>3 DEF Replaced, Overwrite

\* The items that come without a text.
LEMMA Items ==
    /\ System \in ChatItem /\ User \in ChatItem /\ Panel \in ChatItem
    /\ Failure \in ChatItem /\ Streaming \in ChatItem
    /\ Item("StreamingThinking") \in ChatItem
    /\ System.text = <<>> /\ User.text = <<>> /\ Panel.text = <<>>
    /\ Failure.text = <<>> /\ Streaming.text = <<>> /\ Item("StreamingThinking").text = <<>>
  BY DEF System, User, Panel, Failure, Streaming, Item, ChatItem, Thinks, Speaks

\* The last of a chat.
LEMMA LastIsEnd ==
    ASSUME NEW c \in Seq(ChatItem), Len(c) > 0, NEW kind
    PROVE  /\ LastIs(c, kind) <=> End(c).kind = kind
           /\ Last(c) = End(c) /\ End(c) \in ChatItem
  BY DEF LastIs, Last, End
\* A text of an item of this kind fits it.
ItemFits(x) == \A j \in 1..Len(x.text) :
                  x.kind \in (IF x.text[j].kind = Thought THEN Thinks ELSE Speaks)
IsPiece(e) == e.kind \in {Said, Thought}
Breaks(e) == e.kind \in {"Dispatch", "Error"}

\* What the event e does to the chat c: the last item keeps its text, takes e as
\* its next piece or is overwritten, and of what comes below it only the last
\* item can hold a piece, which is e.
Shape(c, e, d) ==
    /\ d \in Seq(ChatItem) /\ Len(c) <= Len(d)
    /\ \A i \in 1..Len(c) : i # Len(c) => d[i] = c[i]
    /\ \/ d[Len(c)].text = End(c).text
       \/ d[Len(c)].text = Append(End(c).text, e) /\ Len(d) = Len(c) /\ IsPiece(e)
       \/ d[Len(c)].text = <<>> /\ Breaks(e) /\ End(c).kind # "StreamingThinking"
    /\ \A i \in 1..Len(d) : i > Len(c) =>
          \/ d[i].text = <<>>
          \/ d[i].text = <<e>> /\ i = Len(d) /\ IsPiece(e)
    /\ ItemFits(End(c)) => \A i \in Len(c)..Len(d) : ItemFits(d[i])

\* A piece that is added to a text.
LEMMA AddedFits ==
    ASSUME NEW x \in ChatItem, NEW e \in Event, NEW y \in ChatItem,
           y.text = Append(x.text, e), y.kind = x.kind, ItemFits(x),
           x.kind \in (IF e.kind = Thought THEN Thinks ELSE Speaks)
    PROVE  ItemFits(y)
  <1>1. x.text \in Seq(Event)
    BY DEF ChatItem
  <1>2. /\ Len(y.text) = Len(x.text) + 1 /\ y.text[Len(x.text) + 1] = e
        /\ \A j \in 1..Len(x.text) : y.text[j] = x.text[j]
        /\ \A j \in 1..Len(y.text) : j \in 1..Len(x.text) \/ j = Len(x.text) + 1
    BY <1>1
  <1> QED
    BY <1>2 DEF ItemFits

\* An item without a text.
LEMMA EmptyFits ==
    ASSUME NEW x, x.text = <<>>
    PROVE  ItemFits(x)
  BY DEF ItemFits

\* The thought at the end, turned into what stays.
LEMMA BecomeShape ==
    ASSUME NEW c \in Seq(ChatItem), Len(c) > 0, NEW kind, NEW e,
           \/ End(c).kind \in Thinks /\ kind \in Thinks
           \/ End(c).kind \in Speaks /\ kind \in Speaks
           \/ End(c).text = <<>> /\ kind \in Thinks
    PROVE  /\ Become(c, kind) \in Seq(ChatItem) /\ Len(Become(c, kind)) = Len(c)
           /\ \A i \in 1..Len(c) : i # Len(c) => Become(c, kind)[i] = c[i]
           /\ End(Become(c, kind)) = [kind |-> kind, text |-> End(c).text]
           /\ ItemFits(End(c)) => ItemFits(End(Become(c, kind)))
  <1> DEFINE d == Become(c, kind)
  <1>1. Replaced(c, d, [kind |-> kind, text |-> End(c).text])
    <2>1. kind \in Thinks \cup Speaks
      OBVIOUS
    <2> QED
      BY <2>1, BecomeReplaces
  <1> HIDE DEF d
  <1>2. /\ d \in Seq(ChatItem) /\ Len(d) = Len(c)
        /\ \A i \in 1..Len(c) : i # Len(c) => d[i] = c[i]
        /\ End(d) = [kind |-> kind, text |-> End(c).text]
    BY <1>1, Zenon DEF Replaced, End
  <1>3. ASSUME ItemFits(End(c)) PROVE ItemFits(End(d))
    <2>1. End(d).kind = kind /\ End(d).text = End(c).text
      BY <1>2
    <2>2. Thinks \cap Speaks = {}
      BY DEF Thinks, Speaks
    <2>3. CASE End(c).text = <<>>
      BY <2>1, <2>3, EmptyFits
    <2>4. CASE End(c).kind \in Thinks /\ kind \in Thinks
      BY <1>3, <2>1, <2>2, <2>4 DEF ItemFits
    <2>5. CASE End(c).kind \in Speaks /\ kind \in Speaks
      BY <1>3, <2>1, <2>2, <2>5 DEF ItemFits
    <2> QED
      BY <2>3, <2>4, <2>5
  <1> QED
    BY <1>2, <1>3 DEF d

\* The last of a chat takes one more piece.
LEMMA AddToShape ==
    ASSUME NEW c \in Seq(ChatItem), Len(c) > 0, NEW e \in Event, IsPiece(e),
           End(c).kind \in (IF e.kind = Thought THEN Thinks ELSE Speaks)
    PROVE  /\ AddTo(c, e) \in Seq(ChatItem) /\ Len(AddTo(c, e)) = Len(c)
           /\ \A i \in 1..Len(c) : i # Len(c) => AddTo(c, e)[i] = c[i]
           /\ End(AddTo(c, e)) = [kind |-> End(c).kind, text |-> Append(End(c).text, e)]
           /\ ItemFits(End(c)) => ItemFits(End(AddTo(c, e)))
  <1> DEFINE d == AddTo(c, e)
  <1>1. Replaced(c, d, [kind |-> End(c).kind, text |-> Append(End(c).text, e)])
    BY AddToReplaces
  <1> HIDE DEF d
  <1>2. /\ d \in Seq(ChatItem) /\ Len(d) = Len(c)
        /\ \A i \in 1..Len(c) : i # Len(c) => d[i] = c[i]
        /\ End(d) = [kind |-> End(c).kind, text |-> Append(End(c).text, e)]
    BY <1>1, Zenon DEF Replaced, End
  <1>3. ASSUME ItemFits(End(c)) PROVE ItemFits(End(d))
    <2>1. End(c) \in ChatItem /\ End(d) \in ChatItem
      BY <1>2, LastIsEnd
    <2>2. End(d).kind = End(c).kind /\ End(d).text = Append(End(c).text, e)
      BY <1>2
    <2> QED
      BY <1>3, <2>1, <2>2, AddedFits
  <1> QED
    BY <1>2, <1>3 DEF d
\* The least that a proof of Shape must say: c and d differ by the last item of c
\* and what is below it.
LEMMA SameLengthShape ==
    ASSUME NEW c \in Seq(ChatItem), Len(c) > 0, NEW e \in Event,
           NEW d \in Seq(ChatItem), Len(d) = Len(c),
           \A i \in 1..Len(c) : i # Len(c) => d[i] = c[i],
           \/ End(d).text = End(c).text
           \/ End(d).text = Append(End(c).text, e) /\ IsPiece(e)
           \/ End(d).text = <<>> /\ Breaks(e) /\ End(c).kind # "StreamingThinking",
           ItemFits(End(c)) => ItemFits(End(d))
    PROVE  Shape(c, e, d)
  <1>1. /\ \A i \in Len(c)..Len(d) : i = Len(c)
        /\ \A i \in 1..Len(d) : ~(i > Len(c))
    OBVIOUS
  <1> QED
    BY <1>1 DEF Shape, End

\* What comes below the last item.
LEMMA LongerShape ==
    ASSUME NEW c \in Seq(ChatItem), Len(c) > 0, NEW e \in Event,
           NEW b \in Seq(ChatItem), Len(b) = Len(c),
           \A i \in 1..Len(c) : i # Len(c) => b[i] = c[i],
           \/ End(b).text = End(c).text
           \/ End(b).text = <<>> /\ Breaks(e) /\ End(c).kind # "StreamingThinking",
           ItemFits(End(c)) => ItemFits(End(b)),
           NEW d \in Seq(ChatItem), Len(d) = Len(c) + 1,
           \A i \in 1..Len(c) : d[i] = b[i],
           \/ End(d).text = <<>>
           \/ End(d).text = <<e>> /\ IsPiece(e),
           ItemFits(End(d))
    PROVE  Shape(c, e, d)
  <1>1. /\ \A i \in Len(c)..Len(d) : i = Len(c) \/ i = Len(d)
        /\ \A i \in 1..Len(d) : i > Len(c) => i = Len(d)
        /\ Len(c) \in 1..Len(c)
    OBVIOUS
  <1>2. d[Len(c)] = End(b) /\ d[Len(d)] = End(d)
    BY <1>1 DEF End
  <1> QED
    BY <1>1, <1>2 DEF Shape, End

\* A thought is always shown.
LEMMA ThoughtShape ==
    ASSUME NEW c \in Seq(ChatItem), Len(c) > 0, NEW e \in Event, e.kind = Thought
    PROVE  /\ Shape(c, e, TakeThought(c, e))
           /\ End(TakeThought(c, e)).kind = "StreamingThinking"
           /\ OnScreen(TakeThought(c, e), e)
  <1> DEFINE t == IF LastIs(c, "StreamingAssistant") /\ Last(c).text = <<>>
                  THEN Become(c, "StreamingThinking") ELSE c
             d == TakeThought(c, e)
  <1>1. IsPiece(e)
    BY DEF IsPiece
  <1>2. /\ t \in Seq(ChatItem) /\ Len(t) = Len(c)
        /\ \A i \in 1..Len(c) : i # Len(c) => t[i] = c[i]
        /\ End(t).text = End(c).text
        /\ ItemFits(End(c)) => ItemFits(End(t))
    <2>1. CASE LastIs(c, "StreamingAssistant") /\ Last(c).text = <<>>
      <3>1. End(c).text = <<>> /\ "StreamingThinking" \in Thinks
        BY <2>1, LastIsEnd DEF Thinks
      <3>2. t = Become(c, "StreamingThinking")
        BY <2>1
      <3> HIDE DEF t
      <3> QED
        BY <3>1, <3>2, BecomeShape
    <2>2. CASE ~(LastIs(c, "StreamingAssistant") /\ Last(c).text = <<>>)
      BY <2>2
    <2> QED
      BY <2>1, <2>2
  <1>3. d = AddTo(IF LastIs(t, "StreamingThinking") THEN t
                  ELSE Append(t, Item("StreamingThinking")), e)
    BY DEF TakeThought
  <1> HIDE DEF t, d
  <1>4. LastIs(t, "StreamingThinking") <=> End(t).kind = "StreamingThinking"
    BY <1>2, LastIsEnd
  <1>5. CASE End(t).kind = "StreamingThinking"
    <2>1. d = AddTo(t, e)
      BY <1>3, <1>4, <1>5
    <2>2. "StreamingThinking" \in Thinks
      BY DEF Thinks
    <2>3. /\ d \in Seq(ChatItem) /\ Len(d) = Len(t)
          /\ \A i \in 1..Len(t) : i # Len(t) => d[i] = t[i]
          /\ End(d) = [kind |-> End(t).kind, text |-> Append(End(t).text, e)]
          /\ ItemFits(End(t)) => ItemFits(End(d))
      BY <1>1, <1>2, <1>5, <2>1, <2>2, AddToShape
    <2>4. End(d).text = Append(End(c).text, e) /\ End(d).kind = "StreamingThinking"
      BY <1>2, <1>5, <2>3
    <2>5. Shape(c, e, d)
      BY <1>1, <1>2, <2>3, <2>4, SameLengthShape
    <2>6. OnScreen(d, e)
      <3>1. End(c).text \in Seq(Event) /\ Len(d) \in 1..Len(d)
        <4>1. End(c) \in ChatItem
          BY LastIsEnd
        <4>2. End(c).text \in Seq(Event)
          BY <4>1 DEF ChatItem
        <4> QED
          BY <1>2, <2>3, <4>2
      <3>2. /\ Len(End(d).text) \in 1..Len(End(d).text)
            /\ End(d).text[Len(End(d).text)] = e
        BY <2>4, <3>1
      <3> QED
        BY <3>1, <3>2 DEF OnScreen, End
    <2> QED
      BY <2>4, <2>5, <2>6 DEF d
  <1>6. CASE End(t).kind # "StreamingThinking"
    <2> DEFINE x == Item("StreamingThinking")
               u == Append(t, x)
    <2>1. d = AddTo(u, e)
      BY <1>3, <1>4, <1>6
    <2>2. x \in ChatItem /\ x.text = <<>> /\ x.kind = "StreamingThinking"
          /\ "StreamingThinking" \in Thinks
      BY Items DEF Item, Thinks
    <2> HIDE DEF x
    <2>3. /\ u \in Seq(ChatItem) /\ Len(u) = Len(c) + 1 /\ End(u) = x
          /\ \A i \in 1..Len(c) : u[i] = t[i]
      BY <1>2, <2>2 DEF End
    <2> HIDE DEF u
    <2>4. /\ d \in Seq(ChatItem) /\ Len(d) = Len(u)
          /\ \A i \in 1..Len(u) : i # Len(u) => d[i] = u[i]
          /\ End(d) = [kind |-> End(u).kind, text |-> Append(End(u).text, e)]
          /\ ItemFits(End(u)) => ItemFits(End(d))
      BY <1>1, <2>1, <2>2, <2>3, AddToShape
    <2>5. End(d).text = <<e>> /\ End(d).kind = "StreamingThinking"
      BY <2>2, <2>3, <2>4
    <2>6. ItemFits(End(d))
      BY <2>2, <2>3, <2>4, EmptyFits
    <2>7. \A i \in 1..Len(c) : d[i] = t[i]
      BY <2>3, <2>4
    <2>8. Shape(c, e, d)
      BY <1>1, <1>2, <2>3, <2>4, <2>5, <2>6, <2>7, LongerShape
    <2>9. OnScreen(d, e)
      <3>1. Len(d) \in 1..Len(d) /\ d[Len(d)].text = <<e>>
        BY <2>3, <2>4, <2>5 DEF End
      <3>2. 1 \in 1..Len(<<e>>) /\ <<e>>[1] = e
        OBVIOUS
      <3> QED
        BY <3>1, <3>2 DEF OnScreen
    <2> QED
      BY <2>5, <2>8, <2>9 DEF d
  <1> QED
    BY <1>5, <1>6
\* The thought at the end stays, and a fresh item comes below it.
LEMMA SettleShape ==
    ASSUME NEW c \in Seq(ChatItem), Len(c) > 0, NEW x \in ChatItem,
           End(c).kind = "StreamingThinking"
    PROVE  /\ Settle(c, x) = Append(Become(c, "ThinkingText"), x)
           /\ Become(c, "ThinkingText") \in Seq(ChatItem)
           /\ Len(Become(c, "ThinkingText")) = Len(c)
           /\ \A i \in 1..Len(c) : i # Len(c) => Become(c, "ThinkingText")[i] = c[i]
           /\ End(Become(c, "ThinkingText")).text = End(c).text
           /\ ItemFits(End(c)) => ItemFits(End(Become(c, "ThinkingText")))
           /\ Settle(c, x) \in Seq(ChatItem) /\ Len(Settle(c, x)) = Len(c) + 1
           /\ \A i \in 1..Len(c) : Settle(c, x)[i] = Become(c, "ThinkingText")[i]
           /\ End(Settle(c, x)) = x
  <1> DEFINE b == Become(c, "ThinkingText")
  <1>1. Settle(c, x) = Append(b, x)
    BY LastIsEnd DEF Settle
  <1>2. /\ b \in Seq(ChatItem) /\ Len(b) = Len(c)
        /\ \A i \in 1..Len(c) : i # Len(c) => b[i] = c[i]
        /\ End(b) = [kind |-> "ThinkingText", text |-> End(c).text]
        /\ ItemFits(End(c)) => ItemFits(End(b))
    <2>1. End(c).kind \in Thinks /\ "ThinkingText" \in Thinks
      BY DEF Thinks
    <2> HIDE DEF b
    <2> QED
      BY <2>1, BecomeShape DEF b
  <1> HIDE DEF b
  <1>3. End(b).text = End(c).text
    BY <1>2
  <1>4. /\ Append(b, x) \in Seq(ChatItem) /\ Len(Append(b, x)) = Len(c) + 1
        /\ \A i \in 1..Len(c) : Append(b, x)[i] = b[i]
        /\ End(Append(b, x)) = x
    BY <1>2 DEF End
  <1> QED
    BY <1>1, <1>2, <1>3, <1>4 DEF b

\* Without a thought at the end nothing is settled.
LEMMA NoSettleNeeded ==
    ASSUME NEW c \in Seq(ChatItem), Len(c) > 0, NEW x, End(c).kind # "StreamingThinking"
    PROVE  Settle(c, x) = c
  BY LastIsEnd DEF Settle

\* A piece of text that finds no answer at the end is lost.
LEMMA SameShape ==
    ASSUME NEW c \in Seq(ChatItem), Len(c) > 0, NEW e \in Event
    PROVE  Shape(c, e, c)
  BY SameLengthShape

\* A piece of text is shown when the answer streams at the end of the chat.
LEMMA TextShape ==
    ASSUME NEW c \in Seq(ChatItem), Len(c) > 0, NEW e \in Event, e.kind = Said
    PROVE  /\ Shape(c, e, TakeText(c, e))
           /\ ~Streams(c) => TakeText(c, e) = c
           /\ Streams(c) => /\ End(TakeText(c, e)).kind = "StreamingAssistant"
                            /\ OnScreen(TakeText(c, e), e)
  <1> DEFINE s == Settle(c, Streaming)
             d == TakeText(c, e)
  <1>1. IsPiece(e) /\ e.kind # Thought
    BY DEF IsPiece, Said, Thought
  <1>2. Streaming \in ChatItem /\ Streaming.text = <<>> /\ Streaming.kind = "StreamingAssistant"
        /\ "StreamingAssistant" \in Speaks
    BY Items DEF Streaming, Item, Speaks
  <1>3. d = IF LastIs(s, "StreamingAssistant") THEN AddTo(s, e) ELSE s
    BY DEF TakeText
  <1> HIDE DEF s, d
  <1>4. ASSUME s \in Seq(ChatItem), Len(s) > 0, End(s).kind = "StreamingAssistant"
        PROVE  /\ d \in Seq(ChatItem) /\ Len(d) = Len(s)
               /\ \A i \in 1..Len(s) : i # Len(s) => d[i] = s[i]
               /\ End(d) = [kind |-> End(s).kind, text |-> Append(End(s).text, e)]
               /\ ItemFits(End(s)) => ItemFits(End(d))
               /\ OnScreen(d, e)
    <2>1. d = AddTo(s, e)
      BY <1>3, <1>4, LastIsEnd
    <2>2. /\ d \in Seq(ChatItem) /\ Len(d) = Len(s)
          /\ \A i \in 1..Len(s) : i # Len(s) => d[i] = s[i]
          /\ End(d) = [kind |-> End(s).kind, text |-> Append(End(s).text, e)]
          /\ ItemFits(End(s)) => ItemFits(End(d))
      BY <1>1, <1>2, <1>4, <2>1, AddToShape
    <2>3. End(d).text = Append(End(s).text, e)
      BY <2>2
    <2>4. End(s).text \in Seq(Event)
      <3>1. End(s) \in ChatItem
        BY <1>4, LastIsEnd
      <3> QED
        BY <3>1 DEF ChatItem
    <2>5. /\ Len(End(d).text) \in 1..Len(End(d).text)
          /\ End(d).text[Len(End(d).text)] = e
      BY <2>3, <2>4
    <2>6. Len(d) \in 1..Len(d)
      BY <1>4, <2>2
    <2> QED
      BY <2>2, <2>5, <2>6 DEF OnScreen, End
  <1>5. CASE End(c).kind = "StreamingThinking"
    <2> DEFINE b == Become(c, "ThinkingText")
    <2>1. /\ b \in Seq(ChatItem) /\ Len(b) = Len(c)
          /\ \A i \in 1..Len(c) : i # Len(c) => b[i] = c[i]
          /\ End(b).text = End(c).text
          /\ ItemFits(End(c)) => ItemFits(End(b))
          /\ s \in Seq(ChatItem) /\ Len(s) = Len(c) + 1
          /\ \A i \in 1..Len(c) : s[i] = b[i]
          /\ End(s) = Streaming
      BY <1>2, <1>5, SettleShape DEF s
    <2> HIDE DEF b
    <2>2. /\ d \in Seq(ChatItem) /\ Len(d) = Len(s)
          /\ \A i \in 1..Len(s) : i # Len(s) => d[i] = s[i]
          /\ End(d) = [kind |-> End(s).kind, text |-> Append(End(s).text, e)]
          /\ ItemFits(End(s)) => ItemFits(End(d))
          /\ OnScreen(d, e)
      BY <1>2, <1>4, <2>1
    <2>3. End(d).kind = "StreamingAssistant" /\ End(d).text = <<e>>
      BY <1>2, <2>1, <2>2
    <2>4. ItemFits(End(d))
      BY <1>2, <2>1, <2>2, EmptyFits
    <2>5. \A i \in 1..Len(c) : d[i] = b[i]
      BY <2>1, <2>2
    <2>6. Shape(c, e, d)
      BY <1>1, <2>1, <2>2, <2>3, <2>4, <2>5, LongerShape
    <2> QED
      BY <1>5, <2>2, <2>3, <2>6 DEF Streams, d
  <1>6. CASE End(c).kind # "StreamingThinking"
    <2>1. s = c
      BY <1>6, NoSettleNeeded DEF s
    <2>2. CASE End(c).kind = "StreamingAssistant"
      <3>1. /\ d \in Seq(ChatItem) /\ Len(d) = Len(c)
            /\ \A i \in 1..Len(c) : i # Len(c) => d[i] = c[i]
            /\ End(d) = [kind |-> End(c).kind, text |-> Append(End(c).text, e)]
            /\ ItemFits(End(c)) => ItemFits(End(d))
            /\ OnScreen(d, e)
        BY <1>4, <2>1, <2>2
      <3>2. End(d).kind = "StreamingAssistant" /\ End(d).text = Append(End(c).text, e)
        BY <2>2, <3>1
      <3>3. Shape(c, e, d)
        BY <1>1, <3>1, <3>2, SameLengthShape
      <3> QED
        BY <2>2, <3>1, <3>2, <3>3 DEF Streams, d
    <2>3. CASE End(c).kind # "StreamingAssistant"
      <3>1. d = c
        BY <1>3, <2>1, <2>3, LastIsEnd
      <3>2. ~Streams(c)
        BY <1>6, <2>3 DEF Streams
      <3> QED
        BY <3>1, <3>2, SameShape DEF d
    <2> QED
      BY <2>2, <2>3
  <1> QED
    BY <1>5, <1>6

\* Done closes what streams at the end of the chat.
LEMMA DoneShape ==
    ASSUME NEW c \in Seq(ChatItem), Len(c) > 0, NEW e \in Event
    PROVE  /\ Shape(c, e, TakeDone(c))
           /\ Len(TakeDone(c)) = Len(c)
           /\ End(TakeDone(c)).kind # "StreamingAssistant"
           /\ End(TakeDone(c)).text = End(c).text
  <1> DEFINE d == TakeDone(c)
  <1>1. ASSUME NEW kind, d = Become(c, kind), kind # "StreamingAssistant",
               \/ End(c).kind \in Thinks /\ kind \in Thinks
               \/ End(c).kind \in Speaks /\ kind \in Speaks
        PROVE  /\ Shape(c, e, d) /\ Len(d) = Len(c)
               /\ End(d).kind # "StreamingAssistant" /\ End(d).text = End(c).text
    <2> HIDE DEF d
    <2>1. /\ d \in Seq(ChatItem) /\ Len(d) = Len(c)
          /\ \A i \in 1..Len(c) : i # Len(c) => d[i] = c[i]
          /\ End(d) = [kind |-> kind, text |-> End(c).text]
          /\ ItemFits(End(c)) => ItemFits(End(d))
      BY <1>1, BecomeShape
    <2>2. End(d).kind # "StreamingAssistant" /\ End(d).text = End(c).text
      BY <1>1, <2>1
    <2> QED
      BY <2>1, <2>2, SameLengthShape
  <1>2. /\ LastIs(c, "StreamingThinking") <=> End(c).kind = "StreamingThinking"
        /\ LastIs(c, "StreamingAssistant") <=> End(c).kind = "StreamingAssistant"
    BY LastIsEnd
  <1>3. CASE End(c).kind = "StreamingThinking"
    <2>1. d = Become(c, "ThinkingText")
      BY <1>2, <1>3 DEF TakeDone
    <2> HIDE DEF d
    <2>2. End(c).kind \in Thinks /\ "ThinkingText" \in Thinks
      BY <1>3 DEF Thinks
    <2> QED
      BY <1>1, <2>1, <2>2 DEF d
  <1>4. CASE End(c).kind = "StreamingAssistant"
    <2>1. d = Become(c, "AssistantText")
      BY <1>2, <1>4 DEF TakeDone
    <2> HIDE DEF d
    <2>2. End(c).kind \in Speaks /\ "AssistantText" \in Speaks
      BY <1>4 DEF Speaks
    <2> QED
      BY <1>1, <2>1, <2>2 DEF d
  <1>5. CASE End(c).kind \notin {"StreamingThinking", "StreamingAssistant"}
    <2>1. d = c
      BY <1>2, <1>5 DEF TakeDone
    <2> HIDE DEF d
    <2> QED
      BY <1>5, <2>1, SameShape DEF d
  <1> QED
    BY <1>3, <1>4, <1>5
\* A thought at the end is left above what overwrites the last item.
LEMMA OverShape ==
    ASSUME NEW c \in Seq(ChatItem), Len(c) > 0, NEW e \in Event, Breaks(e),
           NEW x \in ChatItem, x.text = <<>>
    PROVE  LET d == Overwrite(Settle(c, x), x)
           IN  /\ Shape(c, e, d) /\ End(d) = x
               /\ \A i \in 1..Len(d) : i > Len(c) => d[i].text = <<>>
               /\ \/ d[Len(c)].text = End(c).text
                  \/ d[Len(c)].text = <<>> /\ End(c).kind # "StreamingThinking"
  <1> DEFINE s == Settle(c, x)
             d == Overwrite(s, x)
  <1>1. ItemFits(x)
    BY EmptyFits
  <1>2. CASE End(c).kind = "StreamingThinking"
    <2> DEFINE b == Become(c, "ThinkingText")
    <2>1. /\ b \in Seq(ChatItem) /\ Len(b) = Len(c)
          /\ \A i \in 1..Len(c) : i # Len(c) => b[i] = c[i]
          /\ End(b).text = End(c).text
          /\ ItemFits(End(c)) => ItemFits(End(b))
          /\ s \in Seq(ChatItem) /\ Len(s) = Len(c) + 1
          /\ \A i \in 1..Len(c) : s[i] = b[i]
      BY <1>2, SettleShape
    <2> HIDE DEF b, s
    <2>2. Replaced(s, d, x)
      BY <2>1, OverwriteReplaces
    <2> HIDE DEF d
    <2>3. /\ d \in Seq(ChatItem) /\ Len(d) = Len(c) + 1 /\ End(d) = x
          /\ \A i \in 1..Len(c) : d[i] = b[i]
      BY <2>1, <2>2 DEF Replaced, End
    <2>4. Shape(c, e, d)
      BY <1>1, <2>1, <2>3, LongerShape
    <2>5. \A i \in 1..Len(d) : i > Len(c) => d[i].text = <<>>
      <3>1. \A i \in 1..Len(d) : i > Len(c) => i = Len(d)
        BY <2>3
      <3> QED
        BY <2>3, <3>1 DEF End
    <2>6. d[Len(c)].text = End(c).text
      <3>1. Len(c) \in 1..Len(c)
        OBVIOUS
      <3> QED
        BY <2>1, <2>3, <3>1 DEF End
    <2> QED
      BY <2>3, <2>4, <2>5, <2>6 DEF d, s
  <1>3. CASE End(c).kind # "StreamingThinking"
    <2>1. s = c
      BY <1>3, NoSettleNeeded
    <2> HIDE DEF s
    <2>2. Replaced(c, d, x)
      BY <2>1, OverwriteReplaces
    <2> HIDE DEF d
    <2>3. /\ d \in Seq(ChatItem) /\ Len(d) = Len(c) /\ End(d) = x
          /\ \A i \in 1..Len(c) : i # Len(c) => d[i] = c[i]
      BY <2>2 DEF Replaced, End
    <2>4. Shape(c, e, d)
      BY <1>1, <1>3, <2>3, SameLengthShape
    <2>5. \A i \in 1..Len(d) : ~(i > Len(c))
      BY <2>3
    <2>6. d[Len(c)].text = <<>>
      BY <2>3 DEF End
    <2> QED
      BY <1>3, <2>3, <2>4, <2>5, <2>6 DEF d, s
  <1> QED
    BY <1>2, <1>3

\* An error, or a dispatch that the Orchestrator refuses, overwrites the end.
LEMMA ErrorShape ==
    ASSUME NEW c \in Seq(ChatItem), Len(c) > 0, NEW e \in Event, Breaks(e)
    PROVE  /\ Shape(c, e, TakeError(c))
           /\ End(TakeError(c)).text = <<>> /\ End(TakeError(c)).kind = "Error"
  <1>1. Failure \in ChatItem /\ Failure.text = <<>> /\ Failure.kind = "Error"
    BY Items DEF Failure, Item
  <1> QED
    BY <1>1, OverShape DEF TakeError

\* A dispatch overwrites the end and adds a panel.
LEMMA DispatchShape ==
    ASSUME NEW c \in Seq(ChatItem), Len(c) > 0, NEW e \in Event, Breaks(e)
    PROVE  /\ Shape(c, e, TakeDispatch(c))
           /\ End(TakeDispatch(c)).text = <<>> /\ End(TakeDispatch(c)).kind = "TaskPanel"
  <1> DEFINE b == Overwrite(Settle(c, System), System)
             d == TakeDispatch(c)
  <1>1. d = Append(b, Panel)
    BY DEF TakeDispatch
  <1>2. /\ Shape(c, e, b)
        /\ \A i \in 1..Len(b) : i > Len(c) => b[i].text = <<>>
        /\ \/ b[Len(c)].text = End(c).text
           \/ b[Len(c)].text = <<>> /\ End(c).kind # "StreamingThinking"
    BY Items, OverShape
  <1>3. Panel \in ChatItem /\ Panel.text = <<>> /\ Panel.kind = "TaskPanel" /\ ItemFits(Panel)
    BY Items, EmptyFits DEF Panel, Item
  <1> HIDE DEF b, d
  <1>4. /\ b \in Seq(ChatItem) /\ Len(c) <= Len(b)
        /\ \A i \in 1..Len(c) : i # Len(c) => b[i] = c[i]
        /\ ItemFits(End(c)) => \A i \in Len(c)..Len(b) : ItemFits(b[i])
    BY <1>2 DEF Shape
  <1>5. /\ d \in Seq(ChatItem) /\ Len(d) = Len(b) + 1 /\ d[Len(b) + 1] = Panel
        /\ \A i \in 1..Len(b) : d[i] = b[i]
        /\ \A i \in 1..Len(d) : i \in 1..Len(b) \/ i = Len(b) + 1
    BY <1>1, <1>3, <1>4
  <1>6. \A i \in 1..Len(d) : i > Len(c) => d[i].text = <<>>
    BY <1>2, <1>3, <1>5
  <1>7. ASSUME ItemFits(End(c)), NEW i \in Len(c)..Len(d) PROVE ItemFits(d[i])
    <2>1. (i \in Len(c)..Len(b) /\ i \in 1..Len(b)) \/ i = Len(b) + 1
      BY <1>5
    <2> QED
      BY <1>3, <1>4, <1>5, <1>7, <2>1
  <1>8. Len(c) \in 1..Len(b) /\ \A i \in 1..Len(c) : i \in 1..Len(b)
    BY <1>4
  <1>9. Shape(c, e, d)
    <2>1. Len(c) <= Len(d)
      BY <1>4, <1>5
    <2>2. d[Len(c)] = b[Len(c)] /\ \A i \in 1..Len(c) : i # Len(c) => d[i] = c[i]
      BY <1>4, <1>5, <1>8
    <2> QED
      BY <1>2, <1>5, <1>6, <1>7, <2>1, <2>2 DEF Shape
  <1> QED
    BY <1>3, <1>5, <1>9 DEF End, d

\* What became of a piece, and where one comes from.
LEMMA ShapeMoves ==
    ASSUME NEW c \in Seq(ChatItem), Len(c) > 0, NEW e \in Event, NEW d, Shape(c, e, d)
    PROVE  /\ \A i \in 1..Len(d) : \A j \in 1..Len(d[i].text) :
                 \/ /\ i \in 1..Len(c) /\ j \in 1..Len(c[i].text)
                    /\ d[i].text[j] = c[i].text[j]
                 \/ /\ i = Len(d) /\ j = Len(d[i].text) /\ d[i].text[j] = e
                    /\ IsPiece(e)
           /\ \A i \in 1..Len(c) : \A j \in 1..Len(c[i].text) :
                 \/ OnScreen(d, c[i].text[j])
                 \/ i = Len(c) /\ Breaks(e) /\ End(c).kind # "StreamingThinking"
  <1>1. /\ d \in Seq(ChatItem) /\ Len(c) <= Len(d)
        /\ \A i \in 1..Len(c) : i # Len(c) => d[i] = c[i]
        /\ \/ d[Len(c)].text = End(c).text
           \/ d[Len(c)].text = Append(End(c).text, e) /\ Len(d) = Len(c) /\ IsPiece(e)
           \/ d[Len(c)].text = <<>> /\ Breaks(e) /\ End(c).kind # "StreamingThinking"
        /\ \A i \in 1..Len(d) : i > Len(c) =>
              \/ d[i].text = <<>>
              \/ d[i].text = <<e>> /\ i = Len(d) /\ IsPiece(e)
    BY DEF Shape
  <1>2. End(c).text \in Seq(Event)
    <2>1. End(c) \in ChatItem
      BY LastIsEnd
    <2> QED
      BY <2>1 DEF ChatItem
  <1>3. /\ Len(Append(End(c).text, e)) = Len(End(c).text) + 1
        /\ Append(End(c).text, e)[Len(End(c).text) + 1] = e
        /\ \A j \in 1..Len(End(c).text) : Append(End(c).text, e)[j] = End(c).text[j]
        /\ \A j \in 1..Len(Append(End(c).text, e)) :
              j \in 1..Len(End(c).text) \/ j = Len(Append(End(c).text, e))
        /\ \A j \in 1..Len(End(c).text) : j \in 1..Len(Append(End(c).text, e))
        /\ Len(Append(End(c).text, e)) \in Nat
    BY <1>2
  <1>4. ASSUME NEW i \in 1..Len(d), NEW j \in 1..Len(d[i].text)
        PROVE  \/ /\ i \in 1..Len(c) /\ j \in 1..Len(c[i].text)
                  /\ d[i].text[j] = c[i].text[j]
               \/ /\ i = Len(d) /\ j = Len(d[i].text) /\ d[i].text[j] = e
                  /\ IsPiece(e)
    <2>1. CASE i \in 1..Len(c) /\ i # Len(c)
      BY <1>1, <2>1
    <2>2. CASE i = Len(c)
      <3>1. CASE d[Len(c)].text = End(c).text
        BY <2>2, <3>1 DEF End
      <3>2. CASE d[Len(c)].text = Append(End(c).text, e) /\ Len(d) = Len(c) /\ IsPiece(e)
        BY <1>3, <2>2, <3>2 DEF End
      <3>3. CASE d[Len(c)].text = <<>>
        BY <2>2, <3>3
      <3> QED
        BY <1>1, <3>1, <3>2, <3>3
    <2>3. CASE i > Len(c)
      <3>1. CASE d[i].text = <<>>
        BY <3>1
      <3>2. CASE d[i].text = <<e>> /\ i = Len(d) /\ IsPiece(e)
        <4>1. j = 1 /\ <<e>>[1] = e /\ Len(<<e>>) = 1
          BY <3>2
        <4> QED
          BY <3>2, <4>1
      <3> QED
        BY <1>1, <2>3, <3>1, <3>2
    <2> QED
      BY <1>1, <2>1, <2>2, <2>3
  <1>5. ASSUME NEW i \in 1..Len(c), NEW j \in 1..Len(c[i].text)
        PROVE  \/ OnScreen(d, c[i].text[j])
               \/ i = Len(c) /\ Breaks(e) /\ End(c).kind # "StreamingThinking"
    <2>1. i \in 1..Len(d)
      BY <1>1
    <2>2. CASE i # Len(c)
      BY <1>1, <2>1, <2>2 DEF OnScreen
    <2>3. CASE i = Len(c)
      <3>1. CASE d[Len(c)].text = End(c).text
        BY <2>1, <2>3, <3>1 DEF OnScreen, End
      <3>2. CASE d[Len(c)].text = Append(End(c).text, e)
        <4>1. j \in 1..Len(d[i].text) /\ d[i].text[j] = c[i].text[j]
          BY <1>3, <2>3, <3>2 DEF End
        <4> QED
          BY <2>1, <4>1 DEF OnScreen
      <3> QED
        BY <1>1, <2>3, <3>1, <3>2
    <2> QED
      BY <2>2, <2>3
  <1> QED
    BY <1>4, <1>5
\* An event at the end of a chat, whatever it is.
LEMMA TakeShape ==
    ASSUME NEW c \in Seq(ChatItem), Len(c) > 0, NEW e \in Event, NEW d \in Take(c, e)
    PROVE  /\ Shape(c, e, d)
           /\ e.kind = Thought \/ (e.kind = Said /\ Streams(c)) => OnScreen(d, e)
           /\ IsPiece(e) /\ Streams(c) => Streams(d)
           /\ e.kind # "Done" /\ End(c).kind # "ThinkingText" => End(d).kind # "ThinkingText"
           /\ e.kind = "Done" => End(d).kind # "StreamingAssistant"
           /\ Breaks(e) => End(d).text = <<>>
  <1>1. e.kind \in {Thought, Said, "Dispatch", "Error", "Done"}
    BY DEF Event, EventKind
  <1>2. /\ Thought # Said
        /\ \A k \in {"Dispatch", "Error", "Done"} : Thought # k /\ Said # k
    BY DEF Thought, Said
  <1>3. CASE e.kind = Thought
    <2>1. d = TakeThought(c, e)
      BY <1>2, <1>3 DEF Take
    <2>2. End(d).kind = "StreamingThinking" /\ Shape(c, e, d) /\ OnScreen(d, e)
      BY <1>3, <2>1, ThoughtShape
    <2> QED
      BY <1>2, <1>3, <2>2 DEF Streams, Breaks
  <1>4. CASE e.kind = Said
    <2>1. d = TakeText(c, e)
      BY <1>2, <1>4 DEF Take
    <2>2. /\ Shape(c, e, d)
          /\ Streams(c) => End(d).kind = "StreamingAssistant" /\ OnScreen(d, e)
      BY <1>4, <2>1, TextShape
    <2>3. CASE Streams(c)
      <3>1. e.kind # Thought /\ e.kind # "Done" /\ ~Breaks(e)
        BY <1>2, <1>4 DEF Breaks
      <3>2. /\ Shape(c, e, d) /\ End(d).kind = "StreamingAssistant" /\ OnScreen(d, e)
            /\ End(d).kind # "ThinkingText" /\ Streams(d)
        BY <2>2, <2>3 DEF Streams
      <3> QED
        BY <3>1, <3>2
    <2>4. CASE ~Streams(c)
      <3>1. d = c /\ Shape(c, e, d)
        BY <1>4, <2>1, <2>4, TextShape
      <3> QED
        BY <1>2, <1>4, <2>4, <3>1 DEF Breaks
    <2> QED
      BY <2>3, <2>4
  <1>5. CASE e.kind = "Done"
    <2>1. d = TakeDone(c)
      BY <1>2, <1>5 DEF Take
    <2>2. Shape(c, e, d) /\ End(d).kind # "StreamingAssistant"
      BY <2>1, DoneShape
    <2> QED
      BY <1>2, <1>5, <2>2 DEF Breaks, IsPiece
  <1>6. CASE Breaks(e)
    <2>1. d = TakeError(c) \/ d = TakeDispatch(c)
      BY <1>2, <1>6 DEF Take, Breaks
    <2>2. Shape(c, e, d) /\ End(d).text = <<>> /\ End(d).kind \in {"Error", "TaskPanel"}
      BY <1>6, <2>1, ErrorShape, DispatchShape
    <2> QED
      BY <1>2, <1>6, <2>2 DEF Breaks, IsPiece
  <1> QED
    BY <1>1, <1>3, <1>4, <1>5, <1>6 DEF Breaks

\* The order of the pieces: the first of the channel comes after those of its
\* answer in the chat, and before those that wait.
LEMMA ShapePlaced ==
    ASSUME NEW c \in Seq(ChatItem), Len(c) > 0, NEW q \in Seq(Event), q # <<>>,
           NEW d, Shape(c, Head(q), d),
           Fits(c), Rises(c), Precedes(c, q), Climbs(q)
    PROVE  Fits(d) /\ Rises(d) /\ Precedes(d, Tail(q)) /\ Climbs(Tail(q))
  <1> DEFINE e == Head(q)
             r == Tail(q)
  <1>1. /\ e \in Event /\ e = q[1] /\ 1 \in 1..Len(q)
        /\ r \in Seq(Event) /\ Len(r) = Len(q) - 1
        /\ \A l \in 1..Len(r) : r[l] = q[l + 1] /\ l + 1 \in 1..Len(q) /\ 1 < l + 1
    OBVIOUS
  <1> HIDE DEF e, r
  <1>2. Shape(c, e, d)
    BY DEF e
  <1>3. /\ d \in Seq(ChatItem) /\ Len(c) <= Len(d)
        /\ \A i \in 1..Len(c) : i # Len(c) => d[i] = c[i]
        /\ ItemFits(End(c)) => \A i \in Len(c)..Len(d) : ItemFits(d[i])
    BY <1>2 DEF Shape
  <1>4. \A i \in 1..Len(d) : \A j \in 1..Len(d[i].text) :
           \/ /\ i \in 1..Len(c) /\ j \in 1..Len(c[i].text)
              /\ d[i].text[j] = c[i].text[j]
           \/ i = Len(d) /\ j = Len(d[i].text) /\ d[i].text[j] = e
    BY <1>1, <1>2, ShapeMoves
  <1>5. \A l \in 1..Len(r) : e.of = r[l].of => e.n < r[l].n
    BY <1>1 DEF Climbs
  <1>6. Fits(d)
    <2>1. ASSUME NEW i \in 1..Len(d) PROVE ItemFits(d[i])
      <3>1. ItemFits(End(c))
        <4>1. Len(c) \in 1..Len(c)
          OBVIOUS
        <4> QED
          BY <4>1 DEF Fits, ItemFits, End
      <3>2. CASE i \in 1..Len(c) /\ i # Len(c)
        BY <1>3, <3>2 DEF Fits, ItemFits
      <3>3. CASE i \in Len(c)..Len(d)
        BY <1>3, <3>1, <3>3
      <3> QED
        BY <1>3, <3>2, <3>3
    <2> QED
      BY <2>1 DEF Fits, ItemFits
  <1>7. Rises(d)
    <2> SUFFICES ASSUME NEW i \in 1..Len(d), NEW k \in 1..Len(d),
                        NEW j \in 1..Len(d[i].text), NEW l \in 1..Len(d[k].text),
                        Before(i, j, k, l), d[i].text[j].of = d[k].text[l].of
                 PROVE  d[i].text[j].n < d[k].text[l].n
      BY DEF Rises
    <2>1. ~(i = Len(d) /\ j = Len(d[i].text))
      <3>1. i \in Nat /\ k \in Nat /\ k <= Len(d) /\ Len(d) \in Nat
            /\ j \in Int /\ l \in Int /\ l <= Len(d[k].text)
        BY <1>3
      <3> QED
        BY <3>1 DEF Before
    <2>2. /\ i \in 1..Len(c) /\ j \in 1..Len(c[i].text)
          /\ d[i].text[j] = c[i].text[j]
      BY <1>4, <2>1
    <2>3. CASE /\ k \in 1..Len(c) /\ l \in 1..Len(c[k].text)
               /\ d[k].text[l] = c[k].text[l]
      BY <2>2, <2>3 DEF Rises
    <2>4. CASE d[k].text[l] = e
      BY <1>1, <2>2, <2>4 DEF Precedes
    <2> QED
      BY <1>4, <2>3, <2>4
  <1>8. Precedes(d, r)
    <2> SUFFICES ASSUME NEW i \in 1..Len(d), NEW j \in 1..Len(d[i].text),
                        NEW l \in 1..Len(r), d[i].text[j].of = r[l].of
                 PROVE  d[i].text[j].n < r[l].n
      BY DEF Precedes
    <2>1. CASE d[i].text[j] = e
      BY <1>5, <2>1
    <2>2. CASE /\ i \in 1..Len(c) /\ j \in 1..Len(c[i].text)
               /\ d[i].text[j] = c[i].text[j]
      BY <1>1, <2>2 DEF Precedes
    <2> QED
      BY <1>4, <2>1, <2>2
  <1>9. Climbs(r)
    <2> SUFFICES ASSUME NEW j \in 1..Len(r), NEW l \in 1..Len(r), j < l, r[j].of = r[l].of
                 PROVE  r[j].n < r[l].n
      BY DEF Climbs
    <2>1. j + 1 < l + 1
      OBVIOUS
    <2> QED
      BY <1>1, <2>1 DEF Climbs
  <1> QED
    BY <1>6, <1>7, <1>8, <1>9 DEF r

\* Whose task goes on, or has an event in the channel.
LEMMA LiveIs ==
    ASSUME channel \in Seq(Event)
    PROVE  \A m : m \in Live <=> m \in running \/ \E l \in 1..Len(channel) : channel[l].of = m
  <1>1. DOMAIN channel = 1..Len(channel)
    OBVIOUS
  <1> QED
    BY <1>1, Zenon DEF Live, ToSet

\* The same after a step.
LEMMA LiveIsNext ==
    ASSUME channel' \in Seq(Event)
    PROVE  \A m : m \in Live' <=> m \in running' \/ \E l \in 1..Len(channel') : channel'[l].of = m
  <1>1. DOMAIN channel' = 1..Len(channel')
    OBVIOUS
  <1> QED
    BY <1>1, Zenon DEF Live, ToSet

\* The loop takes the first event of the channel.
LEMMA PollScreen ==
    ASSUME Screen, PollStream
    PROVE  Screen'
  <1> DEFINE e == Head(channel)
             c == chat
             d == chat'
             r == channel'
  <1>1. /\ c \in Seq(ChatItem) /\ Len(c) > 0 /\ channel \in Seq(Event) /\ channel # <<>>
        /\ e \in Event /\ e = channel[1] /\ 1 \in 1..Len(channel)
        /\ r = Tail(channel) /\ r \in Seq(Event) /\ Len(r) = Len(channel) - 1
        /\ \A l \in 1..Len(r) : r[l] = channel[l + 1] /\ l + 1 \in 1..Len(channel) /\ 1 < l + 1
        /\ \A l \in 1..Len(channel) : l # 1 => l - 1 \in 1..Len(r) /\ r[l - 1] = channel[l]
    BY DEF PollStream, Screen, ShownTypes
  <1>2. /\ d \in Take(c, e) /\ working' = (working /\ ~Stops(e))
        /\ short' = short \cup (IF Breaks(e) THEN {e.of} ELSE {})
        /\ UNCHANGED <<mode, queue, quit, typed, handled, running, sent, clean>>
    BY Zenon DEF PollStream, userVars, Breaks
  <1>3. /\ Shape(c, e, d)
        /\ e.kind = Thought \/ (e.kind = Said /\ Streams(c)) => OnScreen(d, e)
        /\ IsPiece(e) /\ Streams(c) => Streams(d)
        /\ e.kind # "Done" /\ End(c).kind # "ThinkingText" => End(d).kind # "ThinkingText"
        /\ e.kind = "Done" => End(d).kind # "StreamingAssistant"
        /\ Breaks(e) => End(d).text = <<>>
    BY <1>1, <1>2, TakeShape
  <1>4. /\ \A i \in 1..Len(d) : \A j \in 1..Len(d[i].text) :
              \/ /\ i \in 1..Len(c) /\ j \in 1..Len(c[i].text)
                 /\ d[i].text[j] = c[i].text[j]
              \/ i = Len(d) /\ j = Len(d[i].text) /\ d[i].text[j] = e /\ IsPiece(e)
        /\ \A i \in 1..Len(c) : \A j \in 1..Len(c[i].text) :
              \/ OnScreen(d, c[i].text[j])
              \/ i = Len(c) /\ Breaks(e) /\ End(c).kind # "StreamingThinking"
    BY <1>1, <1>3, ShapeMoves
  <1>5. d \in Seq(ChatItem) /\ Len(c) <= Len(d) /\ Len(d) > 0
    BY <1>1, <1>3 DEF Shape
  <1>6. /\ Fits(c) /\ Rises(c) /\ Precedes(c, channel) /\ Climbs(channel)
        /\ \A i \in 1..Len(c) : \A j \in 1..Len(c[i].text) : WasSaid(sent, c[i].text[j])
    BY DEF Screen, Placed
  <1>7. Fits(d) /\ Rises(d) /\ Precedes(d, r) /\ Climbs(r)
    BY <1>1, <1>3, <1>6, ShapePlaced
  <1>8. /\ e.kind \in {Said, Thought} => WasSaid(sent, e)
        /\ e.kind = "Done" => /\ e.of \notin running
                              /\ \A l \in 1..Len(channel) : 1 < l => channel[l].of # e.of
    BY <1>1 DEF Screen, Waits
  <1>9. \A m : /\ m \in Live <=> m \in running \/ \E l \in 1..Len(channel) : channel[l].of = m
               /\ m \in Live' <=> m \in running \/ \E l \in 1..Len(r) : r[l].of = m
    BY <1>1, <1>2, LiveIs, LiveIsNext
  <1>10. Live' \subseteq Live /\ e.of \in Live
    BY <1>1, <1>9
  <1>11. \A i \in 1..Len(d) : \A j \in 1..Len(d[i].text) : WasSaid(sent, d[i].text[j])
    BY <1>4, <1>6, <1>8 DEF IsPiece
  <1> HIDE DEF e, c, d, r
  <1>12. ShownTypes'
    <2>1. e.of \in Message
      BY <1>1 DEF Event
    <2> QED
      BY <1>1, <1>2, <1>5, <2>1 DEF Screen, ShownTypes, d, r
  <1>13. Asked'
    <2>1. /\ running \cup clean \cup short \subseteq ToSet(handled)
          /\ \A i \in 1..Len(c) : \A j \in 1..Len(c[i].text) : c[i].text[j].of \in ToSet(handled)
          /\ \A l \in 1..Len(channel) : channel[l].of \in ToSet(handled)
          /\ \A m \in Message : sent[m] # <<>> => m \in ToSet(handled)
      BY DEF Screen, Asked, c
    <2>2. e.of \in ToSet(handled)
      BY <1>1, <2>1
    <2>3. short' \subseteq ToSet(handled)
      BY <1>2, <2>1, <2>2
    <2>4. \A i \in 1..Len(d) : \A j \in 1..Len(d[i].text) : d[i].text[j].of \in ToSet(handled)
      BY <1>4, <2>1, <2>2
    <2>5. \A l \in 1..Len(r) : r[l].of \in ToSet(handled)
      BY <1>1, <2>1
    <2> QED
      BY <1>2, <2>1, <2>3, <2>4, <2>5 DEF Asked, d, r
  <1>14. Waits'
    <2> SUFFICES ASSUME NEW l \in 1..Len(r)
                 PROVE  /\ r[l].kind \in {Said, Thought} => WasSaid(sent, r[l])
                        /\ r[l].of \in running => r[l].n <= Len(sent[r[l].of])
                        /\ r[l].kind = "Done" =>
                              /\ r[l].of \notin running
                              /\ \A k \in 1..Len(r) : l < k => r[k].of # r[l].of
      BY <1>2 DEF Waits, WasSaid, r
    <2>1. r[l] = channel[l + 1] /\ l + 1 \in 1..Len(channel)
      BY <1>1
    <2>2. /\ r[l].kind \in {Said, Thought} => WasSaid(sent, r[l])
          /\ r[l].of \in running => r[l].n <= Len(sent[r[l].of])
          /\ r[l].kind = "Done" =>
                /\ r[l].of \notin running
                /\ \A k \in 1..Len(channel) : l + 1 < k => channel[k].of # r[l].of
      BY <2>1 DEF Screen, Waits
    <2>3. ASSUME r[l].kind = "Done", NEW k \in 1..Len(r), l < k
          PROVE  r[k].of # r[l].of
      <3>1. k + 1 \in 1..Len(channel) /\ l + 1 < k + 1 /\ r[k] = channel[k + 1]
        BY <1>1, <2>3
      <3> QED
        BY <2>2, <2>3, <3>1
    <2> QED
      BY <2>2, <2>3
  <1>15. Placed'
    BY <1>2, <1>7, <1>11 DEF Placed, WasSaid, d, r
  <1>16. ASSUME NEW m \in clean, m \in Live
         PROVE  /\ Live = {m} /\ e.of = m /\ Undisturbed(m)
    BY <1>10, <1>16 DEF Screen, Undisturbed
  <1>17. ASSUME NEW m \in clean, m \notin Live
         PROVE  \A j \in 1..Len(End(c).text) : End(c).text[j].of # m
    BY <1>10, <1>17 DEF Screen, AtRest, c
  <1>18. ASSUME NEW m \in clean PROVE Kept(m)'
    <2> DEFINE kinds == IF m \in short' THEN {Thought} ELSE {Said, Thought}
    <2>1. SUFFICES ASSUME NEW n \in 1..Len(sent[m]), sent[m][n] \in kinds
                   PROVE  OnScreen(d, PieceOf(m, n)) \/ \E l \in 1..Len(r) : r[l] = PieceOf(m, n)
      BY <1>2 DEF Kept, OnScreen, Waiting, PieceOf, d, r
    <2> DEFINE p == PieceOf(m, n)
    <2>2. p.kind = sent[m][n] /\ p.of = m /\ p.kind \in {Said, Thought}
      BY <2>1 DEF PieceOf
    <2>3. OnScreen(c, p) \/ \E l \in 1..Len(channel) : channel[l] = p
      <3>1. m \in short => m \in short'
        BY <1>2
      <3> QED
        BY <2>1, <3>1 DEF Screen, Kept, Waiting, c
    <2> HIDE DEF p
    <2>4. ASSUME NEW l \in 1..Len(channel), channel[l] = p
          PROVE  OnScreen(d, p) \/ \E k \in 1..Len(r) : r[k] = p
      <3>1. CASE l # 1
        BY <1>1, <2>4, <3>1
      <3>2. CASE l = 1
        <4>1. p = e /\ e.of = m /\ m \in Live
          BY <1>1, <1>10, <2>2, <2>4, <3>2
        <4>2. CASE e.kind = Thought
          BY <1>3, <4>1, <4>2
        <4>3. CASE e.kind = Said
          <5>1. m \notin short
            <6>1. Said # Thought
              BY DEF Said, Thought
            <6> QED
              BY <1>2, <2>1, <2>2, <4>1, <4>3, <6>1
          <5>2. Streams(c)
            BY <1>16, <4>1, <5>1 DEF Undisturbed, c
          <5> QED
            BY <1>3, <4>1, <4>3, <5>2
        <4> QED
          BY <2>2, <4>1, <4>2, <4>3
      <3> QED
        BY <3>1, <3>2
    <2>5. ASSUME NEW i \in 1..Len(c), NEW j \in 1..Len(c[i].text), c[i].text[j] = p
          PROVE  OnScreen(d, p)
      <3>1. CASE i = Len(c) /\ Breaks(e) /\ End(c).kind # "StreamingThinking"
        <4>1. j \in 1..Len(End(c).text) /\ End(c).text[j].of = m
          BY <2>2, <2>5, <3>1 DEF End
        <4>2. m \in Live
          BY <1>17, <4>1
        <4>3. m \in short'
          BY <1>2, <1>16, <3>1, <4>2
        <4>4. p.kind = Thought
          BY <2>1, <2>2, <4>3
        <4>5. End(c).kind \in Thinks
          BY <1>6, <2>5, <3>1, <4>4 DEF Fits, End
        <4>6. End(c).kind # "ThinkingText"
          BY <1>16, <4>2 DEF Undisturbed, c
        <4> QED
          BY <3>1, <4>5, <4>6 DEF Thinks
      <3> QED
        BY <1>4, <2>5, <3>1
    <2> QED
      BY <2>3, <2>4, <2>5 DEF OnScreen, p
  <1>19. ASSUME NEW m \in clean, m \in Live' PROVE Undisturbed(m)'
    <2>1. m \in Live /\ Live = {m} /\ e.of = m /\ Undisturbed(m)
      BY <1>10, <1>16, <1>19
    <2>2. Live' = {m}
      BY <1>10, <1>19, <2>1
    <2>3. e.kind # "Done"
      <3> SUFFICES ASSUME e.kind = "Done" PROVE FALSE
        OBVIOUS
      <3>1. m \notin running /\ \A l \in 1..Len(channel) : 1 < l => channel[l].of # m
        BY <1>8, <2>1
      <3>2. PICK l \in 1..Len(r) : r[l].of = m
        BY <1>9, <1>19, <3>1
      <3> QED
        BY <1>1, <3>1, <3>2
    <2>4. End(d).kind # "ThinkingText"
      BY <1>3, <2>1, <2>3 DEF Undisturbed, c
    <2>5. ASSUME m \notin short' PROVE Streams(d) /\ working'
      <3>1. m \notin short /\ ~Breaks(e)
        BY <1>2, <2>1, <2>5
      <3>2. e.kind \in {Thought, Said}
        BY <1>1, <2>3, <3>1 DEF Event, EventKind, Breaks
      <3>3. Streams(c) /\ working
        BY <2>1, <3>1 DEF Undisturbed, c
      <3>4. Streams(d)
        BY <1>3, <3>2, <3>3 DEF IsPiece
      <3>5. ~Stops(e)
        BY <3>2 DEF Stops
      <3> QED
        BY <1>2, <3>3, <3>4, <3>5
    <2>6. ASSUME m \notin running PROVE r # <<>> /\ r[Len(r)].kind \in Final
      <3>1. PICK l \in 1..Len(r) : r[l].of = m
        BY <1>9, <1>19, <2>6
      <3>2. Len(r) \in 1..Len(r) /\ Len(r) + 1 = Len(channel)
        BY <1>1, <3>1
      <3>3. r[Len(r)] = channel[Len(channel)]
        BY <1>1, <3>2
      <3>4. channel[Len(channel)].kind \in Final
        BY <2>1, <2>6 DEF Undisturbed
      <3>5. r # <<>>
        <4>1. \A s : s = <<>> => Len(s) = 0
          OBVIOUS
        <4> QED
          BY <3>2, <4>1
      <3> QED
        BY <3>3, <3>4, <3>5
    <2> QED
      BY <1>2, <2>2, <2>4, <2>5, <2>6 DEF Undisturbed, d, r
  <1>20. ASSUME NEW m \in clean, m \notin Live' PROVE AtRest(m)'
    <2> SUFFICES ASSUME NEW j \in 1..Len(End(d).text), End(d).text[j].of = m
                 PROVE  Live' = {} /\ End(d).kind # "StreamingAssistant"
      BY DEF AtRest, d
    <2>1. CASE m \in Live
      <3>1. Live = {m} /\ e.of = m /\ Undisturbed(m)
        BY <1>16, <2>1
      <3>2. Live' = {}
        BY <1>10, <1>20, <3>1
      <3>3. m \notin running /\ \A l \in 1..Len(r) : FALSE
        <4>1. \A l \in 1..Len(r) : r[l].of \in Live'
          BY <1>9
        <4> QED
          BY <1>9, <1>20, <3>2, <4>1
      <3>4. Len(channel) = 1
        <4>1. Len(r) \in Nat /\ Len(r) = Len(channel) - 1 /\ Len(channel) \in Nat
          BY <1>1
        <4>2. ~(1 <= Len(r))
          BY <3>3, <4>1
        <4> QED
          BY <4>1, <4>2
      <3>5. e.kind \in Final
        BY <1>1, <3>1, <3>3, <3>4 DEF Undisturbed
      <3>6. ~Breaks(e)
        BY <1>3
      <3>7. e.kind = "Done"
        BY <3>5, <3>6 DEF Final, Breaks
      <3> QED
        BY <1>3, <3>2, <3>7
    <2>2. CASE m \notin Live
      <3>1. Len(d) \in 1..Len(d) /\ d[Len(d)] = End(d)
        BY <1>5 DEF End
      <3>2. CASE End(d).text[j] = e
        BY <1>10, <2>2, <3>2
      <3>3. CASE /\ Len(d) \in 1..Len(c) /\ j \in 1..Len(c[Len(d)].text)
                 /\ d[Len(d)].text[j] = c[Len(d)].text[j]
        <4>1. Len(d) = Len(c)
          BY <1>1, <1>5, <3>3
        <4>2. j \in 1..Len(End(c).text) /\ End(c).text[j].of = m
          BY <3>1, <3>3, <4>1 DEF End
        <4> QED
          BY <1>17, <2>2, <4>2
      <3> QED
        BY <1>4, <3>1, <3>2, <3>3
    <2> QED
      BY <2>1, <2>2
  <1> QED
    BY <1>2, <1>12, <1>13, <1>14, <1>15, <1>18, <1>19, <1>20 DEF Screen

\* d is c with items below it that hold nothing yet.
Extends(c, d) ==
    /\ d \in Seq(ChatItem) /\ Len(c) <= Len(d) /\ Len(d) > 0
    /\ \A i \in 1..Len(c) : d[i] = c[i]
    /\ \A i \in 1..Len(d) : i > Len(c) => d[i].text = <<>>

\* One line more below the chat.
LEMMA AppendExtends ==
    ASSUME NEW c \in Seq(ChatItem), Len(c) > 0, NEW x \in ChatItem, x.text = <<>>
    PROVE  Extends(c, Append(c, x)) /\ End(Append(c, x)) = x
  BY DEF Extends, End

\* Two lines more.
LEMMA ConcatExtends ==
    ASSUME NEW c \in Seq(ChatItem), Len(c) > 0, NEW x \in ChatItem, x.text = <<>>,
           NEW y \in ChatItem, y.text = <<>>
    PROVE  Extends(c, c \o <<x, y>>) /\ End(c \o <<x, y>>) = y
  <1> DEFINE d == c \o <<x, y>>
  <1>1. /\ d \in Seq(ChatItem) /\ Len(d) = Len(c) + 2
        /\ \A i \in 1..Len(c) : d[i] = c[i]
        /\ d[Len(c) + 1] = x /\ d[Len(c) + 2] = y
    <2>1. <<x, y>> \in Seq(ChatItem) /\ Len(<<x, y>>) = 2 /\ <<x, y>>[1] = x /\ <<x, y>>[2] = y
      OBVIOUS
    <2> QED
      BY <2>1
  <1> HIDE DEF d
  <1>2. \A i \in 1..Len(d) : i > Len(c) => i = Len(c) + 1 \/ i = Len(c) + 2
    BY <1>1
  <1> QED
    BY <1>1, <1>2 DEF Extends, End, d

\* What a message leaves of the chat.
LEMMA ShownShape ==
    ASSUME chat \in Seq(ChatItem), Len(chat) > 0, NEW m, typed'[m] \in Kind
    PROVE  LET d == Shown(chat, m)
           IN  /\ typed'[m] = "clear" => d = <<System>>
               /\ typed'[m] # "clear" => Extends(chat, d)
               /\ typed'[m] # "clear" => d = chat \/ End(d).text = <<>>
               /\ typed'[m] # "clear" =>
                     d = chat \/ End(d).kind \in {"SystemMessage", "UserMessage", "StreamingAssistant"}
               /\ typed'[m] = "ask" /\ mode # "task" => End(d) = Streaming
               /\ typed'[m] = "ask" /\ mode = "task" => End(d).kind = "UserMessage"
  <1>1. /\ System.kind = "SystemMessage" /\ User.kind = "UserMessage"
        /\ Streaming.kind = "StreamingAssistant"
    BY DEF System, User, Streaming, Item
  <1> DEFINE d == Shown(chat, m)
  <1>2. CASE typed'[m] \in {"quiet", "quit"}
    <2>1. d = chat
      BY <1>2 DEF Shown
    <2>2. Extends(chat, chat)
      BY DEF Extends
    <2> QED
      BY <1>2, <2>1, <2>2
  <1>3. CASE typed'[m] = "clear"
    BY <1>3 DEF Shown
  <1>4. CASE typed'[m] \in {"loud", "task", "back"}
    <2>1. d = Append(chat, System)
      BY <1>4 DEF Shown
    <2> HIDE DEF d
    <2>2. Extends(chat, d) /\ End(d) = System
      BY <2>1, Items, AppendExtends
    <2> QED
      BY <1>1, <1>4, <2>2, Items DEF d
  <1>5. CASE typed'[m] \in {"ask", "status"} /\ mode = "task"
    <2>1. d = Append(chat, User)
      BY <1>5 DEF Shown
    <2> HIDE DEF d
    <2>2. Extends(chat, d) /\ End(d) = User
      BY <2>1, Items, AppendExtends
    <2> QED
      BY <1>1, <1>5, <2>2, Items DEF d
  <1>6. CASE typed'[m] = "status" /\ mode # "task"
    <2>1. d = chat \o <<User, System>>
      BY <1>6 DEF Shown
    <2> HIDE DEF d
    <2>2. Extends(chat, d) /\ End(d) = System
      BY <2>1, Items, ConcatExtends
    <2> QED
      BY <1>1, <1>6, <2>2, Items DEF d
  <1>7. CASE typed'[m] = "ask" /\ mode # "task"
    <2>1. d = chat \o <<User, Streaming>>
      BY <1>7 DEF Shown
    <2> HIDE DEF d
    <2>2. Extends(chat, d) /\ End(d) = Streaming
      BY <2>1, Items, ConcatExtends
    <2> QED
      BY <1>1, <1>7, <2>2, Items DEF d
  <1> QED
    BY <1>2, <1>3, <1>4, <1>5, <1>6, <1>7 DEF Kind

\* Every text that is there was there before.
OldTexts(c, d) ==
    /\ d \in Seq(ChatItem) /\ Len(d) > 0
    /\ \A i \in 1..Len(d) : \A j \in 1..Len(d[i].text) : i \in 1..Len(c) /\ d[i] = c[i]

\* Lines below a chat take and move no text.
LEMMA ExtendsOld ==
    ASSUME NEW c \in Seq(ChatItem), Len(c) > 0, NEW d, Extends(c, d)
    PROVE  OldTexts(c, d) /\ \A e : OnScreen(c, e) => OnScreen(d, e)
  <1>1. OldTexts(c, d)
    <2> SUFFICES ASSUME NEW i \in 1..Len(d), NEW j \in 1..Len(d[i].text)
                 PROVE  i \in 1..Len(c) /\ d[i] = c[i]
      BY DEF OldTexts, Extends
    <2>1. CASE i > Len(c)
      <3>1. Len(d[i].text) = 0
        BY <2>1 DEF Extends
      <3> QED
        BY <3>1
    <2>2. CASE ~(i > Len(c))
      BY <2>2 DEF Extends
    <2> QED
      BY <2>1, <2>2
  <1>2. \A i \in 1..Len(c) : i \in 1..Len(d) /\ d[i] = c[i]
    BY DEF Extends
  <1> QED
    BY <1>1, <1>2 DEF OnScreen

\* /clear leaves no text.
LEMMA ClearOld ==
    ASSUME NEW c
    PROVE  OldTexts(c, <<System>>) /\ End(<<System>>).kind = "SystemMessage"
  <1>1. /\ <<System>> \in Seq(ChatItem) /\ Len(<<System>>) = 1
        /\ <<System>>[1] = System /\ Len(System.text) = 0
    BY Items
  <1> QED
    BY <1>1 DEF OldTexts, End, System, Item

\* Fewer texts are still in their places.
LEMMA OldPlaced ==
    ASSUME NEW c, NEW d, OldTexts(c, d), NEW q,
           Fits(c), Rises(c), Precedes(c, q),
           \A i \in 1..Len(c) : \A j \in 1..Len(c[i].text) : WasSaid(sent, c[i].text[j])
    PROVE  /\ Fits(d) /\ Rises(d) /\ Precedes(d, q)
           /\ \A i \in 1..Len(d) : \A j \in 1..Len(d[i].text) : WasSaid(sent, d[i].text[j])
  <1>1. \A i \in 1..Len(d) : \A j \in 1..Len(d[i].text) : i \in 1..Len(c) /\ d[i] = c[i]
    BY DEF OldTexts
  <1>2. Fits(d)
    BY <1>1 DEF Fits
  <1>3. Rises(d)
    BY <1>1 DEF Rises
  <1>4. Precedes(d, q)
    BY <1>1 DEF Precedes
  <1> QED
    BY <1>1, <1>2, <1>3, <1>4

\* A message is sent when nothing is being worked on.
LEMMA SendScreen ==
    ASSUME Screen, NEW m \in Message, m \notin ToSet(handled), handled \in Seq(Nat),
           SendMessage(m), ~working, typed'[m] \in Kind, Len(typed') <= MaxTyped,
           UNCHANGED <<channel, sent, short>>
    PROVE  Screen'
  <1> DEFINE c == chat
             d == chat'
             kind == typed'[m]
  <1>1. /\ c \in Seq(ChatItem) /\ Len(c) > 0 /\ channel \in Seq(Event)
        /\ sent \in [Message -> Seq(EventKind)]
        /\ running \subseteq Message /\ clean \subseteq Message /\ short \subseteq Message
    BY DEF Screen, ShownTypes
  <1>2. /\ handled' = Append(handled, m) /\ d = Shown(c, m)
        /\ working' = (kind = "ask" /\ mode # "task")
        /\ running' = running \cup (IF WantsAnswer(d) THEN {m} ELSE {})
    BY DEF SendMessage
  <1>3. /\ kind = "clear" => clean' = {}
        /\ \A x \in clean' : \/ x \in clean /\ (x \in Live => m \notin running')
                             \/ x = m /\ kind = "ask" /\ Live = {} /\ m \in running'
    BY DEF SendMessage
  <1>4. /\ kind = "clear" => d = <<System>>
        /\ kind # "clear" => Extends(c, d)
        /\ kind # "clear" => d = c \/ End(d).text = <<>>
        /\ kind # "clear" =>
              d = c \/ End(d).kind \in {"SystemMessage", "UserMessage", "StreamingAssistant"}
        /\ kind = "ask" /\ mode # "task" => End(d) = Streaming
        /\ kind = "ask" /\ mode = "task" => End(d).kind = "UserMessage"
    BY <1>1, <1>2, ShownShape
  <1>5. /\ m \notin running /\ m \notin clean /\ m \notin short
        /\ sent[m] = <<>>
    BY DEF Screen, Asked
  <1>6. ToSet(handled') = ToSet(handled) \cup {m}
    <2>1. /\ Len(handled') = Len(handled) + 1 /\ handled'[Len(handled) + 1] = m
          /\ \A i \in 1..Len(handled) : handled'[i] = handled[i]
          /\ DOMAIN handled' = 1..(Len(handled) + 1) /\ DOMAIN handled = 1..Len(handled)
          /\ 1..(Len(handled) + 1) = (1..Len(handled)) \cup {Len(handled) + 1}
      BY <1>1, <1>2
    <2> QED
      BY <2>1 DEF ToSet
  <1> HIDE DEF c, d, kind
  <1>7. OldTexts(c, d) /\ (kind # "clear" => \A e : OnScreen(c, e) => OnScreen(d, e))
    BY <1>1, <1>4, ExtendsOld, ClearOld
  <1>8. d \in Seq(ChatItem) /\ Len(d) > 0
    BY <1>7 DEF OldTexts
  <1>9. WantsAnswer(d) <=> End(d).kind = "StreamingAssistant"
    BY <1>8, LastIsEnd DEF WantsAnswer
  <1>10. /\ \A x : x \in Live <=> x \in running \/ \E l \in 1..Len(channel) : channel[l].of = x
         /\ \A x : x \in Live' <=> x \in Live \/ (x = m /\ WantsAnswer(d))
    <2>1. \A x : x \in Live <=> x \in running \/ \E l \in 1..Len(channel) : channel[l].of = x
      BY <1>1, LiveIs
    <2>2. \A x : x \in Live' <=> x \in running' \/ \E l \in 1..Len(channel) : channel[l].of = x
      BY <1>1, LiveIsNext
    <2>3. \A x : x \in running' <=> x \in running \/ (x = m /\ WantsAnswer(d))
      BY <1>2
    <2> QED
      BY <2>1, <2>2, <2>3, Zenon
  <1>11. m \notin Live
    BY <1>5, <1>10 DEF Screen, Asked
  <1>12. ShownTypes'
    <2>1. clean' \subseteq Message /\ running' \subseteq Message
      BY <1>1, <1>2, <1>3
    <2> QED
      BY <1>1, <1>8, <2>1 DEF ShownTypes, d
  <1>13. Asked'
    <2>1. \A i \in 1..Len(d) : \A j \in 1..Len(d[i].text) : d[i].text[j].of \in ToSet(handled)
      BY <1>7 DEF OldTexts, Screen, Asked, c
    <2>2. running' \cup clean' \cup short \subseteq ToSet(handled')
      BY <1>2, <1>3, <1>6 DEF Screen, Asked
    <2>3. /\ \A l \in 1..Len(channel) : channel[l].of \in ToSet(handled)
          /\ \A x \in Message : sent[x] # <<>> => x \in ToSet(handled)
      BY DEF Screen, Asked
    <2> QED
      BY <1>6, <2>1, <2>2, <2>3 DEF Asked, d
  <1>14. Waits'
    <2> SUFFICES ASSUME NEW l \in 1..Len(channel)
                 PROVE  /\ channel[l].kind \in {Said, Thought} => WasSaid(sent, channel[l])
                        /\ channel[l].of \in running' => channel[l].n <= Len(sent[channel[l].of])
                        /\ channel[l].kind = "Done" =>
                              /\ channel[l].of \notin running'
                              /\ \A k \in 1..Len(channel) : l < k => channel[k].of # channel[l].of
      BY DEF Waits, WasSaid
    <2>1. channel[l].of # m
      BY <1>10, <1>11
    <2>2. channel[l].of \in running' <=> channel[l].of \in running
      BY <1>2, <2>1
    <2> QED
      BY <2>2 DEF Screen, Waits
  <1>15. Placed'
    <2>1. /\ Fits(c) /\ Rises(c) /\ Precedes(c, channel) /\ Climbs(channel)
          /\ \A i \in 1..Len(c) : \A j \in 1..Len(c[i].text) : WasSaid(sent, c[i].text[j])
      BY DEF Screen, Placed, c
    <2>2. /\ Fits(d) /\ Rises(d) /\ Precedes(d, channel)
          /\ \A i \in 1..Len(d) : \A j \in 1..Len(d[i].text) : WasSaid(sent, d[i].text[j])
      BY <1>7, <2>1, OldPlaced
    <2> QED
      BY <2>1, <2>2 DEF Placed, WasSaid, d
  <1>16. ASSUME NEW x \in clean' PROVE Kept(x)'
    <2> SUFFICES ASSUME NEW n \in 1..Len(sent[x]),
                        sent[x][n] \in (IF x \in short THEN {Thought} ELSE {Said, Thought})
                 PROVE  OnScreen(d, PieceOf(x, n)) \/ Waiting(PieceOf(x, n))
      BY DEF Kept, Waiting, PieceOf, OnScreen, d
    <2>1. x \in clean
      <3>1. x # m
        BY <1>5
      <3> QED
        BY <1>3, <3>1
    <2>2. kind # "clear"
      BY <1>3
    <2> QED
      BY <1>7, <2>1, <2>2 DEF Screen, Kept, c
  <1>17. ASSUME NEW x \in clean', x \in Live' PROVE Undisturbed(x)'
    <2>1. CASE x = m
      <3>1. kind = "ask" /\ Live = {} /\ m \in running'
        BY <1>3, <1>5, <2>1
      <3>2. WantsAnswer(d)
        BY <1>2, <1>5, <3>1
      <3>3. mode # "task"
        BY <1>4, <1>9, <3>1, <3>2
      <3>4. End(d).kind = "StreamingAssistant" /\ working'
        BY <1>2, <1>9, <3>1, <3>2, <3>3 DEF kind
      <3>5. Live' = {m}
        BY <1>10, <3>1, <3>2
      <3> QED
        BY <2>1, <3>1, <3>4, <3>5 DEF Undisturbed, Streams, d
    <2>2. CASE x # m
      <3>1. x \in clean /\ x \in Live
        <4>1. x \in Live
          BY <1>10, <1>17, <2>2, Zenon
        <4> QED
          BY <1>3, <2>2, <4>1, Zenon
      <3>2. ~WantsAnswer(d) /\ running' = running
        <4>1. m \notin running'
          BY <1>3, <1>5, <2>2, <3>1
        <4> QED
          BY <1>2, <4>1
      <3>3. Live' = Live
        BY <1>10, <3>2
      <3>4. Undisturbed(x)
        BY <3>1 DEF Screen
      <3>5. x \in short
        BY <3>4 DEF Undisturbed
      <3>6. End(d).kind # "ThinkingText"
        <4>1. kind # "clear"
          BY <1>3
        <4> QED
          BY <1>4, <3>4, <4>1 DEF Undisturbed, c
      <3> QED
        BY <3>2, <3>3, <3>4, <3>5, <3>6 DEF Undisturbed, d
    <2> QED
      BY <2>1, <2>2
  <1>18. ASSUME NEW x \in clean', x \notin Live' PROVE AtRest(x)'
    <2> SUFFICES ASSUME NEW j \in 1..Len(End(d).text), End(d).text[j].of = x
                 PROVE  Live' = {} /\ End(d).kind # "StreamingAssistant"
      BY DEF AtRest, d
    <2>1. kind # "clear"
      BY <1>3
    <2>2. d = c
      <3>1. End(d).text # <<>>
        <4>1. \A s : s = <<>> => Len(s) = 0
          OBVIOUS
        <4> QED
          BY <4>1
      <3> QED
        BY <1>4, <2>1, <3>1
    <2>3. x \in clean /\ x \notin Live
      <3>1. x # m
        <4>1. x = m => m \in running' /\ m \notin running
          BY <1>3, <1>5
        <4> QED
          BY <1>2, <1>10, <1>18, <4>1
      <3> QED
        BY <1>3, <1>10, <1>18, <3>1
    <2>4. Live = {} /\ End(d).kind # "StreamingAssistant"
      BY <2>2, <2>3 DEF Screen, AtRest, c
    <2>5. Live' = {}
      BY <1>9, <1>10, <2>4
    <2> QED
      BY <2>4, <2>5
  <1> QED
    BY <1>12, <1>13, <1>14, <1>15, <1>16, <1>17, <1>18 DEF Screen

\* The user or a notification ends what the answers under way had to themselves.
LEMMA DisturbedScreen ==
    ASSUME Screen, clean' = clean \ Live,
           chat' = chat \/ chat' = Append(chat, System),
           UNCHANGED <<typed, handled, running, channel, sent, short>>
    PROVE  Screen'
  <1> DEFINE c == chat
             d == chat'
  <1>1. c \in Seq(ChatItem) /\ Len(c) > 0
    BY DEF Screen, ShownTypes
  <1>2. Extends(c, d) /\ (d = c \/ End(d).text = <<>>)
    <2>1. Extends(c, c)
      BY <1>1 DEF Extends
    <2> QED
      BY <1>1, <2>1, Items, AppendExtends
  <1>3. OldTexts(c, d) /\ \A e : OnScreen(c, e) => OnScreen(d, e)
    BY <1>1, <1>2, ExtendsOld
  <1>4. Live' = Live
    BY DEF Live
  <1> HIDE DEF c, d
  <1>5. ShownTypes'
    <2>1. d \in Seq(ChatItem) /\ Len(d) > 0
      BY <1>2 DEF Extends
    <2> QED
      BY <2>1 DEF Screen, ShownTypes, d
  <1>6. Asked'
    <2>1. \A i \in 1..Len(d) : \A j \in 1..Len(d[i].text) : d[i].text[j].of \in ToSet(handled)
      BY <1>3 DEF OldTexts, Screen, Asked, c
    <2> QED
      BY <2>1 DEF Screen, Asked, d
  <1>7. Waits'
    BY DEF Screen, Waits, WasSaid
  <1>8. Placed'
    <2>1. /\ Fits(c) /\ Rises(c) /\ Precedes(c, channel) /\ Climbs(channel)
          /\ \A i \in 1..Len(c) : \A j \in 1..Len(c[i].text) : WasSaid(sent, c[i].text[j])
      BY DEF Screen, Placed, c
    <2>2. /\ Fits(d) /\ Rises(d) /\ Precedes(d, channel)
          /\ \A i \in 1..Len(d) : \A j \in 1..Len(d[i].text) : WasSaid(sent, d[i].text[j])
      BY <1>3, <2>1, OldPlaced
    <2> QED
      BY <2>1, <2>2 DEF Placed, WasSaid, d
  <1>9. ASSUME NEW x \in clean'
        PROVE  /\ Kept(x)' /\ x \notin Live' /\ AtRest(x)'
    <2>1. x \in clean /\ x \notin Live /\ x \notin Live'
      BY <1>4
    <2>2. Kept(x)'
      <3> SUFFICES ASSUME NEW n \in 1..Len(sent[x]),
                          sent[x][n] \in (IF x \in short THEN {Thought} ELSE {Said, Thought})
                   PROVE  OnScreen(d, PieceOf(x, n)) \/ Waiting(PieceOf(x, n))
        BY DEF Kept, Waiting, PieceOf, OnScreen, d
      <3> QED
        BY <1>3, <2>1 DEF Screen, Kept, c
    <2>3. AtRest(x)'
      <3> SUFFICES ASSUME NEW j \in 1..Len(End(d).text), End(d).text[j].of = x
                   PROVE  Live = {} /\ End(d).kind # "StreamingAssistant"
        BY <1>4 DEF AtRest, d
      <3>1. d = c
        <4>1. \A s : s = <<>> => Len(s) = 0
          OBVIOUS
        <4>2. End(d).text # <<>>
          BY <4>1
        <4> QED
          BY <1>2, <4>2
      <3> QED
        BY <2>1, <3>1 DEF Screen, AtRest, c
    <2> QED
      BY <2>1, <2>2, <2>3
  <1> QED
    BY <1>5, <1>6, <1>7, <1>8, <1>9 DEF Screen

\* A task sends something and may end with it.
LEMMA PutPlaced ==
    ASSUME Screen, NEW m \in running, NEW kind \in EventKind, Put(m, kind),
           running' = running \/ running' = running \ {m}
    PROVE  /\ channel' \in Seq(Event) /\ Len(channel') = Len(channel) + 1
           /\ channel'[Len(channel) + 1] = [kind |-> kind, of |-> m, n |-> Len(sent[m]) + 1]
           /\ \A l \in 1..Len(channel) : channel'[l] = channel[l]
           /\ \A l \in 1..Len(channel') : l \in 1..Len(channel) \/ l = Len(channel) + 1
           /\ Precedes(chat, channel') /\ Climbs(channel')
           /\ Live' = Live
  <1> DEFINE e == [kind |-> kind, of |-> m, n |-> Len(sent[m]) + 1]
  <1>1. /\ channel \in Seq(Event) /\ sent \in [Message -> Seq(EventKind)]
        /\ running \subseteq Message /\ m \in Message
    BY DEF Screen, ShownTypes
  <1>2. /\ e \in Event /\ e.of = m /\ e.n = Len(sent[m]) + 1 /\ Len(sent[m]) \in Nat
    BY <1>1 DEF Event
  <1>3. channel' = Append(channel, e)
    BY DEF Put
  <1> HIDE DEF e
  <1>4. /\ channel' \in Seq(Event) /\ Len(channel') = Len(channel) + 1
        /\ channel'[Len(channel) + 1] = e
        /\ \A l \in 1..Len(channel) : channel'[l] = channel[l]
        /\ \A l \in 1..Len(channel') : l \in 1..Len(channel) \/ l = Len(channel) + 1
        /\ \A l \in 1..Len(channel) : l \in 1..Len(channel')
        /\ Len(channel) + 1 \in 1..Len(channel') /\ Len(channel) \in Nat
    BY <1>1, <1>2, <1>3
  <1>5. Precedes(chat, channel')
    <2> SUFFICES ASSUME NEW i \in 1..Len(chat), NEW j \in 1..Len(chat[i].text),
                        NEW l \in 1..Len(channel'), chat[i].text[j].of = channel'[l].of
                 PROVE  chat[i].text[j].n < channel'[l].n
      BY DEF Precedes
    <2>1. CASE l \in 1..Len(channel)
      BY <1>4, <2>1 DEF Screen, Placed, Precedes
    <2>2. CASE channel'[l] = e
      <3>1. chat[i].text[j].n \in 1..Len(sent[m])
        BY <1>2, <2>2 DEF Screen, Placed, WasSaid
      <3> QED
        BY <1>2, <2>2, <3>1
    <2> QED
      BY <1>4, <2>1, <2>2
  <1>6. Climbs(channel')
    <2> SUFFICES ASSUME NEW j \in 1..Len(channel'), NEW l \in 1..Len(channel'),
                        j < l, channel'[j].of = channel'[l].of
                 PROVE  channel'[j].n < channel'[l].n
      BY DEF Climbs
    <2>1. j \in 1..Len(channel) /\ channel'[j] = channel[j]
      BY <1>4
    <2>2. CASE l \in 1..Len(channel)
      BY <1>4, <2>1, <2>2 DEF Screen, Placed, Climbs
    <2>3. CASE channel'[l] = e
      <3>1. channel[j].n <= Len(sent[m])
        BY <1>2, <2>1, <2>3 DEF Screen, Waits
      <3>2. channel[j].n \in Nat
        <4>1. channel[j] \in Event
          BY <1>1, <2>1
        <4> QED
          BY <4>1 DEF Event
      <3> QED
        BY <1>2, <2>1, <2>3, <3>1, <3>2
    <2> QED
      BY <1>4, <2>2, <2>3
  <1>7. Live' = Live
    <2>1. \A x : x \in Live <=> x \in running \/ \E l \in 1..Len(channel) : channel[l].of = x
      BY <1>1, LiveIs
    <2>2. \A x : x \in Live' <=> x \in running' \/ \E l \in 1..Len(channel') : channel'[l].of = x
      BY <1>4, LiveIsNext
    <2>3. \A x : (\E l \in 1..Len(channel') : channel'[l].of = x)
                    <=> (\E l \in 1..Len(channel) : channel[l].of = x) \/ x = m
      BY <1>2, <1>4
    <2>4. \A x : x \in running' \/ x = m <=> x \in running \/ x = m
      OBVIOUS
    <2>5. \A x : x \in Live' <=> x \in Live
      BY <2>1, <2>2, <2>3, <2>4, Zenon
    <2> QED
      BY <2>5
  <1> QED
    BY <1>4, <1>5, <1>6, <1>7 DEF e

\* What the actions of a task leave alone.
LEMMA PutRest ==
    ASSUME Screen, NEW m \in running, Live' = Live, UNCHANGED <<chat, clean, short, working>>,
           \A x \in clean : Kept(x)',
           m \in running' \/ (channel' # <<>> /\ channel'[Len(channel')].kind \in Final)
    PROVE  \A x \in clean' : Kept(x)' /\ (x \in Live' => Undisturbed(x)')
                                      /\ (x \notin Live' => AtRest(x)')
  <1>1. m \in Live
    BY DEF Live
  <1>2. ASSUME NEW x \in clean, x \in Live PROVE Undisturbed(x)'
    <2>1. Undisturbed(x) /\ x = m
      BY <1>1, <1>2 DEF Screen, Undisturbed
    <2> QED
      BY <2>1 DEF Undisturbed
  <1>3. ASSUME NEW x \in clean, x \notin Live PROVE AtRest(x)'
    BY <1>1, <1>3 DEF Screen, AtRest
  <1> QED
    BY <1>2, <1>3

\* A task sends something and goes on.
LEMMA EmitScreen ==
    ASSUME Screen, NEW m \in Message, NEW kind \in EventKind \ {"Done"}, Emit(m, kind)
    PROVE  Screen'
  <1> DEFINE e == [kind |-> kind, of |-> m, n |-> Len(sent[m]) + 1]
  <1>1. /\ m \in running /\ Put(m, kind) /\ sent' = [sent EXCEPT ![m] = Append(@, kind)]
        /\ UNCHANGED <<typed, handled, chat, working, running, clean, short>>
    BY Zenon DEF Emit, userVars
  <1>2. /\ channel' \in Seq(Event) /\ Len(channel') = Len(channel) + 1
        /\ channel'[Len(channel) + 1] = e
        /\ \A l \in 1..Len(channel) : channel'[l] = channel[l]
        /\ \A l \in 1..Len(channel') : l \in 1..Len(channel) \/ l = Len(channel) + 1
        /\ Precedes(chat, channel') /\ Climbs(channel')
        /\ Live' = Live
    BY <1>1, PutPlaced
  <1>3. /\ e.kind = kind /\ e.of = m /\ e.n = Len(sent[m]) + 1 /\ kind # "Done"
        /\ kind \in EventKind
    OBVIOUS
  <1> HIDE DEF e
  <1>4. /\ channel \in Seq(Event) /\ sent \in [Message -> Seq(EventKind)]
        /\ chat \in Seq(ChatItem) /\ Len(chat) > 0
        /\ running \subseteq Message /\ clean \subseteq Message /\ short \subseteq Message
        /\ Len(typed) <= MaxTyped
    BY DEF Screen, ShownTypes
  <1>5. /\ sent' \in [Message -> Seq(EventKind)]
        /\ Len(sent'[m]) = Len(sent[m]) + 1 /\ sent'[m][Len(sent[m]) + 1] = kind
        /\ \A n \in 1..Len(sent'[m]) : n \in 1..Len(sent[m]) \/ n = Len(sent[m]) + 1
        /\ \A x \in Message : \A n \in 1..Len(sent[x]) :
              n \in 1..Len(sent'[x]) /\ sent'[x][n] = sent[x][n]
        /\ \A x \in Message : x # m => sent'[x] = sent[x]
        /\ \A x \in Message : Len(sent[x]) \in Nat
    <2>1. /\ sent[m] \in Seq(EventKind) /\ sent'[m] = Append(sent[m], kind)
          /\ \A x \in Message : x # m => sent'[x] = sent[x]
          /\ sent' \in [Message -> Seq(EventKind)]
      BY <1>1, <1>3, <1>4
    <2>2. /\ Len(sent'[m]) = Len(sent[m]) + 1 /\ sent'[m][Len(sent[m]) + 1] = kind
          /\ \A n \in 1..Len(sent'[m]) : n \in 1..Len(sent[m]) \/ n = Len(sent[m]) + 1
          /\ \A n \in 1..Len(sent[m]) : n \in 1..Len(sent'[m]) /\ sent'[m][n] = sent[m][n]
      BY <1>3, <2>1
    <2>3. \A x \in Message : Len(sent[x]) \in Nat
      BY <1>4
    <2> QED
      BY <2>1, <2>2, <2>3
  <1>6. \A f \in Event : WasSaid(sent, f) => WasSaid(sent', f)
    BY <1>5 DEF WasSaid, Event
  <1>7. \A i \in 1..Len(chat) : \A j \in 1..Len(chat[i].text) : chat[i].text[j] \in Event
    <2>1. \A x \in ChatItem : x.text \in Seq(Event)
      BY DEF ChatItem
    <2>2. \A i \in 1..Len(chat) : chat[i].text \in Seq(Event)
      BY <1>4, <2>1
    <2> QED
      BY <2>2
  <1>8. ShownTypes'
    BY <1>1, <1>2, <1>4, <1>5 DEF ShownTypes
  <1>9. Asked'
    <2>1. m \in ToSet(handled)
      BY <1>1 DEF Screen, Asked
    <2>2. \A l \in 1..Len(channel') : channel'[l].of \in ToSet(handled)
      BY <1>2, <1>3, <2>1 DEF Screen, Asked
    <2>3. \A x \in Message : sent'[x] # <<>> => x \in ToSet(handled)
      BY <1>5, <2>1 DEF Screen, Asked
    <2> QED
      BY <1>1, <2>2, <2>3 DEF Screen, Asked
  <1>10. Waits'
    <2> SUFFICES ASSUME NEW l \in 1..Len(channel')
                 PROVE  /\ channel'[l].kind \in {Said, Thought} => WasSaid(sent', channel'[l])
                        /\ channel'[l].of \in running => channel'[l].n <= Len(sent'[channel'[l].of])
                        /\ channel'[l].kind = "Done" =>
                              /\ channel'[l].of \notin running
                              /\ \A k \in 1..Len(channel') : l < k => channel'[k].of # channel'[l].of
      BY <1>1 DEF Waits, WasSaid
    <2>1. CASE l \in 1..Len(channel)
      <3>1. channel'[l] = channel[l] /\ channel[l] \in Event /\ channel[l].of \in Message
            /\ channel[l].n \in Nat
        <4>1. channel'[l] = channel[l] /\ channel[l] \in Event
          BY <1>2, <1>4, <2>1
        <4> QED
          BY <4>1 DEF Event
      <3>2. /\ channel[l].kind \in {Said, Thought} => WasSaid(sent, channel[l])
            /\ channel[l].of \in running => channel[l].n <= Len(sent[channel[l].of])
            /\ channel[l].kind = "Done" =>
                  /\ channel[l].of \notin running
                  /\ \A k \in 1..Len(channel) : l < k => channel[k].of # channel[l].of
        BY <2>1 DEF Screen, Waits
      <3>3. channel[l].of \in running => channel[l].n <= Len(sent'[channel[l].of])
        BY <1>5, <3>1, <3>2
      <3>4. ASSUME channel[l].kind = "Done", NEW k \in 1..Len(channel'), l < k
            PROVE  channel'[k].of # channel[l].of
        <4>1. CASE k \in 1..Len(channel)
          BY <1>2, <3>2, <3>4, <4>1
        <4>2. CASE k = Len(channel) + 1
          BY <1>1, <1>2, <1>3, <3>2, <3>4, <4>2
        <4> QED
          BY <1>2, <4>1, <4>2
      <3> QED
        BY <1>6, <3>1, <3>2, <3>3, <3>4
    <2>2. CASE l = Len(channel) + 1
      <3>1. channel'[l] = e
        BY <1>2, <2>2
      <3>2. WasSaid(sent', e)
        BY <1>3, <1>5 DEF WasSaid
      <3>3. e.n <= Len(sent'[e.of])
        BY <1>3, <1>5
      <3> QED
        BY <1>3, <3>1, <3>2, <3>3
    <2> QED
      BY <1>2, <2>1, <2>2
  <1>11. Placed'
    <2>1. \A i \in 1..Len(chat) : \A j \in 1..Len(chat[i].text) : WasSaid(sent', chat[i].text[j])
      BY <1>6, <1>7 DEF Screen, Placed
    <2> QED
      BY <1>1, <1>2, <2>1 DEF Screen, Placed
  <1>12. ASSUME NEW x \in clean PROVE Kept(x)'
    <2> SUFFICES ASSUME NEW n \in 1..Len(sent'[x]),
                        sent'[x][n] \in (IF x \in short THEN {Thought} ELSE {Said, Thought})
                 PROVE  \/ OnScreen(chat, PieceOf(x, n)')
                        \/ \E l \in 1..Len(channel') : channel'[l] = PieceOf(x, n)'
      BY <1>1 DEF Kept, Waiting, PieceOf, OnScreen
    <2>1. x \in Message
      BY <1>4
    <2>2. CASE n \in 1..Len(sent[x])
      <3>1. sent'[x][n] = sent[x][n] /\ PieceOf(x, n)' = PieceOf(x, n)
        BY <1>5, <2>1, <2>2 DEF PieceOf
      <3>2. OnScreen(chat, PieceOf(x, n)) \/ \E l \in 1..Len(channel) : channel[l] = PieceOf(x, n)
        BY <2>2, <3>1 DEF Screen, Kept, Waiting
      <3>3. \A l \in 1..Len(channel) : l \in 1..Len(channel')
        BY <1>2, <1>4
      <3> QED
        BY <1>2, <3>1, <3>2, <3>3
    <2>3. CASE x = m /\ n = Len(sent[m]) + 1
      <3>1. PieceOf(x, n)' = e
        BY <1>5, <2>3 DEF PieceOf, e
      <3>2. Len(channel) + 1 \in 1..Len(channel')
        BY <1>2, <1>4
      <3> QED
        BY <1>2, <3>1, <3>2
    <2> QED
      BY <1>5, <2>1, <2>2, <2>3
  <1>13. \A x \in clean' : Kept(x)' /\ (x \in Live' => Undisturbed(x)')
                                    /\ (x \notin Live' => AtRest(x)')
    BY <1>1, <1>2, <1>12, PutRest
  <1> QED
    BY <1>8, <1>9, <1>10, <1>11, <1>13 DEF Screen

\* A task sends its end.
LEMMA FinishScreen ==
    ASSUME Screen, NEW m \in Message, NEW kind \in Final, Finish(m, kind)
    PROVE  Screen'
  <1> DEFINE e == [kind |-> kind, of |-> m, n |-> Len(sent[m]) + 1]
  <1>1. /\ m \in running /\ Put(m, kind) /\ running' = running \ {m}
        /\ UNCHANGED <<typed, handled, chat, working, sent, clean, short>>
    BY Zenon DEF Finish, userVars
  <1>2. kind \in EventKind
    BY DEF Final, EventKind
  <1>3. /\ channel' \in Seq(Event) /\ Len(channel') = Len(channel) + 1
        /\ channel'[Len(channel) + 1] = e
        /\ \A l \in 1..Len(channel) : channel'[l] = channel[l]
        /\ \A l \in 1..Len(channel') : l \in 1..Len(channel) \/ l = Len(channel) + 1
        /\ Precedes(chat, channel') /\ Climbs(channel')
        /\ Live' = Live
    BY <1>1, <1>2, PutPlaced
  <1>4. /\ e.kind = kind /\ e.of = m /\ kind \notin {Said, Thought}
    BY DEF Final, Said, Thought
  <1> HIDE DEF e
  <1>5. /\ channel \in Seq(Event) /\ running \subseteq Message
    BY DEF Screen, ShownTypes
  <1>6. ShownTypes'
    BY <1>1, <1>3 DEF Screen, ShownTypes
  <1>7. Asked'
    <2>1. m \in ToSet(handled)
      BY <1>1 DEF Screen, Asked
    <2>2. \A l \in 1..Len(channel') : channel'[l].of \in ToSet(handled)
      BY <1>3, <1>4, <2>1 DEF Screen, Asked
    <2> QED
      BY <1>1, <2>2 DEF Screen, Asked
  <1>8. Waits'
    <2> SUFFICES ASSUME NEW l \in 1..Len(channel')
                 PROVE  /\ channel'[l].kind \in {Said, Thought} => WasSaid(sent, channel'[l])
                        /\ channel'[l].of \in running' => channel'[l].n <= Len(sent[channel'[l].of])
                        /\ channel'[l].kind = "Done" =>
                              /\ channel'[l].of \notin running'
                              /\ \A k \in 1..Len(channel') : l < k => channel'[k].of # channel'[l].of
      BY <1>1 DEF Waits, WasSaid
    <2>1. CASE l \in 1..Len(channel)
      <3>1. channel'[l] = channel[l]
        BY <1>3, <2>1
      <3>2. /\ channel[l].kind \in {Said, Thought} => WasSaid(sent, channel[l])
            /\ channel[l].of \in running => channel[l].n <= Len(sent[channel[l].of])
            /\ channel[l].kind = "Done" =>
                  /\ channel[l].of \notin running
                  /\ \A k \in 1..Len(channel) : l < k => channel[k].of # channel[l].of
        BY <2>1 DEF Screen, Waits
      <3>3. ASSUME channel[l].kind = "Done", NEW k \in 1..Len(channel'), l < k
            PROVE  channel'[k].of # channel[l].of
        <4>1. CASE k \in 1..Len(channel)
          BY <1>3, <3>2, <3>3, <4>1
        <4>2. CASE k = Len(channel) + 1
          BY <1>1, <1>3, <1>4, <3>2, <3>3, <4>2
        <4> QED
          BY <1>3, <4>1, <4>2
      <3> QED
        BY <1>1, <3>1, <3>2, <3>3
    <2>2. CASE l = Len(channel) + 1
      <3>1. channel'[l] = e
        BY <1>3, <2>2
      <3>2. ASSUME NEW k \in 1..Len(channel'), l < k PROVE FALSE
        BY <1>3, <1>5, <2>2, <3>2
      <3> QED
        BY <1>1, <1>4, <3>1, <3>2
    <2> QED
      BY <1>3, <2>1, <2>2
  <1>9. Placed'
    BY <1>1, <1>3 DEF Screen, Placed, WasSaid
  <1>10. ASSUME NEW x \in clean PROVE Kept(x)'
    <2>1. \A l \in 1..Len(channel) : l \in 1..Len(channel')
      BY <1>3, <1>5
    <2>2. \A p : Waiting(p) => \E l \in 1..Len(channel') : channel'[l] = p
      BY <1>3, <2>1 DEF Waiting
    <2>3. \A n \in 1..Len(sent[x]) :
             sent[x][n] \in (IF x \in short THEN {Thought} ELSE {Said, Thought})
                => OnScreen(chat, PieceOf(x, n))
                   \/ \E l \in 1..Len(channel') : channel'[l] = PieceOf(x, n)
      BY <2>2 DEF Screen, Kept
    <2> QED
      BY <1>1, <2>3 DEF Kept, Waiting, PieceOf, OnScreen
  <1>11. channel' # <<>> /\ channel'[Len(channel')].kind \in Final
    <2>1. \A s : s = <<>> => Len(s) = 0
      OBVIOUS
    <2>2. Len(channel') # 0
      BY <1>3, <1>5
    <2> QED
      BY <1>3, <1>4, <2>1, <2>2
  <1>12. \A x \in clean' : Kept(x)' /\ (x \in Live' => Undisturbed(x)')
                                    /\ (x \notin Live' => AtRest(x)')
    BY <1>1, <1>3, <1>10, <1>11, PutRest
  <1> QED
    BY <1>6, <1>7, <1>8, <1>9, <1>12 DEF Screen

\* A task ends without a word.
LEMMA EndScreen ==
    ASSUME Screen, NEW m \in Message, EndSilently(m)
    PROVE  Screen'
  <1>1. /\ m \in running /\ running' = running \ {m} /\ clean' = clean \ {m}
        /\ UNCHANGED <<typed, handled, chat, working, channel, sent, short>>
    BY Zenon DEF EndSilently, userVars
  <1>2. ShownTypes' /\ Asked'
    BY <1>1 DEF Screen, ShownTypes, Asked
  <1>3. Waits'
    BY <1>1 DEF Screen, Waits, WasSaid
  <1>4. Placed'
    BY <1>1 DEF Screen, Placed, WasSaid
  <1>5. m \in Live /\ Live' \subseteq Live
    BY <1>1 DEF Live
  <1>6. ASSUME NEW x \in clean'
        PROVE  Kept(x)' /\ x \notin Live' /\ AtRest(x)'
    <2>1. x \in clean /\ x # m
      BY <1>1
    <2>2. x \notin Live
      BY <1>5, <2>1 DEF Screen, Undisturbed
    <2>3. Kept(x)'
      BY <1>1, <2>1 DEF Screen, Kept, Waiting, PieceOf, OnScreen
    <2>4. AtRest(x)'
      BY <1>1, <1>5, <2>1, <2>2 DEF Screen, AtRest
    <2> QED
      BY <1>5, <2>2, <2>3, <2>4
  <1> QED
    BY <1>2, <1>3, <1>4, <1>6 DEF Screen
\* Nothing that the answers depend on.
LEMMA SameScreen ==
    ASSUME Screen, Len(typed') <= MaxTyped,
           UNCHANGED <<handled, chat, working, running, channel, sent, clean, short>>
    PROVE  Screen'
  <1>1. Live' = Live
    BY DEF Live
  <1>2. ShownTypes' /\ Asked'
    BY DEF Screen, ShownTypes, Asked
  <1>3. Waits' /\ Placed'
    BY DEF Screen, Waits, Placed
  <1>4. ASSUME NEW x \in clean
        PROVE  Kept(x)' /\ (x \in Live' => Undisturbed(x)') /\ (x \notin Live' => AtRest(x)')
    <2>1. Kept(x)'
      BY DEF Screen, Kept, Waiting, PieceOf
    <2>2. x \in Live' => Undisturbed(x)'
      BY <1>1 DEF Screen, Undisturbed
    <2>3. x \notin Live' => AtRest(x)'
      BY <1>1 DEF Screen, AtRest
    <2> QED
      BY <2>1, <2>2, <2>3
  <1> QED
    BY <1>2, <1>3, <1>4 DEF Screen

\* A line is among those that were entered.
LEMMA TypedBound ==
    ASSUME NEW s \in Seq(Kind),
           Len(s) + Cardinality({i \in DOMAIN s : s[i] # "ask"}) <= MaxTyped
    PROVE  Len(s) <= MaxTyped /\ MaxTyped \in Nat
  <1> DEFINE commands == {i \in DOMAIN s : s[i] # "ask"}
  <1>1. Len(s) \in Nat /\ DOMAIN s = 1..Len(s)
    OBVIOUS
  <1>2. IsFiniteSet(1..Len(s))
    BY <1>1, FS_Interval
  <1>3. commands \subseteq 1..Len(s)
    BY <1>1
  <1>4. Cardinality(commands) \in Nat
    BY <1>2, <1>3, FS_Subset, FS_CardinalityType
  <1>5. MaxTyped \in Nat
    BY MainAssumption
  <1> HIDE DEF commands
  <1>6. Len(s) + Cardinality(commands) <= MaxTyped
    BY DEF commands
  <1> QED
    BY <1>1, <1>4, <1>5, <1>6

\* A line is queued, or sent when nothing is being worked on.
LEMMA EnterScreen ==
    ASSUME Screen, Lines, NEW kind \in Kind, Enter(kind)
    PROVE  Screen'
  <1> DEFINE m == Len(typed) + 1
  <1>1. /\ typed' \in Seq(Kind) /\ Len(typed') = m /\ typed'[m] = kind
        /\ Len(typed) \in Nat /\ handled \in Seq(Nat)
    BY DEF Enter, Lines
  <1>2. Len(typed') <= MaxTyped /\ MaxTyped \in Nat
    <2>1. Len(typed') + Cardinality({i \in DOMAIN typed' : typed'[i] # "ask"}) <= MaxTyped
      BY DEF Enter
    <2> QED
      BY <1>1, <2>1, TypedBound
  <1>3. m \in Message
    BY <1>1, <1>2 DEF Message
  <1>4. m \notin ToSet(handled)
    <2>1. \A i \in 1..Len(handled) : handled[i] \in 1..Len(typed)
      BY DEF Lines
    <2>2. DOMAIN handled = 1..Len(handled)
      BY <1>1
    <2>3. m \notin 1..Len(typed)
      BY <1>1
    <2> QED
      BY <2>1, <2>2, <2>3 DEF ToSet
  <1>5. UNCHANGED <<channel, sent, short>>
    BY Zenon DEF Enter
  <1>6. \/ UNCHANGED <<handled, chat, working, running, clean>>
        \/ ~working /\ SendMessage(m)
    BY Zenon DEF Enter
  <1> HIDE DEF m
  <1> QED
    BY <1>1, <1>2, <1>3, <1>4, <1>5, <1>6, SameScreen, SendScreen

\* The channel is empty: the first of the queue is sent, if nothing is being worked on.
LEMMA QueuedScreen ==
    ASSUME Screen, Lines, SendQueued
    PROVE  Screen'
  <1>1. UNCHANGED <<typed, channel, sent, short>>
    BY Zenon DEF SendQueued
  <1>2. /\ typed \in Seq(Kind) /\ handled \in Seq(Nat) /\ queue \in Seq(Nat)
        /\ Len(typed) <= MaxTyped /\ MaxTyped \in Nat
    BY MainAssumption DEF Lines, Screen, ShownTypes
  <1>3. CASE UNCHANGED <<handled, chat, working, running, clean>>
    BY <1>1, <1>2, <1>3, SameScreen
  <1>4. CASE ~working /\ queue # <<>> /\ SendMessage(Head(queue))
    <2> DEFINE m == Head(queue)
    <2>1. m = queue[1] /\ 1 \in 1..Len(queue)
      BY <1>2, <1>4
    <2>2. m \in 1..Len(typed) /\ \A i \in 1..Len(handled) : handled[i] # m
      BY <2>1 DEF Lines
    <2>3. m \in Message
      BY <1>2, <2>2 DEF Message
    <2>4. m \notin ToSet(handled)
      <3>1. DOMAIN handled = 1..Len(handled)
        BY <1>2
      <3> QED
        BY <2>2, <3>1 DEF ToSet
    <2>5. typed'[m] \in Kind
      BY <1>1, <1>2, <2>2
    <2> HIDE DEF m
    <2>6. SendMessage(m)
      BY <1>4 DEF m
    <2> QED
      BY <1>1, <1>2, <1>4, <2>3, <2>4, <2>5, <2>6, SendScreen
  <1> QED
    BY <1>3, <1>4, Zenon DEF SendQueued

\* Every step of the two front ends.
LEMMA StepScreen ==
    Screen /\ Lines /\ [MainNext]_<<mock, vars, replVars>> => Screen'
  <1> SUFFICES ASSUME Screen, Lines, [MainNext]_<<mock, vars, replVars>> PROVE Screen'
    OBVIOUS
  <1>1. CASE UNCHANGED vars
    <2>1. /\ typed' = typed
          /\ UNCHANGED <<handled, chat, working, running, channel, sent, clean, short>>
      BY <1>1, Zenon DEF vars, userVars
    <2>2. Len(typed') <= MaxTyped
      BY <2>1 DEF Screen, ShownTypes
    <2> QED
      BY <2>1, <2>2, SameScreen
  <1>2. ASSUME NEW kind \in Kind, Enter(kind) PROVE Screen'
    BY <1>2, EnterScreen
  <1>3. CASE Escape
    <2>1. /\ clean' = clean \ Live /\ chat' = chat
          /\ UNCHANGED <<typed, handled, running, channel, sent, short>>
      BY <1>3, Zenon DEF Escape, userVars
    <2> QED
      BY <2>1, DisturbedScreen
  <1>4. CASE Notified
    <2>1. /\ clean' = clean \ Live /\ chat' = Append(chat, System)
          /\ UNCHANGED <<typed, handled, running, channel, sent, short>>
      BY <1>4, Zenon DEF Notified, userVars
    <2> QED
      BY <2>1, DisturbedScreen
  <1>5. CASE Tick
    BY <1>5, PollScreen, QueuedScreen DEF Tick
  <1>6. ASSUME NEW m \in Message, Answer(m) PROVE Screen'
    <2>1. ASSUME NEW kind \in {Said, Thought, "Dispatch", "Error"}, Emit(m, kind) PROVE Screen'
      <3>1. kind \in EventKind \ {"Done"}
        BY DEF EventKind, Said, Thought
      <3> QED
        BY <2>1, <3>1, EmitScreen
    <2> QED
      BY <1>6, <2>1, FinishScreen, EndScreen DEF Answer
  <1> QED
    BY <1>1, <1>2, <1>3, <1>4, <1>5, <1>6 DEF MainNext, Next

\* At the start no answer has said anything.
LEMMA InitScreen == MainInit => Screen
  <1> SUFFICES ASSUME MainInit PROVE Screen
    OBVIOUS
  <1>1. /\ chat = <<System>> /\ typed = <<>> /\ handled = <<>> /\ running = {}
        /\ channel = <<>> /\ sent = [m \in Message |-> <<>>] /\ clean = {} /\ short = {}
    BY DEF MainInit, Init
  <1>2. MaxTyped \in Nat
    BY MainAssumption
  <1>3. /\ chat \in Seq(ChatItem) /\ Len(chat) = 1 /\ channel \in Seq(Event) /\ Len(channel) = 0
        /\ chat[1] = System /\ Len(chat[1].text) = 0 /\ Len(typed) = 0
    BY <1>1, Items
  <1>4. \A i \in 1..Len(chat) : \A j \in 1..Len(chat[i].text) : FALSE
    BY <1>3
  <1>5. \A l \in 1..Len(channel) : FALSE
    BY <1>3
  <1>6. ShownTypes
    <2>1. sent \in [Message -> Seq(EventKind)]
      BY <1>1
    <2> QED
      BY <1>1, <1>2, <1>3, <2>1 DEF ShownTypes
  <1>7. Asked
    BY <1>1, <1>4, <1>5 DEF Asked
  <1>8. Waits
    BY <1>5 DEF Waits
  <1>9. Placed
    BY <1>4, <1>5 DEF Placed, Fits, Rises, Precedes, Climbs
  <1> QED
    BY <1>1, <1>6, <1>7, <1>8, <1>9 DEF Screen

\* What a reader comes upon, text by text.
LEMMA ReadingIs ==
    ASSUME chat \in Seq(ChatItem), channel \in Seq(Event)
    PROVE  /\ DOMAIN Reading = 1..(Len(chat) + 1) /\ Len(chat) \in Nat
           /\ \A i \in 1..Len(chat) : Reading[i] = chat[i].text
           /\ Reading[Len(chat) + 1] = channel
           /\ \A i \in DOMAIN Reading : Reading[i] \in Seq(Event)
  <1> DEFINE t == [i \in DOMAIN chat |-> chat[i].text]
  <1>1. \A x \in ChatItem : x.text \in Seq(Event)
    BY DEF ChatItem
  <1>2. DOMAIN chat = 1..Len(chat) /\ Len(chat) \in Nat /\ \A i \in 1..Len(chat) : chat[i] \in ChatItem
    OBVIOUS
  <1>3. t \in Seq(Seq(Event)) /\ Len(t) = Len(chat) /\ \A i \in 1..Len(chat) : t[i] = chat[i].text
    <2>1. t \in [1..Len(chat) -> Seq(Event)]
      BY <1>1, <1>2
    <2>2. \A n \in Nat : \A f \in [1..n -> Seq(Event)] : f \in Seq(Seq(Event)) /\ Len(f) = n
      OBVIOUS
    <2> QED
      BY <1>2, <2>1, <2>2
  <1>4. Reading = Append(t, channel)
    BY DEF Reading
  <1> HIDE DEF t
  <1>5. /\ Reading \in Seq(Seq(Event)) /\ Len(Reading) = Len(chat) + 1
        /\ \A i \in 1..Len(chat) : Reading[i] = t[i]
        /\ Reading[Len(chat) + 1] = channel
    BY <1>2, <1>3, <1>4
  <1> QED
    BY <1>2, <1>3, <1>5

\* The statements about chat and channel, apart, give the one about both.
LEMMA ScreenImplies == Screen => ReplyIsWhole
  <1> SUFFICES ASSUME Screen PROVE ReplyIsWhole
    OBVIOUS
  <1>1. /\ chat \in Seq(ChatItem) /\ channel \in Seq(Event)
        /\ sent \in [Message -> Seq(EventKind)] /\ clean \subseteq Message
    BY DEF Screen, ShownTypes
  <1>2. \A m \in Message : DOMAIN sent[m] = 1..Len(sent[m])
    BY <1>1
  <1>3. /\ DOMAIN Reading = 1..(Len(chat) + 1) /\ Len(chat) \in Nat
        /\ \A i \in 1..Len(chat) : Reading[i] = chat[i].text
        /\ Reading[Len(chat) + 1] = channel
        /\ \A i \in DOMAIN Reading : Reading[i] \in Seq(Event)
    BY <1>1, ReadingIs
  <1>4. \A i \in 1..Len(chat) : chat[i] \in ChatItem /\ chat[i].text \in Seq(Event)
    <2>1. \A x \in ChatItem : x.text \in Seq(Event)
      BY DEF ChatItem
    <2> QED
      BY <1>1, <2>1
  <1>5. \A i \in DOMAIN Reading : DOMAIN Reading[i] = 1..Len(Reading[i])
    BY <1>3
  <1>6. ASSUME NEW item \in ToSet(chat), NEW e \in ToSet(item.text)
        PROVE  /\ item.kind \in (IF e.kind = Thought THEN {"StreamingThinking", "ThinkingText"}
                                 ELSE {"StreamingAssistant", "AssistantText"})
               /\ e.n \in DOMAIN sent[e.of] /\ sent[e.of][e.n] = e.kind
    <2>1. PICK i \in 1..Len(chat) : item = chat[i]
      BY <1>1 DEF ToSet
    <2>2. PICK j \in 1..Len(item.text) : e = item.text[j]
      BY <1>4, <2>1 DEF ToSet
    <2>3. e \in Event
      BY <1>4, <2>1, <2>2
    <2>4. e.of \in Message
      BY <2>3 DEF Event
    <2>5. item.kind \in (IF e.kind = Thought THEN Thinks ELSE Speaks)
      BY <2>1, <2>2 DEF Screen, Placed, Fits
    <2>6. WasSaid(sent, e)
      BY <2>1, <2>2 DEF Screen, Placed
    <2> QED
      BY <1>2, <2>4, <2>5, <2>6 DEF WasSaid, Thinks, Speaks
  <1>7. InOrder(Reading)
    <2> SUFFICES ASSUME NEW i \in DOMAIN Reading, NEW k \in DOMAIN Reading,
                        NEW j \in DOMAIN Reading[i], NEW l \in DOMAIN Reading[k],
                        Before(i, j, k, l), Reading[i][j].of = Reading[k][l].of
                 PROVE  Reading[i][j].n < Reading[k][l].n
      BY DEF InOrder, Before
    <2>1. j \in 1..Len(Reading[i]) /\ l \in 1..Len(Reading[k])
      BY <1>5
    <2>2. /\ i \in 1..Len(chat) \/ i = Len(chat) + 1
          /\ k \in 1..Len(chat) \/ k = Len(chat) + 1
          /\ i = Len(chat) + 1 => k = Len(chat) + 1 /\ j < l
      BY <1>3 DEF Before
    <2>3. CASE i \in 1..Len(chat) /\ k \in 1..Len(chat)
      BY <1>3, <2>1, <2>3 DEF Screen, Placed, Rises
    <2>4. CASE i \in 1..Len(chat) /\ k = Len(chat) + 1
      BY <1>3, <2>1, <2>4 DEF Screen, Placed, Precedes
    <2>5. CASE i = Len(chat) + 1
      BY <1>3, <2>1, <2>2, <2>5 DEF Screen, Placed, Climbs
    <2> QED
      BY <2>2, <2>3, <2>4, <2>5
  <1>8. ASSUME NEW m \in clean
        PROVE  Holds(Reading, m, IF m \in short THEN {Thought} ELSE {Said, Thought})
    <2> SUFFICES ASSUME NEW n \in DOMAIN sent[m],
                        sent[m][n] \in (IF m \in short THEN {Thought} ELSE {Said, Thought})
                 PROVE  \E text \in ToSet(Reading) : PieceOf(m, n) \in ToSet(text)
      BY DEF Holds, PieceOf
    <2>1. OnScreen(chat, PieceOf(m, n)) \/ Waiting(PieceOf(m, n))
      <3>1. n \in 1..Len(sent[m])
        BY <1>1, <1>2
      <3> QED
        BY <3>1 DEF Screen, Kept
    <2>2. \A i \in DOMAIN Reading : Reading[i] \in ToSet(Reading)
      BY DEF ToSet
    <2>3. CASE OnScreen(chat, PieceOf(m, n))
      <3>1. PICK i \in 1..Len(chat) : \E j \in 1..Len(chat[i].text) : chat[i].text[j] = PieceOf(m, n)
        BY <2>3 DEF OnScreen
      <3>2. PICK j \in 1..Len(chat[i].text) : chat[i].text[j] = PieceOf(m, n)
        BY <3>1
      <3>3. PieceOf(m, n) \in ToSet(chat[i].text)
        BY <1>4, <3>2 DEF ToSet
      <3>4. i \in DOMAIN Reading /\ Reading[i] = chat[i].text
        BY <1>3
      <3> QED
        BY <2>2, <3>3, <3>4
    <2>4. CASE Waiting(PieceOf(m, n))
      <3>1. PieceOf(m, n) \in ToSet(channel)
        BY <1>1, <2>4 DEF Waiting, ToSet
      <3>2. Len(chat) + 1 \in DOMAIN Reading
        BY <1>3
      <3> QED
        BY <1>3, <2>2, <3>1, <3>2
    <2> QED
      BY <2>1, <2>3, <2>4
  <1> QED
    BY <1>6, <1>7, <1>8 DEF ReplyIsWhole

\* Whatever the answers send and in whatever order, with any number of lines and
\* pieces: no thought is shown in an answer and no text in a thought, the pieces
\* of an answer are in order and there once, and an answer that had the screen to
\* itself is whole (poll_stream, which decides by the last item of the chat).
THEOREM RepliesAreWhole == MainSpec => []ReplyIsWhole
  <1>1. MainInit => Lines /\ Screen
    <2>1. MainInit => Lines
      BY DEF MainInit, Init, Lines, Sorted, Distinct
    <2> QED
      BY <2>1, InitScreen
  <1> QED
    BY <1>1, StepLines, StepScreen, ScreenImplies, PTL DEF MainSpec

-----------------------------------------------------------------------------
(* The mock's Tasks *)

\* The strengthening: a Task that stands delivered has a delivery to settle.
Owing(t) == IF Repl!Is(t, "Delivered") THEN 1 ELSE 0
Settled(t) ==
    /\ settled[t] \in Nat /\ delivered[t] \in Nat
    /\ settled[t] + Owing(t) <= delivered[t]

Ids == ToSet(TaskIds)
Books ==
    /\ settled \in [Ids -> Nat] /\ delivered \in [Ids -> Nat]
    /\ \A t \in Ids : Settled(t)

\* A step that delivers and settles nothing lets no Task become delivered.
LEMMA BooksKept ==
    ASSUME Books, UNCHANGED <<settled, delivered>>,
           \A t \in Ids : Repl!Is(t, "Delivered")' => Repl!Is(t, "Delivered")
    PROVE  Books'
  BY DEF Books, Settled, Owing

\* A command settles a delivered Task, which then is delivered no more, and
\* none makes one delivered.
LEMMA EffectBooks ==
    ASSUME Books, NEW line, NEW c, Repl!Effect(line, c)
    PROVE  Books'
  <1> USE DEF Repl!Is, Repl!SetStatus
  <1>1. ASSUME Repl!Is(c.id, "Delivered"), NEW status \in {"Archived", "OnIt"},
               Repl!SetStatus(c.id, status),
               settled' = [settled EXCEPT ![c.id] = @ + 1], UNCHANGED delivered
        PROVE  Books'
    <2>1. ASSUME NEW t \in Ids PROVE Settled(t)'
      <3>1. CASE t = c.id
        BY <1>1, <3>1 DEF Books, Settled, Owing
      <3>2. CASE t # c.id
        BY <1>1, <3>2 DEF Books, Settled, Owing
      <3> QED
        BY <3>1, <3>2
    <2>2. settled' \in [Ids -> Nat]
      <3>1. CASE c.id \in Ids
        BY <1>1, <3>1 DEF Books
      <3>2. CASE c.id \notin Ids
        <4>1. settled' = settled
          BY <1>1, <3>2 DEF Books
        <4> QED
          BY <4>1 DEF Books
      <3> QED
        BY <3>1, <3>2
    <2> QED
      BY <1>1, <2>1, <2>2 DEF Books
  <1>2. CASE Repl!Accept(c.id) /\ UNCHANGED delivered
    BY <1>1, <1>2 DEF Repl!Accept
  <1>3. CASE Repl!Reject(c.id) /\ UNCHANGED delivered
    BY <1>1, <1>3 DEF Repl!Reject
  <1>4. CASE Repl!AnswerTask(c.id)
    BY <1>4, BooksKept DEF Repl!AnswerTask
  <1>5. CASE Repl!Dispatch /\ UNCHANGED <<settled, delivered>>
    BY <1>5, BooksKept DEF Repl!Dispatch, Repl!Insert
  <1>6. CASE UNCHANGED <<tasks, settled, delivered>>
    BY <1>6, BooksKept
  <1> QED
    BY <1>2, <1>3, <1>4, <1>5, <1>6 DEF Repl!Effect, Repl!StartContinuation

\* The driver delivers a Task when it was not delivered before.
LEMMA DriveBooks ==
    ASSUME Books, NEW t \in Ids, NEW status, Repl!Drive(t, status)
    PROVE  Books'
  <1>1. /\ t \in DOMAIN tasks /\ tasks' = [tasks EXCEPT ![t] = status]
        /\ settled' = settled
        /\ delivered' = [delivered EXCEPT ![t] = @ +
              (IF Repl!Is(t, status) \/ status # "Delivered" THEN 0 ELSE 1)]
    BY DEF Repl!Drive, Repl!SetStatus
  <1>2. delivered' \in [Ids -> Nat]
    BY <1>1 DEF Books
  <1>3. ASSUME NEW u \in Ids PROVE Settled(u)'
    <2>1. CASE u = t
      BY <1>1, <2>1 DEF Books, Settled, Owing, Repl!Is
    <2>2. CASE u # t
      BY <1>1, <2>2 DEF Books, Settled, Owing, Repl!Is
    <2> QED
      BY <2>1, <2>2
  <1> QED
    BY <1>1, <1>2, <1>3 DEF Books

\* Every step of the two front ends keeps the books of the mock.
LEMMA StepBooks == Books /\ [MainNext]_<<mock, vars, replVars>> => Books'
  <1> SUFFICES ASSUME Books, [MainNext]_<<mock, vars, replVars>> PROVE Books'
    OBVIOUS
  <1>1. CASE UNCHANGED <<tasks, settled, delivered>>
    BY <1>1, BooksKept DEF Repl!Is
  <1>2. CASE Repl!HandleLine
    <2>1. CASE UNCHANGED Repl!mockVars
      BY <1>1, <2>1 DEF Repl!mockVars
    <2> QED
      BY <1>2, <2>1, EffectBooks DEF Repl!HandleLine
  <1>3. ASSUME NEW line \in Line, Repl!EnterLine(line)
        PROVE  UNCHANGED <<tasks, settled, delivered>>
    BY <1>3, Zenon DEF Repl!EnterLine, Repl!mockVars
  <1>4. CASE Repl!Interrupt \/ Repl!RenderNotification \/ Repl!Exit
    BY <1>1, <1>4, Zenon DEF Repl!Interrupt, Repl!RenderNotification, Repl!Exit,
                             Repl!mockVars
  <1>5. CASE Repl!Next
    BY <1>1, <1>2, <1>3, <1>4, <1>5, DriveBooks DEF Repl!Next, Ids, ToSet, Repl!ToSet
  <1> QED
    BY <1>1, <1>5 DEF MainNext, replVars

-----------------------------------------------------------------------------
(* The mock's chains *)

Inactive == {c \in DOMAIN chains : ~chains[c]}
Count == Cardinality(DOMAIN chains)

\* The strengthening: the ids are given out in order, and there is one for
\* every line that is still in the channel.
ChainBooks ==
    /\ IsFiniteSet(DOMAIN chains)
    /\ DOMAIN chains = {ChainIds[i] : i \in 1..Count}
    /\ input \in Seq(Line) /\ entered \in Nat
    /\ Count + Len(input) <= entered /\ entered <= MaxTyped
    /\ stopped \in Nat /\ stopped <= Cardinality(Inactive)

\* The next id is new, so no chain that was stopped becomes active again.
LEMMA FreshChain ==
    ASSUME ChainBooks, Len(input) > 0,
           NEW c, c = Repl!NextId(ChainIds, chains)
    PROVE  /\ c \notin DOMAIN chains /\ Count \in Nat
           /\ Cardinality(DOMAIN chains \cup {c}) = Count + 1
           /\ DOMAIN chains \cup {c} = {ChainIds[i] : i \in 1..(Count + 1)}
  <1>1. Count \in Nat
    BY FS_CardinalityType DEF ChainBooks, Count
  <1>2. Len(input) \in Nat /\ MaxTyped \in Nat /\ Len(ChainIds) \in Nat
        /\ MaxTyped <= Len(ChainIds)
    BY MainAssumption DEF ChainBooks
  <1>3. Count + 1 \in 1..Len(ChainIds) /\ 1..Count \subseteq 1..Len(ChainIds)
    BY <1>1, <1>2 DEF ChainBooks
  <1>4. c = ChainIds[Count + 1]
    <2>1. \A S : Repl!Cardinality(S) = Cardinality(S)
      BY Zenon DEF Repl!Cardinality, Cardinality
    <2> QED
      BY <2>1 DEF Repl!NextId, Count
  <1>5. \A i \in 1..Count : ChainIds[i] # ChainIds[Count + 1]
    <2>1. DOMAIN ChainIds = 1..Len(ChainIds)
      BY MainAssumption
    <2> QED
      BY <1>1, <1>3, <2>1, MainAssumption DEF IsInjective
  <1>6. c \notin DOMAIN chains
    BY <1>4, <1>5 DEF ChainBooks
  <1>7. 1..(Count + 1) = (1..Count) \cup {Count + 1}
    BY <1>1
  <1>8. Cardinality(DOMAIN chains \cup {c}) = Count + 1
    BY <1>6, FS_AddElement DEF ChainBooks, Count
  <1>9. DOMAIN chains \cup {c} = {ChainIds[i] : i \in 1..(Count + 1)}
    BY <1>4, <1>7 DEF ChainBooks
  <1> QED
    BY <1>1, <1>6, <1>8, <1>9

\* The lines that are left.
LEMMA LinesLeft ==
    ASSUME NEW S, NEW s \in Seq(S), s # <<>>, NEW r, r = Tail(s) \/ r = <<>>
    PROVE  /\ r \in Seq(S) /\ Len(r) \in Nat /\ Len(s) \in Nat
           /\ Len(r) + 1 <= Len(s)
  <1>1. Len(s) \in Nat \ {0} /\ <<>> \in Seq(S) /\ Len(<<>>) = 0
    BY EmptySeq, LenProperties
  <1>2. Tail(s) \in Seq(S) /\ Len(Tail(s)) = Len(s) - 1
    BY HeadTailProperties
  <1>3. CASE r = Tail(s)
    BY <1>1, <1>2, <1>3
  <1>4. CASE r = <<>>
    BY <1>1, <1>4
  <1> QED
    BY <1>3, <1>4

\* A command that touches no chain uses up its line.
LEMMA LineDone ==
    ASSUME ChainBooks, input # <<>>, UNCHANGED <<chains, stopped, entered>>,
           input' = Tail(input) \/ input' = <<>>
    PROVE  ChainBooks'
  <1>1. /\ input' \in Seq(Line) /\ Len(input') \in Nat /\ Len(input) \in Nat
        /\ Len(input') + 1 <= Len(input)
    BY LinesLeft DEF ChainBooks
  <1>2. Count \in Nat
    BY FS_CardinalityType DEF ChainBooks, Count
  <1>3. Count' = Count /\ Inactive' = Inactive
    BY DEF Count, Inactive
  <1> QED
    BY <1>1, <1>2, <1>3 DEF ChainBooks

\* A new chain is active, and no other changes.
LEMMA ContinuationBooks ==
    ASSUME ChainBooks, input # <<>>, Repl!StartContinuation,
           UNCHANGED <<stopped, entered>>,
           input' = Tail(input) \/ input' = <<>>
    PROVE  ChainBooks'
  <1> DEFINE c == Repl!NextId(ChainIds, chains)
  <1>1. /\ input' \in Seq(Line) /\ Len(input') \in Nat /\ Len(input) \in Nat
        /\ Len(input') + 1 <= Len(input)
    BY LinesLeft DEF ChainBooks
  <1> HIDE DEF c
  <1>2. /\ c \notin DOMAIN chains /\ Count \in Nat
        /\ Cardinality(DOMAIN chains \cup {c}) = Count + 1
        /\ DOMAIN chains \cup {c} = {ChainIds[i] : i \in 1..(Count + 1)}
    <2>1. Len(input) > 0
      BY <1>1
    <2> QED
      BY <2>1, FreshChain DEF c
  <1>3. chains' = [k \in DOMAIN chains \cup {c} |-> IF k = c THEN TRUE ELSE chains[k]]
    BY DEF Repl!StartContinuation, Repl!Insert, c
  <1>4. DOMAIN chains' = DOMAIN chains \cup {c}
    BY <1>3
  <1>5. Count' = Count + 1
    BY <1>2, <1>4 DEF Count
  <1>6. IsFiniteSet(DOMAIN chains')
    BY <1>4, FS_AddElement DEF ChainBooks
  <1>7. Inactive' = Inactive
    <2>1. chains'[c] /\ \A k \in DOMAIN chains : k # c /\ chains'[k] = chains[k]
      BY <1>2, <1>3
    <2> QED
      BY <1>4, <2>1, Zenon DEF Inactive
  <1>8. DOMAIN chains' = {ChainIds[i] : i \in 1..Count'}
    BY <1>2, <1>4, <1>5
  <1>9. entered \in Nat /\ Count' + Len(input') <= entered
    BY <1>1, <1>2, <1>5 DEF ChainBooks
  <1> QED
    BY <1>1, <1>6, <1>7, <1>8, <1>9 DEF ChainBooks

\* What a stop counts are the chains that it makes inactive.
LEMMA StopBooks ==
    ASSUME ChainBooks, input # <<>>, NEW id, Repl!StopContinuation(id),
           UNCHANGED entered, input' = Tail(input) \/ input' = <<>>
    PROVE  ChainBooks'
  <1> DEFINE hit == {c \in DOMAIN chains : chains[c] /\ id \in {c, "all"}}
  <1>1. /\ input' \in Seq(Line) /\ Len(input') \in Nat /\ Len(input) \in Nat
        /\ Len(input') + 1 <= Len(input)
    BY LinesLeft DEF ChainBooks
  <1>2. Count \in Nat
    BY FS_CardinalityType DEF ChainBooks, Count
  <1>3. chains' = [c \in DOMAIN chains |-> chains[c] /\ c \notin hit]
    BY DEF Repl!StopContinuation
  <1>4. stopped' = stopped + Cardinality(hit)
    <2>1. \A S : Repl!Cardinality(S) = Cardinality(S)
      BY Zenon DEF Repl!Cardinality, Cardinality
    <2> QED
      BY <2>1 DEF Repl!StopContinuation
  <1>5. hit \subseteq DOMAIN chains /\ Inactive \subseteq DOMAIN chains
        /\ hit \cap Inactive = {}
    BY Zenon DEF Inactive
  <1>6. DOMAIN chains' = DOMAIN chains
    BY <1>3
  <1>7. Inactive' = Inactive \cup hit
    <2>1. \A c \in DOMAIN chains : ~chains'[c] <=> ~chains[c] \/ c \in hit
      BY <1>3, Zenon
    <2> HIDE DEF hit
    <2> QED
      BY <1>5, <1>6, <2>1, Zenon DEF Inactive
  <1> HIDE DEF hit
  <1>8. /\ IsFiniteSet(hit) /\ IsFiniteSet(Inactive)
        /\ Cardinality(hit) \in Nat /\ Cardinality(Inactive) \in Nat
    <2>1. IsFiniteSet(hit) /\ IsFiniteSet(Inactive)
      BY <1>5, FS_Subset DEF ChainBooks
    <2> QED
      BY <2>1, FS_CardinalityType
  <1>9. Cardinality(Inactive \cup hit) = Cardinality(Inactive) + Cardinality(hit)
    <2>1. Cardinality(Inactive \cup hit) =
             Cardinality(Inactive) + Cardinality(hit) - Cardinality(Inactive \cap hit)
      BY <1>8, FS_Union
    <2>2. Inactive \cap hit = {}
      BY <1>5
    <2>3. Cardinality(Inactive \cap hit) = 0
      BY <2>2, FS_EmptySet
    <2> QED
      BY <1>8, <2>1, <2>3
  <1>10. Count' = Count
    BY <1>6 DEF Count
  <1> QED
    BY <1>1, <1>2, <1>4, <1>6, <1>7, <1>8, <1>9, <1>10 DEF ChainBooks

\* And those of its chains.
LEMMA StepChainBooks ==
    ChainBooks /\ [MainNext]_<<mock, vars, replVars>> => ChainBooks'
  <1> SUFFICES ASSUME ChainBooks, [MainNext]_<<mock, vars, replVars>>
               PROVE  ChainBooks'
    OBVIOUS
  <1>1. CASE UNCHANGED <<chains, input, entered, stopped>>
    BY <1>1 DEF ChainBooks, Count, Inactive
  <1>2. CASE Repl!HandleLine
    <2>1. PICK line, c : \/ Repl!Effect(line, c)
                         \/ UNCHANGED Repl!mockVars
      BY <1>2, Zenon DEF Repl!HandleLine
    <2>2. /\ input # <<>> /\ UNCHANGED entered
          /\ input' = Tail(input) \/ input' = <<>>
      BY <1>2, Zenon DEF Repl!HandleLine
    <2>3. CASE UNCHANGED <<chains, stopped>>
      BY <2>2, <2>3, LineDone
    <2>4. CASE Repl!StartContinuation /\ UNCHANGED stopped
      BY <2>2, <2>4, ContinuationBooks
    <2>5. CASE Repl!StopContinuation(c.id)
      BY <2>2, <2>5, StopBooks
    <2> QED
      BY <2>1, <2>3, <2>4, <2>5, Zenon DEF Repl!Effect, Repl!AnswerTask, Repl!mockVars
  <1>3. ASSUME NEW line \in Line, Repl!EnterLine(line)
        PROVE  ChainBooks'
    <2>1. /\ Count' = Count /\ Inactive' = Inactive
          /\ UNCHANGED <<chains, stopped>>
      BY <1>3 DEF Repl!EnterLine, Repl!mockVars, Count, Inactive
    <2>2. /\ input' \in Seq(Line) /\ Len(input) \in Nat /\ Len(input') \in Nat
          /\ Len(input') <= Len(input) + 1
      BY <1>3 DEF Repl!EnterLine, ChainBooks
    <2>3. entered' = entered + 1 /\ entered < MaxTyped /\ MaxTyped \in Nat
      BY <1>3, MainAssumption DEF Repl!EnterLine
    <2>4. Count \in Nat
      BY FS_CardinalityType DEF ChainBooks, Count
    <2> QED
      BY <2>1, <2>2, <2>3, <2>4 DEF ChainBooks
  <1>4. CASE Repl!Interrupt \/ Repl!RenderNotification \/ Repl!Exit
    BY <1>1, <1>4, Zenon DEF Repl!Interrupt, Repl!RenderNotification, Repl!Exit,
                             Repl!mockVars
  <1>5. ASSUME NEW t, NEW status, Repl!Drive(t, status)
        PROVE  ChainBooks'
    BY <1>1, <1>5, Zenon DEF Repl!Drive
  <1> QED
    BY <1>1, <1>2, <1>3, <1>4, <1>5, Zenon DEF MainNext, Repl!Next, replVars

\* However accepts, rejections and stops are queued behind each other while
\* Tasks are delivered: a delivery is settled once, and the user is told of no
\* chain twice that it was stopped (mock.rs).
THEOREM SettlesOnce == MainSpec => []SettledOnce
  <1>1. MainInit => Books /\ ChainBooks
    <2> SUFFICES ASSUME MainInit PROVE Books /\ ChainBooks
      OBVIOUS
    <2>1. Books
      BY DEF MainInit, Repl!Init, Repl!Zero, Repl!ToSet, Ids, ToSet, Books,
             Settled, Owing, Repl!Is
    <2>2. DOMAIN chains = {} /\ Inactive = {}
      BY DEF MainInit, Repl!Init, Inactive
    <2>3. Count = 0 /\ IsFiniteSet(DOMAIN chains) /\ Cardinality(Inactive) = 0
      BY <2>2, FS_EmptySet DEF Count
    <2>4. input = <<>> /\ entered = 0 /\ stopped = 0 /\ MaxTyped \in Nat
      BY MainAssumption DEF MainInit, Repl!Init
    <2>5. ChainBooks
      BY <2>2, <2>3, <2>4 DEF ChainBooks
    <2> QED
      BY <2>1, <2>5
  <1>2. Books /\ ChainBooks => SettledOnce
    <2> SUFFICES ASSUME Books, ChainBooks PROVE SettledOnce
      OBVIOUS
    <2>1. \A S : Repl!Cardinality(S) = Cardinality(S)
      BY Zenon DEF Repl!Cardinality, Cardinality
    <2>2. \A t \in Ids : settled[t] <= delivered[t]
      BY DEF Books, Settled, Owing
    <2>3. Repl!ToSet(TaskIds) = Ids
      BY DEF Repl!ToSet, Ids, ToSet
    <2>4. stopped <= Repl!Cardinality({c \in DOMAIN chains : ~chains[c]})
      BY <2>1 DEF ChainBooks, Inactive
    <2> QED
      BY <2>2, <2>3, <2>4 DEF SettledOnce, Repl!SettledOnce
  <1> QED
    BY <1>1, <1>2, StepBooks, StepChainBooks, PTL DEF MainSpec
=============================================================================
