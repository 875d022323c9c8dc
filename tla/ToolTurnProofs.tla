--------------------------- MODULE ToolTurnProofs ---------------------------
(***************************************************************************)
(* What a Task's turns keep, for any calls, replies and providers: the     *)
(* calls it collects, the conversation it sends, the order a batch runs in *)
(* and the number of sub-tasks it waits for.                               *)
(***************************************************************************)
EXTENDS ToolTurn, FiniteSetTheorems, SequenceTheorems, WellFoundedInduction, TLAPS

-----------------------------------------------------------------------------
(* The collector *)

\* The calls that may come of what the model means to say.
Collected ==
    {c \in [index : DOMAIN said, tool : {said[i].tool : i \in DOMAIN said},
            arg : {said[i].arg : i \in DOMAIN said} \cup {NoArg}] :
        c.tool = said[c.index].tool /\ c.arg \in {said[c.index].arg, NoArg}}

Piece(i, n) == IF n = 1 THEN <<>> ELSE IF n = 2 THEN <<<<i, 1>>>> ELSE <<<<i, 1>>, <<i, 2>>>>

\* A collector g that has seen what s says was sent: each call in flight has
\* all of its own pieces and nothing else, and none is collected twice.
Flow(g, s) ==
    /\ g = [flight |-> g.flight, calls |-> g.calls]
    /\ g.calls \in Seq(Collected)
    /\ DOMAIN g.flight \subseteq DOMAIN said
    /\ \A i \in DOMAIN g.flight : s[i] \in 1..3 /\ g.flight[i] = Piece(i, s[i])
    /\ \A k \in 1..Len(g.calls) :
          /\ s[g.calls[k].index] > 0 /\ g.calls[k].index \notin DOMAIN g.flight
          /\ \A l \in 1..(k - 1) : g.calls[l].index # g.calls[k].index

\* What comes of the call at i when raw is its text.
Took(i, raw) == [index |-> i, tool |-> said[i].tool, arg |-> Parsed(raw)]

Numbered == \E n \in 0..MaxCalls : DOMAIN said = 1..n

LEMMA PieceParsed ==
    ASSUME NEW i \in Index, NEW n \in 1..3
    PROVE  Parsed(Piece(i, n)) = IF n = 3 THEN said[i].arg ELSE NoArg
  <1>1. CASE n = 1
    BY <1>1 DEF Parsed, Piece
  <1>2. CASE n = 2
    BY <1>2 DEF Parsed, Piece
  <1>3. CASE n = 3
    <2>1. Piece(i, n) = <<<<i, 1>>, <<i, 2>>>>
      BY <1>3 DEF Piece
    <2>2. Piece(i, n)[1][1] = i
      BY <2>1
    <2> QED
      BY <1>3, <2>1, <2>2 DEF Parsed
  <1> QED
    BY <1>1, <1>2, <1>3

LEMMA CallsType ==
    ASSUME NEW g, NEW s, Flow(g, s), NEW k \in 1..Len(g.calls)
    PROVE  /\ g.calls[k].index \in DOMAIN said
           /\ g.calls[k].tool = said[g.calls[k].index].tool
           /\ g.calls[k].arg \in {said[g.calls[k].index].arg, NoArg}
  <1>1. g.calls[k] \in Collected
    BY DEF Flow
  <1> QED
    BY <1>1 DEF Collected

\* ToolCallEnd: the call leaves the flight and is the last one collected.
LEMMA EndedFlow ==
    ASSUME NEW g, NEW s, Flow(g, s), Numbered, ProviderStreamAssumption,
           NEW i \in DOMAIN g.flight
    PROVE  /\ Flow(Ended(g, i), s)
           /\ Ended(g, i).calls = Append(g.calls, Took(i, Piece(i, s[i])))
           /\ DOMAIN Ended(g, i).flight = DOMAIN g.flight \ {i}
  <1> DEFINE c == Took(i, Piece(i, s[i]))
             h == Ended(g, i)
  <1>1. g.calls \in Seq(Collected) /\ i \in DOMAIN said /\ s[i] \in 1..3
        /\ g.flight[i] = Piece(i, s[i]) /\ i \in Index
    BY DEF Flow, Numbered, Index, ProviderStreamAssumption
  <1>2. h = [flight |-> [j \in DOMAIN g.flight \ {i} |-> g.flight[j]], calls |-> Append(g.calls, c)]
    BY <1>1 DEF Ended, Took
  <1>3. c \in Collected
    <2>1. Parsed(Piece(i, s[i])) \in {said[i].arg, NoArg}
      BY <1>1, PieceParsed
    <2> QED
      BY <1>1, <2>1 DEF Took, Collected
  <1>4. /\ Append(g.calls, c) \in Seq(Collected)
        /\ Len(Append(g.calls, c)) = Len(g.calls) + 1 /\ Len(g.calls) \in Nat
        /\ \A k \in 1..Len(g.calls) : Append(g.calls, c)[k] = g.calls[k]
        /\ Append(g.calls, c)[Len(g.calls) + 1] = c
    BY <1>1, <1>3
  <1>5. c.index = i
    BY DEF Took
  <1>6. h = [flight |-> h.flight, calls |-> h.calls] /\ h.calls = Append(g.calls, c)
        /\ DOMAIN h.flight = DOMAIN g.flight \ {i}
        /\ \A j \in DOMAIN g.flight \ {i} : h.flight[j] = g.flight[j]
    BY <1>2
  <1> HIDE DEF c, h
  <1>7. ASSUME NEW k \in 1..Len(h.calls)
        PROVE  /\ s[h.calls[k].index] > 0 /\ h.calls[k].index \notin DOMAIN h.flight
               /\ \A l \in 1..(k - 1) : h.calls[l].index # h.calls[k].index
    <2>1. CASE k \in 1..Len(g.calls)
      <3>1. \A l \in 1..(k - 1) : l \in 1..Len(g.calls)
        BY <1>4, <2>1
      <3>2. /\ s[g.calls[k].index] > 0 /\ g.calls[k].index \notin DOMAIN g.flight
            /\ \A l \in 1..(k - 1) : g.calls[l].index # g.calls[k].index
        BY <2>1 DEF Flow
      <3> QED
        BY <1>4, <1>6, <2>1, <3>1, <3>2
    <2>2. CASE k = Len(g.calls) + 1
      <3>1. \A l \in 1..Len(g.calls) : g.calls[l].index # i
        BY DEF Flow
      <3>2. h.calls[k].index = i
        BY <1>4, <1>5, <1>6, <2>2
      <3>3. \A l \in 1..(k - 1) : l \in 1..Len(g.calls) /\ h.calls[l] = g.calls[l]
        BY <1>4, <1>6, <2>2
      <3>4. s[i] > 0 /\ i \notin DOMAIN h.flight
        BY <1>1, <1>6
      <3> QED
        BY <3>1, <3>2, <3>3, <3>4
    <2> QED
      BY <1>4, <1>6, <2>1, <2>2
  <1>8. /\ DOMAIN h.flight \subseteq DOMAIN said
        /\ \A j \in DOMAIN h.flight : s[j] \in 1..3 /\ h.flight[j] = Piece(j, s[j])
    BY <1>6 DEF Flow
  <1>9. Flow(h, s)
    BY <1>4, <1>6, <1>7, <1>8 DEF Flow
  <1> QED
    BY <1>6, <1>9 DEF c, h

\* ToolCallStart: a call that was not begun is in flight, without a piece.
LEMMA StartedFlow ==
    ASSUME NEW g, NEW s, Flow(g, s), NEW i \in DOMAIN said, s[i] = 0,
           NEW t, \A j \in DOMAIN said : t[j] = IF j = i THEN 1 ELSE s[j]
    PROVE  /\ Flow(Started(g, i), t)
           /\ Started(g, i).calls = g.calls
           /\ DOMAIN Started(g, i).flight = DOMAIN g.flight \cup {i}
  <1> DEFINE h == Started(g, i)
  <1>1. i \notin DOMAIN g.flight /\ g = [flight |-> g.flight, calls |-> g.calls]
        /\ \A k \in 1..Len(g.calls) : g.calls[k].index # i
    BY DEF Flow
  <1>2. h = [flight |-> [j \in DOMAIN g.flight \cup {i} |-> IF j = i THEN <<>> ELSE g.flight[j]],
             calls  |-> g.calls]
    BY <1>1 DEF Started
  <1>3. /\ h = [flight |-> h.flight, calls |-> h.calls] /\ h.calls = g.calls
        /\ DOMAIN h.flight = DOMAIN g.flight \cup {i} /\ h.flight[i] = <<>>
        /\ \A j \in DOMAIN g.flight : h.flight[j] = g.flight[j]
    BY <1>1, <1>2
  <1> HIDE DEF h
  <1>4. \A j \in DOMAIN h.flight : t[j] \in 1..3 /\ h.flight[j] = Piece(j, t[j])
    <2>1. t[i] = 1 /\ Piece(i, 1) = <<>>
      BY DEF Piece
    <2>2. \A j \in DOMAIN g.flight : j # i /\ t[j] = s[j] /\ s[j] \in 1..3 /\ g.flight[j] = Piece(j, s[j])
      BY <1>1 DEF Flow
    <2> QED
      BY <1>3, <2>1, <2>2
  <1>5. \A k \in 1..Len(h.calls) :
          /\ t[h.calls[k].index] > 0 /\ h.calls[k].index \notin DOMAIN h.flight
          /\ \A l \in 1..(k - 1) : h.calls[l].index # h.calls[k].index
    <2> SUFFICES ASSUME NEW k \in 1..Len(g.calls)
                 PROVE  /\ t[g.calls[k].index] > 0 /\ g.calls[k].index \notin DOMAIN h.flight
                        /\ \A l \in 1..(k - 1) : g.calls[l].index # g.calls[k].index
      BY <1>3
    <2>1. g.calls[k].index \in DOMAIN said /\ g.calls[k].index # i
      BY <1>1, CallsType
    <2>2. t[g.calls[k].index] = s[g.calls[k].index]
      BY <2>1
    <2> QED
      BY <1>3, <2>1, <2>2 DEF Flow
  <1>6. Flow(h, t)
    BY <1>3, <1>4, <1>5 DEF Flow
  <1> QED
    BY <1>3, <1>6 DEF h

LEMMA TwoInRow == ASSUME NEW x, NEW y PROVE Append(<<x>>, y) = <<x, y>>
  <1> DEFINE S == {x, y}
  <1>1. <<x>> \in Seq(S) /\ y \in S /\ <<x, y>> \in Seq(S)
    OBVIOUS
  <1> HIDE DEF S
  <1>2. /\ Append(<<x>>, y) \in Seq(S) /\ Len(Append(<<x>>, y)) = 2
        /\ Append(<<x>>, y)[1] = x /\ Append(<<x>>, y)[2] = y
    BY <1>1, AppendProperties
  <1>3. \A k \in 1..2 : Append(<<x>>, y)[k] = <<x, y>>[k]
    BY <1>2
  <1>4. Len(<<x, y>>) = 2
    OBVIOUS
  <1> QED
    BY <1>1, <1>2, <1>3, <1>4, SeqEqual

\* ToolCallArgs: the piece goes to its own call, or nowhere.
LEMMA PieceFlow ==
    ASSUME NEW g, NEW s, Flow(g, s), NEW i \in DOMAIN said, s[i] \in {1, 2},
           NEW t, \A j \in DOMAIN said : t[j] = IF j = i THEN s[i] + 1 ELSE s[j]
    PROVE  /\ Flow(WithPiece(g, i, <<i, s[i]>>), t)
           /\ WithPiece(g, i, <<i, s[i]>>).calls = g.calls
           /\ DOMAIN WithPiece(g, i, <<i, s[i]>>).flight = DOMAIN g.flight
  <1> DEFINE h == WithPiece(g, i, <<i, s[i]>>)
  <1>1. g = [flight |-> g.flight, calls |-> g.calls]
    BY DEF Flow
  <1>2. /\ h = [flight |-> h.flight, calls |-> h.calls] /\ h.calls = g.calls
        /\ DOMAIN h.flight = DOMAIN g.flight
        /\ \A j \in DOMAIN g.flight : h.flight[j] = IF j = i THEN Append(g.flight[i], <<i, s[i]>>) ELSE g.flight[j]
    <2>1. CASE i \in DOMAIN g.flight
      <3> DEFINE x == Append(g.flight[i], <<i, s[i]>>)
                 f == [g.flight EXCEPT ![i] = x]
      <3>1. h = [flight |-> f, calls |-> g.calls]
        BY <1>1, <2>1 DEF WithPiece
      <3> HIDE DEF x
      <3>3. DOMAIN f = DOMAIN g.flight
        OBVIOUS
      <3>4. \A j \in DOMAIN g.flight : f[j] = IF j = i THEN x ELSE g.flight[j]
        OBVIOUS
      <3> HIDE DEF f
      <3>2. h = [flight |-> h.flight, calls |-> h.calls] /\ h.calls = g.calls /\ h.flight = f
        BY <3>1
      <3> QED
        BY <3>2, <3>3, <3>4 DEF x
    <2>2. CASE i \notin DOMAIN g.flight
      BY <1>1, <2>2 DEF WithPiece
    <2> QED
      BY <2>1, <2>2
  <1> HIDE DEF h
  <1>3. \A j \in DOMAIN h.flight : t[j] \in 1..3 /\ h.flight[j] = Piece(j, t[j])
    <2>1. Append(Piece(i, s[i]), <<i, s[i]>>) = Piece(i, s[i] + 1)
      <3>1. CASE s[i] = 1
        BY <3>1 DEF Piece
      <3>2. CASE s[i] = 2
        <4>1. Append(<<<<i, 1>>>>, <<i, 2>>) = <<<<i, 1>>, <<i, 2>>>>
          BY TwoInRow
        <4> QED
          BY <3>2, <4>1 DEF Piece
      <3> QED
        BY <3>1, <3>2
    <2> SUFFICES ASSUME NEW j \in DOMAIN g.flight
                 PROVE  t[j] \in 1..3 /\ h.flight[j] = Piece(j, t[j])
      BY <1>2
    <2>2. s[j] \in 1..3 /\ g.flight[j] = Piece(j, s[j]) /\ j \in DOMAIN said
      BY DEF Flow
    <2>3. CASE j = i
      <3>1. h.flight[i] = Append(Piece(i, s[i]), <<i, s[i]>>)
        BY <1>2, <2>2, <2>3
      <3>2. t[i] = s[i] + 1 /\ t[i] \in 1..3
        OBVIOUS
      <3> QED
        BY <2>1, <2>3, <3>1, <3>2
    <2>4. CASE j # i
      BY <1>2, <2>2, <2>4
    <2> QED
      BY <2>3, <2>4
  <1>4. \A k \in 1..Len(h.calls) :
          /\ t[h.calls[k].index] > 0 /\ h.calls[k].index \notin DOMAIN h.flight
          /\ \A l \in 1..(k - 1) : h.calls[l].index # h.calls[k].index
    <2> SUFFICES ASSUME NEW k \in 1..Len(g.calls)
                 PROVE  /\ t[g.calls[k].index] > 0 /\ g.calls[k].index \notin DOMAIN g.flight
                        /\ \A l \in 1..(k - 1) : g.calls[l].index # g.calls[k].index
      BY <1>2
    <2>1. g.calls[k].index \in DOMAIN said
      BY CallsType
    <2> DEFINE c == g.calls[k].index
    <2>2. t[c] = s[c] \/ t[c] = s[i] + 1
      BY <2>1
    <2>3. s[c] > 0 /\ c \notin DOMAIN g.flight
          /\ \A l \in 1..(k - 1) : g.calls[l].index # g.calls[k].index
      BY DEF Flow
    <2> QED
      BY <2>2, <2>3
  <1>5. Flow(h, t)
    BY <1>2, <1>3, <1>4 DEF Flow
  <1> QED
    BY <1>2, <1>5 DEF h

\* A call that is not in flight may be sent on: nothing changes.
LEMMA SentFlow ==
    ASSUME NEW g, NEW s, Flow(g, s), NEW i \in DOMAIN said \ DOMAIN g.flight,
           NEW t, t[i] > 0, \A j \in DOMAIN said : j # i => t[j] = s[j]
    PROVE  Flow(g, t)
  <1>1. \A j \in DOMAIN g.flight : t[j] = s[j]
    BY DEF Flow
  <1>2. \A k \in 1..Len(g.calls) : t[g.calls[k].index] > 0
    BY CallsType DEF Flow
  <1> QED
    BY <1>1, <1>2 DEF Flow

-----------------------------------------------------------------------------
(* The parsers *)

Rising(g) == \A k \in 1..Len(g.calls) : \A l \in 1..(k - 1) : g.calls[l].index < g.calls[k].index
Upto(g)   == \A k \in 1..Len(g.calls) : g.calls[k].index = k

\* openai: calls begin in turn and only the current one is in flight.
OpenAI ==
    /\ current \in DOMAIN said \cup {0}
    /\ \A i \in Index : sent[i] <= 3 /\ (sent[i] > 0 <=> i <= current)
    /\ \/ open = <<>> /\ DOMAIN got.flight = {}
       \/ current # 0 /\ open = <<current>> /\ DOMAIN got.flight = {current}
    /\ \A k \in 1..Len(got.calls) : got.calls[k].index <= current
    /\ Rising(got)
    /\ straight =>
         /\ open = <<>> => current = 0
         /\ current = Len(got.calls) + Len(open) /\ Upto(got)
         /\ \A k \in 1..Len(got.calls) : sent[k] = 3 => got.calls[k].arg = said[k].arg

\* anthropic: whatever is begun and not stopped is in flight.
Anthropic ==
    /\ \A i \in DOMAIN said : sent[i] \in 1..3 => i \in DOMAIN got.flight
    /\ \A k \in 1..Len(got.calls) :
          sent[got.calls[k].index] = 4 /\ got.calls[k].arg = said[got.calls[k].index].arg
    /\ straight =>
         /\ Rising(got)
         /\ \A n \in 0..MaxCalls :
              (\A i \in Index : sent[i] = 4 <=> i <= n) => Len(got.calls) = n /\ Upto(got)

\* gemini: calls come whole and in turn.
Gemini ==
    /\ DOMAIN got.flight = {}
    /\ \A i \in Index : sent[i] \in {0, 3} /\ (sent[i] = 3 <=> i <= Len(got.calls))
    /\ Upto(got)
    /\ \A k \in 1..Len(got.calls) : got.calls[k].arg = said[k].arg

Parsing ==
    end = "open" =>
      /\ Flow(got, sent)
      /\ \A i \in Index : sent[i] > 0 => i \in DOMAIN said
      /\ dialect = "openai" => OpenAI
      /\ dialect = "anthropic" => Anthropic
      /\ dialect = "gemini" => Gemini

\* What stays true of the calls until the batch is over.
Gathered ==
    /\ got = [flight |-> got.flight, calls |-> got.calls]
    /\ got.calls \in Seq(Collected)
    /\ \A k \in 1..Len(got.calls) : \A l \in 1..(k - 1) : got.calls[l].index # got.calls[k].index
    /\ (end # "closed" /\ straight) \/ dialect = "openai" => Rising(got)

Whole ==
    end = "done" /\ AllSent /\ straight =>
      DOMAIN got.calls = DOMAIN said /\ \A k \in DOMAIN said : got.calls[k].arg = said[k].arg

StreamTypes ==
    /\ dialect \in Dialects /\ Numbered
    /\ sent \in [Index -> 0..4]
    /\ current \in 0..MaxCalls
    /\ straight \in BOOLEAN

StreamInv == StreamTypes /\ Parsing /\ Gathered /\ Whole

LEMMA GatheredIs ==
    ASSUME StreamInv, Whole
    PROVE  ReplyCollected
  <1>1. \A k \in DOMAIN got.calls :
           LET c == got.calls[k] IN
           /\ c.index \in DOMAIN said /\ c.tool = said[c.index].tool
           /\ c.arg \in {said[c.index].arg, NoArg}
           /\ \A l \in 1..(k - 1) :
                 got.calls[l].index # c.index
                 /\ ((end # "closed" /\ straight) \/ dialect = "openai" => got.calls[l].index < c.index)
    <2> SUFFICES ASSUME NEW k \in 1..Len(got.calls)
                 PROVE  /\ got.calls[k].index \in DOMAIN said
                        /\ got.calls[k].tool = said[got.calls[k].index].tool
                        /\ got.calls[k].arg \in {said[got.calls[k].index].arg, NoArg}
                        /\ \A l \in 1..(k - 1) :
                              got.calls[l].index # got.calls[k].index
                              /\ ((end # "closed" /\ straight) \/ dialect = "openai"
                                     => got.calls[l].index < got.calls[k].index)
      BY DEF StreamInv, Gathered
    <2>1. got.calls[k] \in Collected
      BY DEF StreamInv, Gathered
    <2>2. \A l \in 1..(k - 1) :
             got.calls[l].index # got.calls[k].index
             /\ ((end # "closed" /\ straight) \/ dialect = "openai"
                    => got.calls[l].index < got.calls[k].index)
      BY DEF StreamInv, Gathered, Rising
    <2> QED
      BY <2>1, <2>2 DEF Collected
  <1>2. (end = "done" /\ AllSent /\ straight) =>
         [k \in DOMAIN got.calls |-> got.calls[k].arg] = [i \in DOMAIN said |-> said[i].arg]
    BY DEF Whole
  <1> QED
    BY <1>1, <1>2 DEF ReplyCollected

\* The same calls with the same indices.
LEMMA SameCalls ==
    ASSUME NEW g, NEW h, h.calls = g.calls
    PROVE  (Rising(g) <=> Rising(h)) /\ (Upto(g) <=> Upto(h))
  BY DEF Rising, Upto

\* The call that ends is the highest, or the next.
LEMMA EndedRising ==
    ASSUME NEW g, NEW s, Flow(g, s), Numbered, ProviderStreamAssumption,
           NEW i \in DOMAIN g.flight,
           \A k \in 1..Len(g.calls) : g.calls[k].index <= i
    PROVE  /\ Rising(g) => Rising(Ended(g, i))
           /\ Upto(g) /\ i = Len(g.calls) + 1 => Upto(Ended(g, i))
           /\ Len(Ended(g, i).calls) = Len(g.calls) + 1
           /\ \A k \in 1..Len(g.calls) : Ended(g, i).calls[k] = g.calls[k]
           /\ Ended(g, i).calls[Len(g.calls) + 1] = Took(i, Piece(i, s[i]))
           /\ \A k \in 1..Len(Ended(g, i).calls) : Ended(g, i).calls[k].index <= i
  <1> DEFINE h == Ended(g, i)
             c == Took(i, Piece(i, s[i]))
  <1>1. h.calls = Append(g.calls, c) /\ Flow(h, s)
    BY EndedFlow
  <1>2. g.calls \in Seq(Collected) /\ h.calls \in Seq(Collected) /\ i \in Nat
    BY <1>1 DEF Flow, Numbered
  <1>3. c.index = i
    BY DEF Took
  <1> HIDE DEF h, c
  <1>4. /\ Len(h.calls) = Len(g.calls) + 1 /\ Len(g.calls) \in Nat
        /\ \A k \in 1..Len(g.calls) : h.calls[k] = g.calls[k]
        /\ h.calls[Len(g.calls) + 1] = c
    BY <1>1, <1>2
  <1>5. \A k \in 1..Len(g.calls) : g.calls[k].index \in Nat /\ g.calls[k].index # i
    <2> TAKE k \in 1..Len(g.calls)
    <2>1. g.calls[k].index \in DOMAIN said
      BY CallsType
    <2>2. g.calls[k].index \notin DOMAIN g.flight
      BY DEF Flow
    <2> QED
      BY <2>1, <2>2 DEF Numbered
  <1>6. \A k \in 1..Len(h.calls) : k \in 1..Len(g.calls) \/ k = Len(g.calls) + 1
    BY <1>4
  <1>7. ASSUME Rising(g) PROVE Rising(h)
    <2> SUFFICES ASSUME NEW k \in 1..Len(h.calls), NEW l \in 1..(k - 1)
                 PROVE  h.calls[l].index < h.calls[k].index
      BY DEF Rising
    <2>1. l \in 1..Len(g.calls) /\ h.calls[l] = g.calls[l]
      BY <1>4, <1>6
    <2>2. CASE k \in 1..Len(g.calls)
      BY <1>4, <1>7, <2>1, <2>2 DEF Rising
    <2>3. CASE k = Len(g.calls) + 1
      BY <1>3, <1>4, <1>5, <1>2, <2>1, <2>3
    <2> QED
      BY <1>6, <2>2, <2>3
  <1>8. ASSUME Upto(g), i = Len(g.calls) + 1 PROVE Upto(h)
    BY <1>3, <1>4, <1>6, <1>8 DEF Upto
  <1>9. \A k \in 1..Len(h.calls) : h.calls[k].index <= i
    BY <1>2, <1>3, <1>4, <1>6
  <1> QED
    BY <1>4, <1>7, <1>8, <1>9 DEF h, c

LEMMA FlowMoved ==
    ASSUME said' = said, Flow(got', sent')
    PROVE  Flow(got, sent)'
  <1>1. Collected' = Collected
    BY DEF Collected
  <1> QED
    BY <1>1 DEF Flow, Piece

LEMMA FlowGathered ==
    ASSUME Flow(got, sent)
    PROVE  /\ got.calls \in Seq(Collected)
           /\ \A k \in 1..Len(got.calls) : \A l \in 1..(k - 1) : got.calls[l].index # got.calls[k].index
  BY DEF Flow

\* The invariant after an event of a dialect whose own part is known to hold.
LEMMA EventKeeps ==
    ASSUME StreamInv, ProviderStreamAssumption, NEW i \in DOMAIN said,
           UNCHANGED <<dialect, said, end>>, end = "open",
           \E n \in 1..4 : sent' = [sent EXCEPT ![i] = n],
           current' \in 0..MaxCalls, straight' \in BOOLEAN,
           Flow(got', sent'),
           dialect = "openai" => OpenAI',
           dialect = "anthropic" => Anthropic',
           dialect = "gemini" => Gemini'
    PROVE  StreamInv'
  <1>1. Flow(got, sent)'
    BY FlowMoved
  <1>2. i \in Index /\ Collected' = Collected
    BY DEF StreamInv, StreamTypes, Numbered, Index, ProviderStreamAssumption, Collected
  <1>3. StreamTypes'
    <2>1. PICK n \in 1..4 : sent' = [sent EXCEPT ![i] = n]
      OBVIOUS
    <2>2. sent \in [Index -> 0..4] /\ Index' = Index /\ dialect \in Dialects /\ Numbered
      BY DEF StreamInv, StreamTypes, Index
    <2>3. sent' \in [Index -> 0..4]
      BY <1>2, <2>1, <2>2
    <2>4. Numbered'
      BY <2>2 DEF Numbered
    <2> QED
      BY <2>2, <2>3, <2>4 DEF StreamTypes
  <1>4. \A j \in Index : sent'[j] > 0 => j \in DOMAIN said
    BY <1>2 DEF StreamInv, StreamTypes, Parsing, Index
  <1>5. Parsing'
    BY <1>1, <1>4 DEF Parsing, Index
  <1>6. /\ got' = [flight |-> got'.flight, calls |-> got'.calls]
        /\ got'.calls \in Seq(Collected)
        /\ \A k \in 1..Len(got'.calls) : \A l \in 1..(k - 1) : got'.calls[l].index # got'.calls[k].index
    BY DEF Flow
  <1>7. (end' # "closed" /\ straight') \/ dialect' = "openai" => Rising(got')
    <2>1. CASE dialect = "openai"
      BY <2>1 DEF OpenAI
    <2>2. CASE dialect = "anthropic"
      BY <2>2 DEF Anthropic
    <2>3. CASE dialect = "gemini"
      <3>1. Upto(got') /\ got'.calls \in Seq(Collected)
        BY <1>6, <2>3 DEF Gemini
      <3> QED
        BY <3>1, <2>3 DEF Upto, Rising
    <2> QED
      BY <2>1, <2>2, <2>3 DEF StreamInv, StreamTypes, ProviderStreamAssumption
  <1>8. Gathered'
    BY <1>2, <1>6, <1>7 DEF Gathered, Rising
  <1>9. Whole'
    BY DEF Whole
  <1> QED
    BY <1>3, <1>5, <1>8, <1>9 DEF StreamInv

LEMMA RemoveOnly == ASSUME NEW c PROVE RemoveFirst(<<c>>, c) = <<>> /\ Contains(<<c>>, c)
  <1>1. Contains(<<c>>, c)
    BY DEF Contains
  <1>2. {i \in 1..Len(<<c>>) : <<c>>[i] = c} = {1}
    OBVIOUS
  <1>3. Min({1}) = 1
    BY DEF Min
  <1>4. SubSeq(<<c>>, 1, 0) = <<>> /\ SubSeq(<<c>>, 2, 1) = <<>>
    OBVIOUS
  <1>5. RemoveAt(<<c>>, 1) = <<>>
    BY <1>4 DEF RemoveAt
  <1>6. SelectInSeq(<<c>>, LAMBDA v : v = c) = 1
    BY <1>2, <1>3 DEF SelectInSeq
  <1> QED
    BY <1>1, <1>5, <1>6 DEF RemoveFirst

\* openai: what an event of another call than the current one finds.
LEMMA Switched ==
    ASSUME StreamInv, ProviderStreamAssumption, end = "open", dialect = "openai",
           NEW i \in DOMAIN said, i # current
    PROVE  /\ Flow(AfterSwitch(i), sent) /\ StillOpen(i) = <<>>
           /\ DOMAIN AfterSwitch(i).flight = {}
           /\ Rising(AfterSwitch(i))
           /\ \A k \in 1..Len(AfterSwitch(i).calls) : AfterSwitch(i).calls[k].index <= current
           /\ straight =>
                /\ Len(AfterSwitch(i).calls) = current /\ Upto(AfterSwitch(i))
                /\ \A k \in 1..current : sent[k] = 3 => AfterSwitch(i).calls[k].arg = said[k].arg
  <1>1. OpenAI /\ Flow(got, sent) /\ Numbered
    BY DEF StreamInv, Parsing, StreamTypes
  <1>2. CASE open = <<>> /\ DOMAIN got.flight = {}
    <2>1. ~Contains(open, current)
      BY <1>2 DEF Contains
    <2>2. AfterSwitch(i) = got /\ StillOpen(i) = <<>>
      BY <1>2, <2>1 DEF AfterSwitch, StillOpen, Displaced
    <2>3. Len(open) = 0
      BY <1>2
    <2> QED
      BY <1>1, <1>2, <2>2, <2>3 DEF OpenAI
  <1>3. CASE current # 0 /\ open = <<current>> /\ DOMAIN got.flight = {current}
    <2>1. Displaced(i)
      BY <1>3, RemoveOnly DEF Displaced
    <2>2. AfterSwitch(i) = Ended(got, current) /\ StillOpen(i) = <<>>
      BY <1>3, <2>1, RemoveOnly DEF AfterSwitch, StillOpen
    <2>3. Len(open) = 1 /\ current \in Index /\ current \in DOMAIN said /\ sent[current] \in 1..3
      BY <1>1, <1>3 DEF OpenAI, Numbered, Index, ProviderStreamAssumption, Flow
    <2>4. /\ Flow(Ended(got, current), sent) /\ DOMAIN Ended(got, current).flight = {}
          /\ Ended(got, current).calls = Append(got.calls, Took(current, Piece(current, sent[current])))
      BY <1>1, <1>3, EndedFlow
    <2>5. /\ Rising(Ended(got, current))
          /\ Upto(got) /\ current = Len(got.calls) + 1 => Upto(Ended(got, current))
          /\ Len(Ended(got, current).calls) = Len(got.calls) + 1
          /\ \A k \in 1..Len(got.calls) : Ended(got, current).calls[k] = got.calls[k]
          /\ Ended(got, current).calls[Len(got.calls) + 1] = Took(current, Piece(current, sent[current]))
          /\ \A k \in 1..Len(Ended(got, current).calls) : Ended(got, current).calls[k].index <= current
      BY <1>1, <1>3, EndedRising DEF OpenAI
    <2>6. sent[current] = 3 => Took(current, Piece(current, sent[current])).arg = said[current].arg
      BY <2>3, PieceParsed DEF Took
    <2>7. Len(got.calls) \in Nat
      BY <1>1 DEF Flow
    <2>8. ASSUME straight
          PROVE  /\ Len(Ended(got, current).calls) = current /\ Upto(Ended(got, current))
                 /\ \A k \in 1..current : sent[k] = 3 => Ended(got, current).calls[k].arg = said[k].arg
      <3>1. current = Len(got.calls) + 1 /\ Upto(got)
            /\ \A k \in 1..Len(got.calls) : sent[k] = 3 => got.calls[k].arg = said[k].arg
        BY <1>1, <2>3, <2>8 DEF OpenAI
      <3>2. \A k \in 1..current : k \in 1..Len(got.calls) \/ k = current
        BY <2>7, <3>1
      <3> HIDE DEF Took
      <3> QED
        BY <2>5, <2>6, <3>1, <3>2
    <2> QED
      BY <2>2, <2>4, <2>5, <2>8
  <1> QED
    BY <1>1, <1>2, <1>3 DEF OpenAI

LEMMA ToolCallStartKeeps ==
    ASSUME StreamInv, ProviderStreamAssumption, NEW i \in DOMAIN said,
           ToolCallStart(i), dialect' = dialect
    PROVE  StreamInv'
  <1> DEFINE g == AfterSwitch(i)
  <1>1. /\ dialect = "openai" /\ end = "open" /\ sent[i] = 0
        /\ \A j \in 1..(i - 1) : sent[j] > 0
        /\ sent' = [sent EXCEPT ![i] = 1] /\ got' = Started(g, i)
        /\ open' = Append(StillOpen(i), i) /\ current' = i
        /\ UNCHANGED <<said, end, straight>>
    BY DEF ToolCallStart, MayBegin, Sends
  <1>2. OpenAI /\ Flow(got, sent) /\ StreamTypes
    BY <1>1 DEF StreamInv, Parsing
  <1>3. i \in Index /\ i \in 1..MaxCalls /\ MaxCalls \in Nat /\ current \in Nat
        /\ \A j \in 1..(i - 1) : j \in Index
    BY <1>2 DEF StreamTypes, Numbered, Index, ProviderStreamAssumption
  <1>4. i = current + 1
    <2>1. ~(i <= current) /\ \A j \in 1..(i - 1) : j <= current
      BY <1>1, <1>2, <1>3 DEF OpenAI
    <2> QED
      BY <1>3, <2>1
  <1>5. /\ Flow(g, sent) /\ StillOpen(i) = <<>> /\ DOMAIN g.flight = {} /\ Rising(g)
        /\ \A k \in 1..Len(g.calls) : g.calls[k].index <= current
        /\ straight =>
                /\ Len(g.calls) = current /\ Upto(g)
                /\ \A k \in 1..current : sent[k] = 3 => g.calls[k].arg = said[k].arg
    BY <1>1, <1>3, <1>4, Switched
  <1> HIDE DEF g
  <1>6. \A j \in Index : sent'[j] = IF j = i THEN 1 ELSE sent[j]
    BY <1>1, <1>2 DEF StreamTypes
  <1>7. DOMAIN said \subseteq Index
    BY <1>2, <1>3 DEF StreamTypes, Numbered, Index
  <1>8. Flow(got', sent') /\ got'.calls = g.calls /\ DOMAIN got'.flight = {i}
    <2>1. \A j \in DOMAIN said : sent'[j] = IF j = i THEN 1 ELSE sent[j]
      BY <1>6, <1>7
    <2>2. /\ Flow(Started(g, i), sent') /\ Started(g, i).calls = g.calls
          /\ DOMAIN Started(g, i).flight = DOMAIN g.flight \cup {i}
      <3>1. Flow(g, sent) /\ sent[i] = 0
        BY <1>1, <1>5
      <3> QED
        BY <2>1, <3>1, StartedFlow
    <2> QED
      BY <1>1, <1>5, <2>2
  <1>9. open' = <<i>> /\ Len(open') = 1
    BY <1>1, <1>5
  <1>10. Rising(got') /\ (Upto(g) => Upto(got'))
    BY <1>5, <1>8, SameCalls
  <1>11. \A j \in Index : sent'[j] <= 3 /\ (sent'[j] > 0 <=> j <= i)
    BY <1>2, <1>3, <1>4, <1>6 DEF OpenAI, Index
  <1>12. \A k \in 1..Len(g.calls) : g.calls[k].index <= i
    <2> TAKE k \in 1..Len(g.calls)
    <2>1. g.calls[k].index \in Nat /\ g.calls[k].index <= current
      BY <1>5, <1>7, CallsType DEF Index
    <2> QED
      BY <2>1, <1>3, <1>4
  <1>13. ASSUME straight
         PROVE  /\ i = Len(g.calls) + 1 /\ Upto(got')
                /\ \A k \in 1..Len(g.calls) : sent'[k] = 3 => g.calls[k].arg = said[k].arg
    <2>1. Len(g.calls) = current /\ Upto(g)
          /\ \A k \in 1..current : sent[k] = 3 => g.calls[k].arg = said[k].arg
      BY <1>5, <1>13
    <2>2. \A k \in 1..current : k \in Index /\ k # i
      BY <1>3, <1>4 DEF Index
    <2> QED
      BY <1>4, <1>6, <1>10, <2>1, <2>2
  <1>14. OpenAI'
    <2>1. /\ current' \in DOMAIN said' \cup {0} /\ current' # 0 /\ open' = <<current'>>
          /\ DOMAIN got'.flight = {current'}
      BY <1>1, <1>3, <1>8, <1>9
    <2>2. \A j \in Index : sent'[j] <= 3 /\ (sent'[j] > 0 <=> j <= current')
      BY <1>1, <1>11
    <2>3. \A k \in 1..Len(got'.calls) : got'.calls[k].index <= current'
      BY <1>1, <1>8, <1>12
    <2>4. straight' =>
            /\ open' = <<>> => current' = 0
            /\ current' = Len(got'.calls) + Len(open') /\ Upto(got')
            /\ \A k \in 1..Len(got'.calls) : sent'[k] = 3 => got'.calls[k].arg = said'[k].arg
      BY <1>1, <1>8, <1>9, <1>13
    <2> QED
      BY <1>10, <2>1, <2>2, <2>3, <2>4, <1>5 DEF OpenAI, Rising, Upto, Index
  <1>15. \E n \in 1..4 : sent' = [sent EXCEPT ![i] = n]
    BY <1>1
  <1>16. current' \in 0..MaxCalls /\ straight' \in BOOLEAN /\ UNCHANGED <<dialect, said, end>>
    BY <1>1, <1>2, <1>3 DEF StreamTypes
  <1> QED
    BY <1>1, <1>8, <1>14, <1>15, <1>16, EventKeeps

LEMMA ToolCallArgsKeeps ==
    ASSUME StreamInv, ProviderStreamAssumption, NEW i \in DOMAIN said,
           ToolCallArgs(i), dialect' = dialect
    PROVE  StreamInv'
  <1> DEFINE g == AfterSwitch(i)
             p == <<i, sent[i]>>
  <1>1. /\ dialect = "openai" /\ end = "open" /\ sent[i] \in {1, 2}
        /\ sent' = [sent EXCEPT ![i] = sent[i] + 1] /\ got' = WithPiece(g, i, p)
        /\ open' = StillOpen(i) /\ straight' = (straight /\ InLine(i))
        /\ UNCHANGED <<said, current, end>>
    BY DEF ToolCallArgs, MayGoOn, Sends
  <1>2. OpenAI /\ Flow(got, sent) /\ StreamTypes
    BY <1>1 DEF StreamInv, Parsing
  <1>3. i \in Index /\ DOMAIN said \subseteq Index /\ current \in Nat /\ i \in Nat
    BY <1>2 DEF StreamTypes, Numbered, Index, ProviderStreamAssumption
  <1>4. i <= current /\ current \in DOMAIN said
    BY <1>1, <1>2, <1>3 DEF OpenAI, Index
  <1>5. \A j \in Index : sent'[j] = IF j = i THEN sent[i] + 1 ELSE sent[j]
    BY <1>1, <1>2 DEF StreamTypes
  <1>6. Flow(g, sent)
    <2>1. CASE i = current
      BY <1>2, <2>1 DEF AfterSwitch, Displaced
    <2>2. CASE i # current
      BY <1>1, <2>2, Switched
    <2> QED
      BY <2>1, <2>2
  <1>7. Flow(got', sent') /\ got'.calls = g.calls /\ DOMAIN got'.flight = DOMAIN g.flight
    <2>1. \A j \in DOMAIN said : sent'[j] = IF j = i THEN sent[i] + 1 ELSE sent[j]
      BY <1>3, <1>5
    <2>2. sent[i] \in {1, 2}
      BY <1>1
    <2>3. /\ Flow(WithPiece(g, i, p), sent') /\ WithPiece(g, i, p).calls = g.calls
          /\ DOMAIN WithPiece(g, i, p).flight = DOMAIN g.flight
      <3> HIDE DEF g
      <3> QED
        BY <1>6, <2>1, <2>2, PieceFlow
    <2> QED
      BY <1>1, <2>3
  <1>8. \A j \in Index : sent'[j] <= 3 /\ (sent'[j] > 0 <=> j <= current)
    BY <1>1, <1>2, <1>4, <1>5 DEF OpenAI, StreamTypes
  <1>9. straight' \in BOOLEAN
    BY <1>1, <1>2 DEF StreamTypes
  <1>10. OpenAI'
    <2>1. CASE i = current
      <3>1. g = got /\ StillOpen(i) = open
        BY <2>1 DEF AfterSwitch, StillOpen, Displaced
      <3>2. got'.calls = got.calls /\ DOMAIN got'.flight = DOMAIN got.flight /\ open' = open
        BY <1>1, <1>7, <3>1
      <3>3. Rising(got') /\ (Upto(got) => Upto(got'))
        BY <1>2, <3>2, SameCalls DEF OpenAI
      <3>4. ASSUME straight'
            PROVE  /\ open' = <<>> => current' = 0
                   /\ current' = Len(got'.calls) + Len(open') /\ Upto(got')
                   /\ \A k \in 1..Len(got'.calls) : sent'[k] = 3 => got'.calls[k].arg = said'[k].arg
        <4>1. straight
          BY <1>1, <3>4
        <4>2. current # 0
          BY <1>4, <1>2 DEF StreamTypes, Numbered
        <4>3. open = <<current>> /\ Len(open) = 1
          BY <1>2, <4>1, <4>2 DEF OpenAI
        <4>4. current = Len(got.calls) + 1 /\ Upto(got) /\ Len(got.calls) \in Nat
          BY <1>2, <4>1, <4>3 DEF OpenAI, Flow
        <4>5. \A k \in 1..Len(got.calls) : k \in Index /\ k # i
          BY <1>3, <2>1, <4>4 DEF Index
        <4> QED
          BY <1>1, <1>2, <1>5, <3>2, <3>3, <4>1, <4>2, <4>3, <4>4, <4>5 DEF OpenAI
      <3>5. \/ open' = <<>> /\ DOMAIN got'.flight = {}
            \/ current' # 0 /\ open' = <<current'>> /\ DOMAIN got'.flight = {current'}
        BY <1>1, <1>2, <3>2 DEF OpenAI
      <3>6. \A k \in 1..Len(got'.calls) : got'.calls[k].index <= current'
        BY <1>1, <1>2, <3>2 DEF OpenAI
      <3>7. current' \in DOMAIN said' \cup {0}
        BY <1>1, <1>4
      <3>8. Rising(got)'
        BY <3>3 DEF Rising
      <3>9. straight' => Upto(got)'
        BY <3>4 DEF Upto
      <3> QED
        BY <1>1, <1>8, <3>4, <3>5, <3>6, <3>7, <3>8, <3>9 DEF OpenAI, Index
    <2>2. CASE i # current
      <3>1. ~straight'
        <4>1. current \in DOMAIN said /\ sent[current] > 0 /\ ~(current <= i)
          BY <1>2, <1>3, <1>4, <2>2 DEF OpenAI
        <4> QED
          BY <1>1, <4>1 DEF InLine, Begun
      <3>2. /\ StillOpen(i) = <<>> /\ DOMAIN g.flight = {} /\ Rising(g)
            /\ \A k \in 1..Len(g.calls) : g.calls[k].index <= current
        BY <1>1, <2>2, Switched
      <3> HIDE DEF g
      <3>3. Rising(got)'
        BY <1>7, <3>2, SameCalls DEF Rising
      <3>4. open' = <<>> /\ DOMAIN got'.flight = {}
        BY <1>1, <1>7, <3>2
      <3>5. \A k \in 1..Len(got'.calls) : got'.calls[k].index <= current'
        BY <1>1, <1>7, <3>2
      <3>6. current' \in DOMAIN said' \cup {0}
        BY <1>1, <1>4
      <3> QED
        BY <1>1, <1>8, <3>1, <3>3, <3>4, <3>5, <3>6 DEF OpenAI, Index
    <2> QED
      BY <2>1, <2>2
  <1>11. \E n \in 1..4 : sent' = [sent EXCEPT ![i] = n]
    <2>1. sent[i] + 1 \in 1..4
      BY <1>1
    <2> QED
      BY <1>1, <2>1
  <1>12. current' \in 0..MaxCalls /\ UNCHANGED <<dialect, said, end>>
    BY <1>1, <1>2 DEF StreamTypes
  <1> QED
    BY <1>1, <1>7, <1>9, <1>10, <1>11, <1>12, EventKeeps

\* anthropic: an event that leaves the collected calls as they are.
LEMMA BlockKeeps ==
    ASSUME StreamInv, ProviderStreamAssumption, NEW i \in DOMAIN said,
           dialect = "anthropic", end = "open", sent[i] # 4,
           NEW n \in 1..3, sent' = [sent EXCEPT ![i] = n],
           Flow(got', sent'), got'.calls = got.calls,
           DOMAIN got'.flight = DOMAIN got.flight \cup {i},
           straight' => straight, straight' \in BOOLEAN,
           UNCHANGED <<dialect, said, current, end>>
    PROVE  StreamInv'
  <1>1. Anthropic /\ Flow(got, sent) /\ StreamTypes
    BY DEF StreamInv, Parsing
  <1>2. DOMAIN said \subseteq Index
    BY <1>1 DEF StreamTypes, Numbered, Index, ProviderStreamAssumption
  <1>3. \A j \in Index : sent'[j] = IF j = i THEN n ELSE sent[j]
    BY <1>1 DEF StreamTypes
  <1>4. \A j \in Index : sent'[j] = 4 <=> sent[j] = 4
    BY <1>2, <1>3
  <1>5. \A j \in DOMAIN said' : sent'[j] \in 1..3 => j \in DOMAIN got'.flight
    BY <1>1, <1>2, <1>3 DEF Anthropic
  <1>6. \A k \in 1..Len(got'.calls) :
          sent'[got'.calls[k].index] = 4 /\ got'.calls[k].arg = said'[got'.calls[k].index].arg
    <2> TAKE k \in 1..Len(got'.calls)
    <2>1. got.calls[k].index \in Index
      BY <1>1, <1>2, CallsType
    <2> QED
      BY <1>1, <1>4, <2>1 DEF Anthropic
  <1>7. ASSUME straight'
        PROVE  /\ Rising(got)'
               /\ \A m \in 0..MaxCalls :
                    (\A j \in Index : sent'[j] = 4 <=> j <= m) => Len(got'.calls) = m /\ Upto(got)'
    <2>1. Rising(got) /\ straight
      BY <1>1, <1>7 DEF Anthropic
    <2>2. Rising(got)' /\ (Upto(got) => Upto(got)')
      BY <2>1 DEF Rising, Upto
    <2>3. \A m \in 0..MaxCalls :
             (\A j \in Index : sent[j] = 4 <=> j <= m) => Len(got.calls) = m /\ Upto(got)
      BY <1>1, <2>1 DEF Anthropic
    <2> QED
      BY <1>4, <2>2, <2>3
  <1>8. Anthropic'
    BY <1>5, <1>6, <1>7 DEF Anthropic, Index
  <1>9. current' \in 0..MaxCalls /\ UNCHANGED <<dialect, said, end>>
    BY <1>1 DEF StreamTypes
  <1>10. \E m \in 1..4 : sent' = [sent EXCEPT ![i] = m]
    <2>1. n \in 1..4
      OBVIOUS
    <2> QED
      BY <2>1
  <1> QED
    BY <1>8, <1>9, <1>10, EventKeeps

LEMMA BlockStartKeeps ==
    ASSUME StreamInv, ProviderStreamAssumption, NEW i \in DOMAIN said,
           BlockStart(i), dialect' = dialect
    PROVE  StreamInv'
  <1>1. /\ dialect = "anthropic" /\ end = "open" /\ sent[i] = 0
        /\ sent' = [sent EXCEPT ![i] = 1] /\ got' = Started(got, i)
        /\ UNCHANGED <<said, current, end, straight>>
    BY DEF BlockStart, MayBegin, Sends
  <1>2. Flow(got, sent) /\ StreamTypes
    BY <1>1 DEF StreamInv, Parsing
  <1>3. DOMAIN said \subseteq Index
    BY <1>2 DEF StreamTypes, Numbered, Index, ProviderStreamAssumption
  <1>4. \A j \in DOMAIN said : sent'[j] = IF j = i THEN 1 ELSE sent[j]
    BY <1>1, <1>2, <1>3 DEF StreamTypes
  <1>5. /\ Flow(Started(got, i), sent') /\ Started(got, i).calls = got.calls
        /\ DOMAIN Started(got, i).flight = DOMAIN got.flight \cup {i}
    <2>1. sent[i] = 0
      BY <1>1
    <2> QED
      BY <1>2, <1>4, <2>1, StartedFlow
  <1>6. straight' \in BOOLEAN /\ (straight' => straight) /\ sent[i] # 4 /\ 1 \in 1..3
    BY <1>1, <1>2 DEF StreamTypes
  <1> QED
    BY <1>1, <1>5, <1>6, BlockKeeps

LEMMA BlockDeltaKeeps ==
    ASSUME StreamInv, ProviderStreamAssumption, NEW i \in DOMAIN said,
           BlockDelta(i), dialect' = dialect
    PROVE  StreamInv'
  <1> DEFINE g == WithPiece(got, i, <<i, sent[i]>>)
  <1>1. /\ dialect = "anthropic" /\ end = "open" /\ sent[i] \in {1, 2}
        /\ sent' = [sent EXCEPT ![i] = sent[i] + 1] /\ got' = g
        /\ straight' = (straight /\ InLine(i))
        /\ UNCHANGED <<said, current, end>>
    BY DEF BlockDelta, MayGoOn, Sends
  <1>2. Flow(got, sent) /\ StreamTypes /\ Anthropic
    BY <1>1 DEF StreamInv, Parsing
  <1>3. DOMAIN said \subseteq Index
    BY <1>2 DEF StreamTypes, Numbered, Index, ProviderStreamAssumption
  <1>4. \A j \in DOMAIN said : sent'[j] = IF j = i THEN sent[i] + 1 ELSE sent[j]
    BY <1>1, <1>2, <1>3 DEF StreamTypes
  <1>5. Flow(g, sent') /\ g.calls = got.calls /\ DOMAIN g.flight = DOMAIN got.flight
    <2>1. sent[i] \in {1, 2}
      BY <1>1
    <2> QED
      BY <1>2, <1>4, <2>1, PieceFlow
  <1>6. straight' \in BOOLEAN /\ (straight' => straight) /\ sent[i] # 4 /\ sent[i] + 1 \in 1..3
    BY <1>1, <1>2 DEF StreamTypes
  <1>7. i \in DOMAIN got.flight
    BY <1>1, <1>2 DEF Anthropic
  <1>8. DOMAIN g.flight = DOMAIN got.flight \cup {i}
    BY <1>5, <1>7
  <1> HIDE DEF g
  <1> QED
    BY <1>1, <1>5, <1>6, <1>8, BlockKeeps

LEMMA BlockStopKeeps ==
    ASSUME StreamInv, ProviderStreamAssumption, NEW i \in DOMAIN said,
           BlockStop(i), dialect' = dialect
    PROVE  StreamInv'
  <1> DEFINE g == Ended(got, i)
             c == Took(i, Piece(i, sent[i]))
  <1>1. /\ dialect = "anthropic" /\ end = "open" /\ sent[i] = 3
        /\ sent' = [sent EXCEPT ![i] = 4] /\ got' = g
        /\ straight' = (straight /\ InLine(i))
        /\ UNCHANGED <<said, current, end>>
    BY DEF BlockStop, Sends
  <1>2. Flow(got, sent) /\ StreamTypes /\ Anthropic /\ Numbered
        /\ \A j \in Index : sent[j] > 0 => j \in DOMAIN said
    BY <1>1 DEF StreamInv, Parsing, StreamTypes
  <1>3. DOMAIN said \subseteq Index /\ i \in Nat /\ i \in Index /\ i \in 0..MaxCalls
    BY <1>2 DEF StreamTypes, Numbered, Index, ProviderStreamAssumption
  <1>4. \A j \in Index : sent'[j] = IF j = i THEN 4 ELSE sent[j]
    BY <1>1, <1>2 DEF StreamTypes
  <1>5. i \in DOMAIN got.flight
    BY <1>1, <1>2 DEF Anthropic
  <1>6. /\ Flow(g, sent) /\ g.calls = Append(got.calls, c)
        /\ DOMAIN g.flight = DOMAIN got.flight \ {i}
    BY <1>2, <1>5, EndedFlow
  <1>7. Flow(g, sent')
    <2>1. i \in DOMAIN said \ DOMAIN g.flight /\ sent'[i] > 0
          /\ \A j \in DOMAIN said : j # i => sent'[j] = sent[j]
      BY <1>3, <1>4, <1>6
    <2> HIDE DEF g
    <2> QED
      BY <1>6, <2>1, SentFlow
  <1>8. c.index = i /\ c.arg = said[i].arg
    BY <1>1, <1>3, PieceParsed DEF Took
  <1> HIDE DEF g, c
  <1>9. /\ got.calls \in Seq(Collected) /\ Len(got.calls) \in Nat /\ Len(g.calls) = Len(got.calls) + 1
        /\ \A k \in 1..Len(got.calls) : g.calls[k] = got.calls[k]
        /\ g.calls[Len(got.calls) + 1] = c
    <2>1. got.calls \in Seq(Collected)
      BY <1>2 DEF Flow
    <2>2. g.calls \in Seq(Collected)
      BY <1>6 DEF Flow
    <2> QED
      BY <1>6, <2>1, <2>2
  <1>10. \A j \in DOMAIN said' : sent'[j] \in 1..3 => j \in DOMAIN got'.flight
    BY <1>1, <1>2, <1>3, <1>4, <1>6 DEF Anthropic
  <1>11. \A k \in 1..Len(got.calls) : got.calls[k].index \in Index /\ got.calls[k].index # i
    BY <1>1, <1>2, <1>3, CallsType DEF Anthropic
  <1>12. \A k \in 1..Len(got'.calls) :
          sent'[got'.calls[k].index] = 4 /\ got'.calls[k].arg = said'[got'.calls[k].index].arg
    <2> TAKE k \in 1..Len(got'.calls)
    <2>1. CASE k \in 1..Len(got.calls)
      BY <1>1, <1>2, <1>4, <1>9, <1>11, <2>1 DEF Anthropic
    <2>2. CASE k = Len(got.calls) + 1
      BY <1>1, <1>3, <1>4, <1>8, <1>9, <2>2
    <2> QED
      BY <1>1, <1>9, <2>1, <2>2
  <1>13. ASSUME straight'
         PROVE  /\ Rising(got)'
                /\ \A m \in 0..MaxCalls :
                     (\A j \in Index : sent'[j] = 4 <=> j <= m) => Len(got'.calls) = m /\ Upto(got)'
    <2>1. straight /\ \A j \in DOMAIN said : sent[j] > 0 => j <= i
      BY <1>1, <1>13 DEF InLine, Begun
    <2>2. Rising(got)
          /\ \A m \in 0..MaxCalls :
                (\A j \in Index : sent[j] = 4 <=> j <= m) => Len(got.calls) = m /\ Upto(got)
      BY <1>2, <2>1 DEF Anthropic
    <2>3. \A k \in 1..Len(got.calls) : got.calls[k].index <= i
      <3> TAKE k \in 1..Len(got.calls)
      <3>1. got.calls[k].index \in DOMAIN said /\ sent[got.calls[k].index] > 0
        BY <1>2, CallsType DEF Flow
      <3> QED
        BY <2>1, <3>1
    <2>4. Rising(g) /\ (Upto(got) /\ i = Len(got.calls) + 1 => Upto(g))
      BY <1>2, <1>5, <2>2, <2>3, EndedRising DEF g
    <2>5. Rising(got)' /\ (Upto(g) => Upto(got)')
      BY <1>1, <2>4 DEF Rising, Upto
    <2>6. ASSUME NEW m \in 0..MaxCalls, \A j \in Index : sent'[j] = 4 <=> j <= m
          PROVE  Len(got'.calls) = m /\ Upto(got)'
      <3>1. \A j \in Index : sent[j] = 4 => j <= i
        BY <1>2, <2>1
      <3>2. i <= m
        BY <1>3, <1>4, <2>6
      <3>3. m \in Index
        BY <1>3, <3>2 DEF Index
      <3>4. m = i
        <4>1. sent'[m] = 4
          BY <2>6, <3>3
        <4>2. CASE m # i
          BY <1>3, <1>4, <3>1, <3>2, <3>3, <4>1, <4>2
        <4> QED
          BY <4>2
      <3>5. \A j \in Index : sent[j] = 4 <=> j <= i - 1
        <4> SUFFICES ASSUME NEW j \in Index PROVE sent[j] = 4 <=> j <= i - 1
          OBVIOUS
        <4>1. j \in Nat
          BY DEF Index
        <4>2. CASE j = i
          BY <1>1, <1>3, <4>2
        <4>3. CASE j # i
          <5>1. sent[j] = 4 <=> j <= i
            BY <1>4, <2>6, <3>4, <4>3
          <5> QED
            BY <1>3, <4>1, <4>3, <5>1
        <4> QED
          BY <4>2, <4>3
      <3>6. i - 1 \in 0..MaxCalls
        BY <1>3 DEF Index
      <3>7. Len(got.calls) = i - 1 /\ Upto(got)
        BY <2>2, <3>5, <3>6
      <3> QED
        BY <1>1, <1>3, <1>9, <2>4, <2>5, <3>4, <3>7
    <2> QED
      BY <2>5, <2>6
  <1>14. Anthropic'
    BY <1>10, <1>12, <1>13 DEF Anthropic, Index
  <1>15. /\ current' \in 0..MaxCalls /\ UNCHANGED <<dialect, said, end>>
         /\ straight' \in BOOLEAN
    BY <1>1, <1>2 DEF StreamTypes
  <1>16. \E m \in 1..4 : sent' = [sent EXCEPT ![i] = m]
    BY <1>1
  <1>17. Flow(got', sent') /\ dialect = "anthropic" /\ end = "open"
    BY <1>1, <1>7
  <1> QED
    BY <1>14, <1>15, <1>16, <1>17, EventKeeps

LEMMA FunctionCallKeeps ==
    ASSUME StreamInv, ProviderStreamAssumption, NEW i \in DOMAIN said,
           FunctionCall(i), dialect' = dialect
    PROVE  StreamInv'
  <1> DEFINE s1 == [sent EXCEPT ![i] = 1]
             s2 == [sent EXCEPT ![i] = 2]
             s3 == [sent EXCEPT ![i] = 3]
             g1 == Started(got, i)
             g2 == WithPiece(g1, i, <<i, 1>>)
             g3 == WithPiece(g2, i, <<i, 2>>)
             g4 == Ended(g3, i)
  <1>1. /\ dialect = "gemini" /\ end = "open" /\ sent[i] = 0
        /\ \A j \in 1..(i - 1) : sent[j] > 0
        /\ sent' = s3 /\ got' = g4
        /\ UNCHANGED <<said, current, end, straight>>
    BY DEF FunctionCall, MayBegin, Sends
  <1>2. Flow(got, sent) /\ StreamTypes /\ Gemini /\ Numbered
    BY <1>1 DEF StreamInv, Parsing, StreamTypes
  <1>3. DOMAIN said \subseteq Index /\ i \in Nat /\ i \in Index
        /\ \A j \in 1..(i - 1) : j \in Index
    BY <1>2 DEF StreamTypes, Numbered, Index, ProviderStreamAssumption
  <1>4. /\ s1[i] = 1 /\ \A j \in Index : j # i => s1[j] = sent[j]
        /\ s2[i] = 2 /\ \A j \in Index : j # i => s2[j] = sent[j]
        /\ s3[i] = 3 /\ \A j \in Index : j # i => s3[j] = sent[j]
    <2>1. s1[i] = 1 /\ \A j \in Index : j # i => s1[j] = sent[j]
      BY <1>2, <1>3 DEF StreamTypes
    <2>2. s2[i] = 2 /\ \A j \in Index : j # i => s2[j] = sent[j]
      BY <1>2, <1>3 DEF StreamTypes
    <2>3. s3[i] = 3 /\ \A j \in Index : j # i => s3[j] = sent[j]
      BY <1>2, <1>3 DEF StreamTypes
    <2> QED
      BY <2>1, <2>2, <2>3
  <1> HIDE DEF s1, s2, s3
  <1>5. Flow(g1, s1) /\ g1.calls = got.calls /\ DOMAIN g1.flight = {i}
    <2>1. sent[i] = 0 /\ \A j \in DOMAIN said : s1[j] = IF j = i THEN 1 ELSE sent[j]
      BY <1>1, <1>3, <1>4
    <2>2. /\ Flow(g1, s1) /\ g1.calls = got.calls
          /\ DOMAIN g1.flight = DOMAIN got.flight \cup {i}
      BY <1>2, <2>1, StartedFlow
    <2> QED
      BY <1>2, <2>2 DEF Gemini
  <1> HIDE DEF g1
  <1>6. Flow(g2, s2) /\ g2.calls = got.calls /\ DOMAIN g2.flight = {i}
    <2>1. s1[i] \in {1, 2} /\ s1[i] = 1 /\ \A j \in DOMAIN said : s2[j] = IF j = i THEN s1[i] + 1 ELSE s1[j]
      BY <1>3, <1>4
    <2>2. /\ Flow(WithPiece(g1, i, <<i, s1[i]>>), s2)
          /\ WithPiece(g1, i, <<i, s1[i]>>).calls = g1.calls
          /\ DOMAIN WithPiece(g1, i, <<i, s1[i]>>).flight = DOMAIN g1.flight
      BY <1>5, <2>1, PieceFlow
    <2> QED
      BY <1>5, <2>1, <2>2
  <1> HIDE DEF g2
  <1>7. Flow(g3, s3) /\ g3.calls = got.calls /\ DOMAIN g3.flight = {i}
    <2>1. s2[i] \in {1, 2} /\ s2[i] = 2 /\ \A j \in DOMAIN said : s3[j] = IF j = i THEN s2[i] + 1 ELSE s2[j]
      BY <1>3, <1>4
    <2>2. /\ Flow(WithPiece(g2, i, <<i, s2[i]>>), s3)
          /\ WithPiece(g2, i, <<i, s2[i]>>).calls = g2.calls
          /\ DOMAIN WithPiece(g2, i, <<i, s2[i]>>).flight = DOMAIN g2.flight
      BY <1>6, <2>1, PieceFlow
    <2> QED
      BY <1>6, <2>1, <2>2
  <1> HIDE DEF g3
  <1>8. i = Len(got.calls) + 1 /\ Len(got.calls) \in Nat
    <2>1. Len(got.calls) \in Nat
      BY <1>2 DEF Flow
    <2>2. ~(i <= Len(got.calls))
      BY <1>1, <1>2, <1>3 DEF Gemini
    <2>3. \A j \in 1..(i - 1) : sent[j] = 3 /\ j <= Len(got.calls)
      BY <1>1, <1>2, <1>3 DEF Gemini
    <2> QED
      BY <1>3, <2>1, <2>2, <2>3
  <1>9. /\ Flow(g4, s3) /\ DOMAIN g4.flight = {} /\ Upto(g4)
        /\ Len(g4.calls) = Len(got.calls) + 1
        /\ \A k \in 1..Len(got.calls) : g4.calls[k] = got.calls[k]
        /\ g4.calls[Len(got.calls) + 1] = Took(i, Piece(i, s3[i]))
    <2>1. i \in DOMAIN g3.flight /\ Upto(g3)
      BY <1>2, <1>7, SameCalls DEF Gemini
    <2>2. \A k \in 1..Len(g3.calls) : g3.calls[k].index <= i
      BY <1>7, <1>8, <2>1 DEF Upto
    <2>3. Flow(g4, s3) /\ DOMAIN g4.flight = DOMAIN g3.flight \ {i}
      BY <1>2, <1>7, <2>1, EndedFlow
    <2>4. i = Len(g3.calls) + 1
      BY <1>7, <1>8
    <2>5. /\ Upto(g4) /\ Len(g4.calls) = Len(g3.calls) + 1
          /\ \A k \in 1..Len(g3.calls) : g4.calls[k] = g3.calls[k]
          /\ g4.calls[Len(g3.calls) + 1] = Took(i, Piece(i, s3[i]))
      BY <1>2, <1>7, <2>1, <2>2, <2>4, EndedRising
    <2> QED
      BY <1>7, <2>3, <2>5
  <1> HIDE DEF g4
  <1>10. Took(i, Piece(i, s3[i])).arg = said[i].arg
    BY <1>3, <1>4, PieceParsed DEF Took
  <1>11. \A k \in 1..Len(g4.calls) : g4.calls[k].arg = said[k].arg
    <2> TAKE k \in 1..Len(g4.calls)
    <2>1. CASE k \in 1..Len(got.calls)
      BY <1>2, <1>9, <2>1 DEF Gemini
    <2>2. CASE k = Len(got.calls) + 1
      BY <1>8, <1>9, <1>10, <2>2
    <2> QED
      BY <1>8, <1>9, <2>1, <2>2
  <1>12. \A j \in Index : s3[j] \in {0, 3} /\ (s3[j] = 3 <=> j <= Len(g4.calls))
    <2> SUFFICES ASSUME NEW j \in Index
                 PROVE  s3[j] \in {0, 3} /\ (s3[j] = 3 <=> j <= i)
      BY <1>8, <1>9
    <2>1. j \in Nat /\ sent[j] \in {0, 3} /\ (sent[j] = 3 <=> j <= Len(got.calls))
      BY <1>2 DEF Gemini, Index
    <2>2. CASE j = i
      BY <1>3, <1>4, <2>2
    <2>3. CASE j # i
      BY <1>3, <1>4, <1>8, <2>1, <2>3
    <2> QED
      BY <2>2, <2>3
  <1>13. Gemini'
    BY <1>1, <1>9, <1>11, <1>12 DEF Gemini, Upto, Index
  <1>14. /\ current' \in 0..MaxCalls /\ UNCHANGED <<dialect, said, end>>
         /\ straight' \in BOOLEAN
    BY <1>1, <1>2 DEF StreamTypes
  <1>15. \E m \in 1..4 : sent' = [sent EXCEPT ![i] = m]
    BY <1>1 DEF s3
  <1>16. Flow(got', sent') /\ dialect = "gemini" /\ end = "open"
    BY <1>1, <1>9
  <1> QED
    BY <1>13, <1>14, <1>15, <1>16, EventKeeps

\* What close_tool_calls makes of no call and of one.
LEMMA CloseNone == ASSUME NEW g PROVE FoldLeft(Ended, g, <<>>) = g
  <1> DEFINE R(f) == f = [s \in SUBSET (DOMAIN <<>>) |->
                            IF s = {} THEN g
                            ELSE LET x == Max(s) IN Ended(f[s \ {x}], <<>>[x])]
             f0 == [s \in SUBSET (DOMAIN <<>>) |-> g]
  <1>1. R(f0)
    <2>1. DOMAIN <<>> = {}
      OBVIOUS
    <2>2. \A s \in SUBSET (DOMAIN <<>>) : s = {}
      BY <2>1
    <2> QED
      BY <2>2
  <1>2. R(CHOOSE f : R(f))
    BY <1>1
  <1>3. FoldLeft(Ended, g, <<>>) = (CHOOSE f : R(f))[DOMAIN <<>>]
    BY DEF FoldLeft, MapThenFoldSet
  <1>4. DOMAIN <<>> = {} /\ DOMAIN <<>> \in SUBSET (DOMAIN <<>>)
    OBVIOUS
  <1> HIDE DEF f0
  <1>5. \A f : R(f) => f[DOMAIN <<>>] = g
    BY <1>4
  <1> HIDE DEF R
  <1> QED
    BY <1>2, <1>3, <1>5

LEMMA CloseOne == ASSUME NEW g, NEW c PROVE FoldLeft(Ended, g, <<c>>) = Ended(g, c)
  <1> DEFINE D == DOMAIN <<c>>
             R(f) == f = [s \in SUBSET D |->
                            IF s = {} THEN g
                            ELSE LET x == Max(s) IN Ended(f[s \ {x}], <<c>>[x])]
             f0 == [s \in SUBSET D |-> IF s = {} THEN g ELSE Ended(g, c)]
  <1>1. D = {1} /\ <<c>>[1] = c
    OBVIOUS
  <1>2. Max({1}) = 1
    BY DEF Max
  <1>3. FoldLeft(Ended, g, <<c>>) = (CHOOSE f : R(f))[D]
    BY DEF FoldLeft, MapThenFoldSet
  <1> HIDE DEF D
  <1>4. \A s \in SUBSET D : s = {} \/ s = {1}
    BY <1>1
  <1>5. {} \in SUBSET D /\ D \in SUBSET D /\ D # {} /\ {1} \ {1} = {}
    BY <1>1
  <1>6. R(f0)
    <2>1. \A s \in SUBSET D :
             f0[s] = IF s = {} THEN g
                     ELSE LET x == Max(s) IN Ended(f0[s \ {x}], <<c>>[x])
      <3> TAKE s \in SUBSET D
      <3>1. CASE s = {}
        BY <3>1
      <3>2. CASE s = {1}
        <4>1. f0[{}] = g
          BY <1>5
        <4>2. f0[{1}] = Ended(g, c)
          BY <1>1, <1>5
        <4>3. s # {} /\ Max(s) = 1 /\ s \ {Max(s)} = {}
          BY <1>2, <3>2
        <4> HIDE DEF f0
        <4> QED
          BY <1>1, <3>2, <4>1, <4>2, <4>3, Zenon
      <3> QED
        BY <1>4, <3>1, <3>2
    <2> QED
      BY <2>1
  <1>7. R(CHOOSE f : R(f))
    BY <1>6
  <1>8. ASSUME NEW f, R(f) PROVE f[D] = Ended(g, c)
    <2>1. f[{}] = g
      BY <1>5, <1>8
    <2>2. f[D] = Ended(f[D \ {Max(D)}], <<c>>[Max(D)])
      BY <1>5, <1>8
    <2>3. Max(D) = 1 /\ D \ {Max(D)} = {}
      BY <1>1, <1>2
    <2> HIDE DEF R
    <2> QED
      BY <1>1, <2>1, <2>2, <2>3
  <1> HIDE DEF R
  <1> QED
    BY <1>3, <1>7, <1>8

LEMMA DoneKeeps ==
    ASSUME StreamInv, ProviderStreamAssumption, Done, dialect' = dialect
    PROVE  StreamInv'
  <1>1. /\ end = "open" /\ got' = Closed /\ end' = "done"
        /\ UNCHANGED <<dialect, said, sent, current, open, straight>>
    BY DEF Done
  <1>2. /\ Flow(got, sent) /\ StreamTypes /\ Numbered /\ Gathered /\ Collected' = Collected
        /\ \A i \in Index : sent[i] > 0 => i \in DOMAIN said
    BY <1>1 DEF StreamInv, Parsing, StreamTypes, Collected
  <1>3. DOMAIN said \subseteq Index /\ MaxCalls \in Nat
    BY <1>2 DEF Numbered, Index, ProviderStreamAssumption
  <1>4. PICK n \in 0..MaxCalls : DOMAIN said = 1..n
    BY <1>2 DEF Numbered
  <1>5. StreamTypes' /\ Parsing'
    BY <1>1, <1>2, Zenon DEF StreamTypes, Numbered, Parsing, Index
  <1>6. (AllSent' <=> AllSent)
    BY <1>1 DEF AllSent
  <1>7. CASE dialect = "openai"
    <2>1. OpenAI
      BY <1>1, <1>7 DEF StreamInv, Parsing
    <2>2. CASE open = <<>> /\ DOMAIN got.flight = {}
      <3>1. got' = got
        BY <1>1, <1>7, <2>2, CloseNone DEF Closed
      <3>2. Gathered'
        BY <1>1, <1>2, <1>7, <2>1, <3>1 DEF Gathered, Rising, OpenAI
      <3>3. ASSUME AllSent, straight
            PROVE  DOMAIN got.calls = DOMAIN said /\ \A k \in DOMAIN said : got.calls[k].arg = said[k].arg
        <4>1. current = 0 /\ Len(open) = 0 /\ current = Len(got.calls) + Len(open)
          BY <2>1, <2>2, <3>3 DEF OpenAI
        <4>2. \A i \in Index : ~(sent[i] > 0)
          BY <2>1, <4>1 DEF OpenAI, Index
        <4>3. DOMAIN said = {}
          <5> SUFFICES ASSUME NEW i \in DOMAIN said PROVE FALSE
            OBVIOUS
          <5>1. sent[i] = 3
            BY <1>7, <3>3 DEF AllSent
          <5> QED
            BY <1>3, <4>2, <5>1
        <4>4. Len(got.calls) = 0 /\ DOMAIN got.calls = {}
          BY <1>2, <4>1 DEF Flow
        <4> QED
          BY <4>3, <4>4
      <3>4. Whole'
        BY <1>1, <1>6, <3>1, <3>3 DEF Whole
      <3> QED
        BY <1>5, <3>2, <3>4 DEF StreamInv
    <2>3. CASE current # 0 /\ open = <<current>> /\ DOMAIN got.flight = {current}
      <3> DEFINE g == Ended(got, current)
                 c == Took(current, Piece(current, sent[current]))
      <3>1. got' = g
        BY <1>1, <1>7, <2>3, CloseOne DEF Closed
      <3>2. /\ current \in DOMAIN got.flight /\ \A k \in 1..Len(got.calls) : got.calls[k].index <= current
            /\ current \in DOMAIN said /\ current \in Index
        BY <1>3, <2>1, <2>3 DEF OpenAI
      <3>3. Flow(g, sent)
        BY <1>2, <3>2, EndedFlow
      <3>4. /\ Rising(g)
            /\ Len(g.calls) = Len(got.calls) + 1
            /\ \A k \in 1..Len(got.calls) : g.calls[k] = got.calls[k]
            /\ g.calls[Len(got.calls) + 1] = c
        BY <1>2, <2>1, <3>2, EndedRising DEF OpenAI
      <3>5. sent[current] = 3 => c.arg = said[current].arg
        <4>1. sent[current] = 3 => Took(current, Piece(current, 3)).arg = said[current].arg
          BY <3>2, PieceParsed DEF Took
        <4> QED
          BY <4>1
      <3> HIDE DEF g, c
      <3>6. Gathered'
        BY <1>1, <1>2, <3>1, <3>3, <3>4 DEF Gathered, Flow, Rising
      <3>7. ASSUME AllSent, straight
            PROVE  DOMAIN g.calls = DOMAIN said /\ \A k \in DOMAIN said : g.calls[k].arg = said[k].arg
        <4>1. /\ current = Len(got.calls) + 1 /\ Len(got.calls) \in Nat
              /\ \A k \in 1..Len(got.calls) : sent[k] = 3 => got.calls[k].arg = said[k].arg
          <5>1. Len(open) = 1
            BY <2>3
          <5> QED
            BY <1>2, <2>1, <3>7, <5>1 DEF OpenAI, Flow
        <4>2. \A i \in DOMAIN said : sent[i] = 3 /\ i <= current
          BY <1>3, <1>7, <2>1, <3>7 DEF AllSent, OpenAI
        <4>3. current = n
          BY <1>4, <3>2, <4>2
        <4>4. DOMAIN g.calls = 1..current
          BY <3>3, <3>4, <4>1 DEF Flow
        <4>5. \A k \in 1..current : g.calls[k].arg = said[k].arg
          <5> TAKE k \in 1..current
          <5>1. sent[k] = 3
            BY <1>4, <4>2, <4>3
          <5>2. CASE k \in 1..Len(got.calls)
            BY <3>4, <4>1, <5>1, <5>2
          <5>3. CASE k = Len(got.calls) + 1
            BY <3>4, <3>5, <4>1, <5>1, <5>3
          <5> QED
            BY <4>1, <5>2, <5>3
        <4> QED
          BY <1>4, <4>3, <4>4, <4>5
      <3>8. Whole'
        BY <1>1, <1>6, <3>1, <3>7 DEF Whole
      <3> QED
        BY <1>5, <3>6, <3>8 DEF StreamInv
    <2> QED
      BY <2>1, <2>2, <2>3 DEF OpenAI
  <1>8. CASE dialect # "openai"
    <2>1. got' = got
      BY <1>1, <1>8 DEF Closed
    <2>2. Gathered'
      BY <1>1, <1>2, <1>8, <2>1 DEF Gathered, Rising
    <2>3. ASSUME AllSent, straight
          PROVE  DOMAIN got.calls = DOMAIN said /\ \A k \in DOMAIN said : got.calls[k].arg = said[k].arg
      <3>1. got.calls \in Seq(Collected) /\ Len(got.calls) \in Nat /\ DOMAIN got.calls = 1..Len(got.calls)
        BY <1>2 DEF Gathered
      <3>2. CASE dialect = "anthropic"
        <4>1. Anthropic
          BY <1>1, <3>2 DEF StreamInv, Parsing
        <4>2. \A j \in Index : sent[j] = 4 <=> j <= n
          <5> TAKE j \in Index
          <5>1. j \in DOMAIN said => sent[j] = 4
            BY <2>3, <3>2 DEF AllSent
          <5>2. sent[j] = 4 => j \in DOMAIN said
            BY <1>2
          <5> QED
            BY <1>4, <5>1, <5>2 DEF Index
        <4>3. Len(got.calls) = n /\ Upto(got)
          BY <2>3, <4>1, <4>2 DEF Anthropic
        <4> QED
          BY <1>4, <3>1, <4>1, <4>3 DEF Anthropic, Upto
      <3>3. CASE dialect = "gemini"
        <4>1. Gemini
          BY <1>1, <3>3 DEF StreamInv, Parsing
        <4>2. \A k \in DOMAIN said : k <= Len(got.calls)
          BY <1>3, <2>3, <3>3, <4>1 DEF AllSent, Gemini
        <4>3. \A k \in 1..Len(got.calls) : k \in DOMAIN said
          <5> TAKE k \in 1..Len(got.calls)
          <5>1. got.calls[k].index \in DOMAIN said
            BY <1>2, CallsType
          <5> QED
            BY <4>1, <5>1 DEF Gemini, Upto
        <4>4. DOMAIN said = 1..Len(got.calls)
          <5>1. n <= Len(got.calls)
            <6>1. n = 0 \/ n \in 1..n
              OBVIOUS
            <6> QED
              BY <1>4, <3>1, <4>2, <6>1
          <5>2. Len(got.calls) <= n
            <6>1. Len(got.calls) = 0 \/ Len(got.calls) \in 1..Len(got.calls)
              BY <3>1
            <6> QED
              BY <1>4, <3>1, <4>3, <6>1
          <5>3. n = Len(got.calls)
            BY <3>1, <5>1, <5>2
          <5> QED
            BY <1>4, <5>3
        <4> QED
          BY <3>1, <4>1, <4>4 DEF Gemini
      <3> QED
        BY <1>2, <1>8, <3>2, <3>3 DEF StreamTypes, ProviderStreamAssumption
    <2>4. Whole'
      BY <1>1, <1>6, <2>1, <2>3 DEF Whole
    <2> QED
      BY <1>5, <2>2, <2>4 DEF StreamInv
  <1> QED
    BY <1>7, <1>8

LEMMA FailKeeps ==
    ASSUME StreamInv, Fail, dialect' = dialect
    PROVE  StreamInv'
  <1>1. end = "open" /\ end' = "failed"
        /\ UNCHANGED <<dialect, said, sent, current, open, got, straight>>
    BY DEF Fail
  <1>2. StreamTypes' /\ Parsing' /\ Whole'
    BY <1>1, Zenon DEF StreamInv, StreamTypes, Numbered, Parsing, Whole, Index
  <1>3. Gathered'
    BY <1>1 DEF StreamInv, Gathered, Collected, Rising
  <1> QED
    BY <1>2, <1>3 DEF StreamInv

\* Every event of the three dialects, the end and the break of a stream.
LEMMA ArrivesKeeps ==
    ASSUME StreamInv, ProviderStreamAssumption, Arrives, dialect' = dialect
    PROVE  StreamInv'
  BY ToolCallStartKeeps, ToolCallArgsKeeps, BlockStartKeeps, BlockDeltaKeeps,
     BlockStopKeeps, FunctionCallKeeps, DoneKeeps, FailKeeps DEF Arrives

-----------------------------------------------------------------------------
(* The turns, as far as the reply goes *)

Phase ==
    /\ pc \in {"head", "stream", "batch", "returned"}
    /\ pc = "batch" => end = "closed"

\* A reply that has not begun, or is taken up.
LEMMA FreshStream ==
    ASSUME ProviderStreamAssumption, StreamTypes, dialect' = dialect,
           Numbered', got' = Nothing,
           sent' = [i \in Index |-> 0], current' = 0, open' = <<>>,
           straight' = TRUE, end' \in {"open", "closed"}
    PROVE  StreamInv'
  <1>1. got'.calls = <<>> /\ DOMAIN got'.flight = {} /\ Len(got'.calls) = 0
        /\ got' = [flight |-> got'.flight, calls |-> got'.calls]
    BY DEF Nothing
  <1>2. Index' = Index /\ \A i \in Index : sent'[i] = 0
    BY DEF Index
  <1>3. StreamTypes'
    BY <1>2 DEF StreamTypes, ProviderStreamAssumption
  <1>4. 1..Len(got'.calls) = {}
    BY <1>1
  <1>5. Rising(got)' /\ Upto(got)' /\ got'.calls \in Seq(Collected')
    BY <1>1, <1>4 DEF Rising, Upto
  <1>6. Gathered'
    BY <1>1, <1>4, <1>5 DEF Gathered
  <1>7. Flow(got, sent)'
    BY <1>1, <1>4, <1>5 DEF Flow
  <1>8. ASSUME dialect' = "openai" PROVE OpenAI'
    BY <1>1, <1>2, <1>4, <1>5 DEF OpenAI, Index
  <1>9. ASSUME dialect' = "anthropic" PROVE Anthropic'
    <2>1. ASSUME NEW n \in 0..MaxCalls, \A i \in Index : sent'[i] = 4 <=> i <= n
          PROVE  n = 0
      <3>1. \A i \in Index : ~(i <= n)
        BY <1>2, <2>1
      <3>2. CASE n # 0
        BY <3>1, <3>2 DEF Index, ProviderStreamAssumption
      <3> QED
        BY <3>2
    <2>2. \A i \in DOMAIN said' : sent'[i] \in 1..3 => i \in DOMAIN got'.flight
      BY <1>2 DEF Numbered, Index, ProviderStreamAssumption
    <2> QED
      BY <1>1, <1>2, <1>4, <1>5, <2>1, <2>2 DEF Anthropic
  <1>10. ASSUME dialect' = "gemini" PROVE Gemini'
    BY <1>1, <1>2, <1>4, <1>5 DEF Gemini, Index
  <1>11. Parsing'
    BY <1>2, <1>7, <1>8, <1>9, <1>10 DEF Parsing
  <1>12. Whole'
    BY DEF Whole
  <1> QED
    BY <1>3, <1>6, <1>11, <1>12 DEF StreamInv

LEMMA NoReply == ASSUME NEW f, f = <<>>, ProviderStreamAssumption
                 PROVE  \E n \in 0..MaxCalls : DOMAIN f = 1..n
  <1>1. DOMAIN f = 1..0 /\ 0 \in 0..MaxCalls
    BY DEF ProviderStreamAssumption
  <1> QED
    BY <1>1

LEMMA ReplyStreamStep ==
    ASSUME StreamInv, Phase, ProviderStreamAssumption,
           \/ \E reply \in Reply : AsksProvider(reply)
           \/ Receives \/ ReplyFails \/ ReplyIsText \/ ReplyHasCalls \/ BatchDone
    PROVE  StreamInv' /\ Phase'
  <1>1. ASSUME NEW reply \in Reply, AsksProvider(reply) PROVE StreamInv' /\ Phase'
    <2>1. /\ pc' = "stream" /\ said' = reply /\ got' = Nothing /\ dialect' = dialect
          /\ sent' = [i \in Index |-> 0] /\ current' = 0 /\ open' = <<>>
          /\ straight' = TRUE /\ end' = "open"
      BY <1>1 DEF AsksProvider, Open
    <2>2. Numbered'
      BY <2>1 DEF Numbered, Reply
    <2> QED
      BY <2>1, <2>2, FreshStream DEF StreamInv, Phase
  <1>2. CASE Receives
    <2>1. Arrives /\ dialect' = dialect /\ pc' = "stream"
      BY <1>2 DEF Receives
    <2> QED
      BY <2>1, ArrivesKeeps DEF Phase
  <1>3. CASE ReplyFails \/ ReplyIsText
    <2>1. /\ Forget /\ said' = <<>> /\ got' = Nothing /\ dialect' = dialect
          /\ pc' \in {"head", "returned"}
      BY <1>3, Zenon DEF ReplyFails, ReplyIsText, RestOfReply
    <2>2. Numbered'
      BY <2>1, NoReply DEF Numbered
    <2> QED
      BY <2>1, <2>2, FreshStream DEF StreamInv, Phase, Forget
  <1>4. CASE ReplyHasCalls
    <2>1. /\ end = "done" /\ end' = "closed" /\ sent' = [i \in Index |-> 0] /\ current' = 0
          /\ straight' = TRUE /\ got' = [got EXCEPT !.flight = <<>>] /\ pc' = "batch"
          /\ UNCHANGED <<said, dialect>>
      BY <1>4 DEF ReplyHasCalls, Forget, RestOfReply
    <2>2. PICK f, c : got = [flight |-> f, calls |-> c] /\ TRUE
      <3>1. got = [flight |-> got.flight, calls |-> got.calls]
        BY DEF StreamInv, Gathered
      <3> QED
        BY <3>1
    <2>3. got'.calls = got.calls
      BY <2>1, <2>2
    <2>4. Collected' = Collected
      BY <2>1 DEF Collected
    <2>5. Gathered'
      BY <2>1, <2>3, <2>4 DEF StreamInv, Gathered, Rising
    <2>6. StreamTypes'
      BY <2>1 DEF StreamInv, StreamTypes, Numbered, Index, ProviderStreamAssumption
    <2> QED
      BY <2>1, <2>5, <2>6 DEF StreamInv, Phase, Parsing, Whole
  <1>5. CASE BatchDone
    <2>1. /\ pc = "batch" /\ pc' = "head" /\ said' = <<>> /\ got' = Nothing
          /\ UNCHANGED <<dialect, sent, current, open, end, straight>>
      BY <1>5 DEF BatchDone
    <2>2. end' = "closed" /\ Numbered'
      BY <2>1, NoReply DEF Numbered, Phase
    <2>3. StreamTypes'
      BY <2>1, <2>2 DEF StreamInv, StreamTypes, Index
    <2>4. Gathered'
      <3>1. got'.calls = <<>> /\ 1..Len(got'.calls) = {} /\ got'.calls \in Seq(Collected')
            /\ got' = [flight |-> got'.flight, calls |-> got'.calls]
        BY <2>1 DEF Nothing
      <3> QED
        BY <3>1 DEF Gathered, Rising
    <2> QED
      BY <2>1, <2>2, <2>3, <2>4 DEF StreamInv, Phase, Parsing, Whole
  <1> QED
    BY <1>1, <1>2, <1>3, <1>4, <1>5

\* What the rest of Next leaves alone.
LEMMA Elsewhere ==
    ASSUME Next \/ UNCHANGED vars
    PROVE  \/ \/ \E reply \in Reply : AsksProvider(reply)
              \/ Receives \/ ReplyFails \/ ReplyIsText \/ ReplyHasCalls \/ BatchDone
           \/ \E k \in Index : RunCall(k)
           \/ /\ UNCHANGED <<dialect, streamVars, turn, slots, effects, before>>
              /\ pc' = pc \/ (pc = "head" /\ pc' = "returned")
  <1>1. ASSUME NEW letter, Send(letter) \/ ReadsMail \/ ReadsNote \/ GivesUpWaiting
        PROVE  /\ UNCHANGED <<dialect, streamVars, turn, slots, effects, before>>
               /\ pc' = pc \/ (pc = "head" /\ pc' = "returned")
    BY <1>1, Zenon DEF Send, ReadsMail, ReadsNote, GivesUpWaiting, AtHead
  <1> QED
    BY <1>1, Zenon DEF Next, vars

LEMMA StreamStep ==
    ASSUME StreamInv, Phase, ProviderStreamAssumption, Next \/ UNCHANGED vars
    PROVE  StreamInv' /\ Phase'
  <1>1. CASE UNCHANGED <<dialect, streamVars>> /\ (pc' = pc \/ (pc = "head" /\ pc' = "returned"))
    <2>1. UNCHANGED <<dialect, said, sent, current, open, got, end, straight>>
      BY <1>1 DEF streamVars
    <2>2. /\ Collected' = Collected /\ Index' = Index /\ (AllSent' <=> AllSent)
          /\ (Numbered' <=> Numbered) /\ (Flow(got, sent)' <=> Flow(got, sent))
          /\ (Rising(got)' <=> Rising(got)) /\ (Upto(got)' <=> Upto(got))
      <3>1. Collected' = Collected
        BY <2>1 DEF Collected
      <3>2. (Flow(got, sent)' <=> Flow(got, sent))
        BY <2>1, <3>1 DEF Flow, Piece
      <3>3. (AllSent' <=> AllSent) /\ (Numbered' <=> Numbered) /\ Index' = Index
        BY <2>1 DEF AllSent, Numbered, Index
      <3>4. (Rising(got)' <=> Rising(got)) /\ (Upto(got)' <=> Upto(got))
        BY <2>1 DEF Rising, Upto
      <3> QED
        BY <3>1, <3>2, <3>3, <3>4
    <2>3. (OpenAI' <=> OpenAI) /\ (Anthropic' <=> Anthropic) /\ (Gemini' <=> Gemini)
      BY <2>1, <2>2, Zenon DEF OpenAI, Anthropic, Gemini
    <2>4. StreamTypes' /\ Gathered' /\ Whole' /\ Parsing'
      BY <2>1, <2>2, <2>3, Zenon DEF StreamInv, StreamTypes, Gathered, Whole, Parsing
    <2> QED
      BY <1>1, <2>1, <2>4 DEF StreamInv, Phase
  <1>2. ASSUME NEW k, RunCall(k) PROVE StreamInv' /\ Phase'
    BY <1>1, <1>2, Zenon DEF RunCall
  <1> QED
    BY <1>1, <1>2, Elsewhere, ReplyStreamStep

LEMMA StreamStart ==
    ASSUME ProviderStreamAssumption, Init
    PROVE  StreamInv /\ Phase
  <1>1. /\ dialect \in Dialects /\ said = <<>> /\ sent = [i \in Index |-> 0] /\ current = 0
        /\ got = Nothing /\ end = "closed" /\ straight = TRUE /\ pc = "head"
    BY DEF Init
  <1>2. Numbered
    BY <1>1, NoReply DEF Numbered
  <1>3. StreamTypes
    BY <1>1, <1>2 DEF StreamTypes, ProviderStreamAssumption
  <1>4. got.calls = <<>> /\ 1..Len(got.calls) = {} /\ got.calls \in Seq(Collected)
        /\ got = [flight |-> got.flight, calls |-> got.calls]
    BY <1>1 DEF Nothing
  <1>5. Gathered
    BY <1>4 DEF Gathered, Rising
  <1> QED
    BY <1>1, <1>3, <1>5 DEF StreamInv, Phase, Parsing, Whole

\* What the loop runs are the calls the model made, in their order and with
\* their own arguments or none; a reply that was sent whole and in line is
\* collected whole.  For every reply and every order of the server's events
\* (parse_*_stream, collect_response).
THEOREM CallsAreCollected == Spec => []ReplyCollected
  <1>1. Init => StreamInv /\ Phase
    BY StreamStart, ProviderStreamAssumption
  <1>2. StreamInv /\ Phase /\ [Next]_vars => (StreamInv /\ Phase)'
    BY StreamStep, ProviderStreamAssumption
  <1>3. StreamInv => ReplyCollected
    BY GatheredIs DEF StreamInv
  <1> QED
    BY <1>1, <1>2, <1>3, PTL DEF Spec

-----------------------------------------------------------------------------
(* The conversation *)

CallId == Nat \X Nat
Message == {User} \cup {Assistant(ids) : ids \in Seq(CallId)}
             \cup {ToolResult(id, ok) : id \in CallId, ok \in BOOLEAN}

\* The results that must follow a message.
Owes(m) == IF m.role = "assistant" THEN m.ids ELSE <<>>

\* Up to n every call is answered and every answer was owed.
Paired(h, n) ==
    /\ \A k \in 1..n : \A j \in 1..Len(Owes(h[k])) :
         k + j <= n /\ h[k + j].role = "tool" /\ h[k + j].id = Owes(h[k])[j]
    /\ \A k \in 1..n : h[k].role = "tool" => \E a \in 1..(k - 1) : k - a <= Len(Owes(h[a]))

LEMMA Messages ==
    ASSUME NEW m \in Message
    PROVE  /\ Owes(m) \in Seq(CallId)
           /\ m.role \in {"user", "assistant", "tool"}
           /\ m.role = "assistant" => m.ids = Owes(m)
           /\ m.role # "assistant" => Owes(m) = <<>>
  <1> DEFINE Goal == /\ Owes(m) \in Seq(CallId)
                     /\ m.role \in {"user", "assistant", "tool"}
                     /\ m.role = "assistant" => m.ids = Owes(m)
                     /\ m.role # "assistant" => Owes(m) = <<>>
  <1>1. ASSUME m = User PROVE Goal
    BY <1>1 DEF User, Owes
  <1>2. ASSUME NEW ids \in Seq(CallId), m = Assistant(ids) PROVE Goal
    <2>1. m.role = "assistant" /\ Owes(m) = ids /\ m.ids = ids
      BY <1>2 DEF Assistant, Owes
    <2> QED
      BY <2>1
  <1>3. ASSUME NEW id \in CallId, NEW ok \in BOOLEAN, m = ToolResult(id, ok) PROVE Goal
    <2>1. m.role = "tool" /\ Owes(m) = <<>>
      BY <1>3 DEF ToolResult, Owes
    <2> QED
      BY <2>1
  <1> HIDE DEF Goal
  <1>4. \/ m = User
        \/ \E ids \in Seq(CallId) : m = Assistant(ids)
        \/ \E id \in CallId, ok \in BOOLEAN : m = ToolResult(id, ok)
    BY DEF Message
  <1>5. Goal
    BY <1>1, <1>2, <1>3, <1>4, Zenon
  <1> QED
    BY <1>5 DEF Goal

LEMMA PairedFrame ==
    ASSUME NEW n \in Nat, NEW h, NEW g, Paired(h, n),
           \A k \in 1..n : g[k] = h[k]
    PROVE  Paired(g, n)
  <1>1. ASSUME NEW k \in 1..n, NEW j \in 1..Len(Owes(g[k]))
        PROVE  k + j <= n /\ g[k + j].role = "tool" /\ g[k + j].id = Owes(g[k])[j]
    <2>1. g[k] = h[k] /\ j \in 1..Len(Owes(h[k]))
      BY <1>1
    <2>2. k + j <= n /\ h[k + j].role = "tool" /\ h[k + j].id = Owes(h[k])[j]
      BY <2>1 DEF Paired
    <2>3. k + j \in 1..n
      BY <2>2
    <2> QED
      BY <2>1, <2>2, <2>3
  <1>2. ASSUME NEW k \in 1..n, g[k].role = "tool"
        PROVE  \E a \in 1..(k - 1) : k - a <= Len(Owes(g[a]))
    <2>1. PICK a \in 1..(k - 1) : k - a <= Len(Owes(h[a]))
      BY <1>2 DEF Paired
    <2>2. a \in 1..n /\ g[a] = h[a]
      BY <2>1
    <2> QED
      BY <2>1, <2>2
  <1> QED
    BY <1>1, <1>2 DEF Paired

\* A message that calls nothing and answers nothing.
LEMMA PairedPlain ==
    ASSUME NEW n \in Nat, NEW h, Paired(h, n),
           Owes(h[n + 1]) = <<>>, h[n + 1].role # "tool"
    PROVE  Paired(h, n + 1)
  <1>1. \A k \in 1..(n + 1) : k \in 1..n \/ k = n + 1
    OBVIOUS
  <1>2. Len(Owes(h[n + 1])) = 0
    OBVIOUS
  <1>3. ASSUME NEW k \in 1..(n + 1), NEW j \in 1..Len(Owes(h[k]))
        PROVE  k + j <= n + 1 /\ h[k + j].role = "tool" /\ h[k + j].id = Owes(h[k])[j]
    <2>1. k \in 1..n
      BY <1>1, <1>2, <1>3
    <2>2. k + j <= n /\ h[k + j].role = "tool" /\ h[k + j].id = Owes(h[k])[j]
      BY <1>3, <2>1 DEF Paired
    <2> QED
      BY <2>1, <2>2
  <1>4. ASSUME NEW k \in 1..(n + 1), h[k].role = "tool"
        PROVE  \E a \in 1..(k - 1) : k - a <= Len(Owes(h[a]))
    BY <1>1, <1>4 DEF Paired
  <1> QED
    BY <1>3, <1>4 DEF Paired

\* A message with calls, and their results right behind it.
LEMMA PairedBatch ==
    ASSUME NEW n \in Nat, NEW h, Paired(h, n), NEW ids \in Seq(CallId),
           Owes(h[n + 1]) = ids, h[n + 1].role # "tool",
           \A j \in 1..Len(ids) : /\ h[n + 1 + j].role = "tool" /\ h[n + 1 + j].id = ids[j]
                                 /\ Owes(h[n + 1 + j]) = <<>>
    PROVE  Paired(h, n + 1 + Len(ids))
  <1> DEFINE l == Len(ids)
             m == n + 1 + l
  <1>1. l \in Nat
    OBVIOUS
  <1> HIDE DEF l
  <1>2. \A k \in 1..m : k \in 1..n \/ k = n + 1 \/ (k - n - 1 \in 1..l /\ k = n + 1 + (k - n - 1))
    BY <1>1
  <1> USE DEF l
  <1>3. ASSUME NEW k \in 1..m, NEW j \in 1..Len(Owes(h[k]))
        PROVE  k + j <= m /\ h[k + j].role = "tool" /\ h[k + j].id = Owes(h[k])[j]
    <2>1. CASE k \in 1..n
      <3>1. k + j <= n /\ h[k + j].role = "tool" /\ h[k + j].id = Owes(h[k])[j]
        BY <1>3, <2>1 DEF Paired
      <3> QED
        BY <1>1, <2>1, <3>1
    <2>2. CASE k = n + 1
      BY <1>1, <1>3, <2>2
    <2>3. CASE k - n - 1 \in 1..l /\ k = n + 1 + (k - n - 1)
      <3>1. Owes(h[k]) = <<>> /\ Len(<<>>) = 0
        BY <2>3
      <3> QED
        BY <1>3, <3>1
    <2> QED
      BY <1>2, <2>1, <2>2, <2>3
  <1>4. ASSUME NEW k \in 1..m, h[k].role = "tool"
        PROVE  \E a \in 1..(k - 1) : k - a <= Len(Owes(h[a]))
    <2>1. CASE k \in 1..n
      BY <1>4, <2>1 DEF Paired
    <2>2. CASE k - n - 1 \in 1..l /\ k = n + 1 + (k - n - 1)
      <3>1. n + 1 \in 1..(k - 1) /\ k - (n + 1) <= Len(Owes(h[n + 1]))
        BY <1>1, <2>2
      <3> QED
        BY <3>1
    <2> QED
      BY <1>2, <1>4, <2>1, <2>2
  <1> QED
    BY <1>3, <1>4 DEF Paired

\* Of a batch: one slot per call, empty or with a result.
Slots ==
    pc = "batch" =>
      /\ DOMAIN slots = DOMAIN Calling
      /\ \A k \in DOMAIN slots :
           \/ slots[k] = Empty
           \/ slots[k] = [ok |-> slots[k].ok, seen |-> slots[k].seen] /\ slots[k].ok \in BOOLEAN

Told ==
    /\ history \in Seq(Message) /\ turn \in Nat
    /\ pc # "batch" => Paired(history, Len(history))
    /\ pc = "batch" => /\ Len(history) > 0 /\ Paired(history, Len(history) - 1)
                       /\ history[Len(history)] = Assistant(Ids)

LEMMA FilledSlot ==
    ASSUME NEW ok \in BOOLEAN, NEW x
    PROVE  /\ [ok |-> ok, seen |-> x] # Empty
           /\ [ok |-> ok, seen |-> x].ok = ok /\ [ok |-> ok, seen |-> x].seen = x
  <1>1. DOMAIN [ok |-> ok, seen |-> x] = {"ok", "seen"} /\ DOMAIN <<>> = {}
    OBVIOUS
  <1> QED
    BY <1>1 DEF Empty

\* One call: its slot, which was empty, has a result.
LEMMA RunCallIs ==
    ASSUME NEW k, RunCall(k)
    PROVE  /\ pc = "batch" /\ k \in DOMAIN slots /\ Next1(k) /\ slots[k] = Empty
           /\ \E ok \in BOOLEAN :
                /\ slots' = [slots EXCEPT ![k] = [ok |-> ok, seen |-> file']]
                /\ IF ok THEN Does(Calling[k])
                   ELSE Refused(Calling[k]) \/ (Calling[k].arg # NoArg /\ Bash(Calling[k]))
           /\ UNCHANGED <<dialect, said, got, end, pc, turn, history, tallies, before>>
  <1>1. slots[k] = Empty
    BY DEF RunCall, Next1, Waits
  <1> QED
    BY <1>1, Zenon DEF RunCall, streamVars, kidVars

LEMMA SlotsStart == Init => Slots
  BY DEF Init, Slots

LEMMA SlotsStep ==
    ASSUME Slots, Next \/ UNCHANGED vars
    PROVE  Slots'
  <1>1. CASE ReplyHasCalls
    <2>1. /\ slots' = [k \in DOMAIN Calling |->
                   IF Calling[k].tool \in Parallel \cup Serial THEN Empty
                   ELSE [ok |-> FALSE, seen |-> file]]
          /\ got' = [got EXCEPT !.flight = <<>>]
      BY <1>1 DEF ReplyHasCalls
    <2>2. Calling' = Calling
      BY <2>1 DEF Calling
    <2>3. DOMAIN slots' = DOMAIN Calling'
      BY <2>1, <2>2
    <2>4. ASSUME NEW k \in DOMAIN slots'
          PROVE  \/ slots'[k] = Empty
                 \/ slots'[k] = [ok |-> slots'[k].ok, seen |-> slots'[k].seen] /\ slots'[k].ok \in BOOLEAN
      <3>1. slots'[k] = Empty \/ slots'[k] = [ok |-> FALSE, seen |-> file]
        BY <2>1, <2>4
      <3> QED
        BY <3>1, FilledSlot
    <2> QED
      BY <2>3, <2>4, Zenon DEF Slots, Empty
  <1>2. ASSUME NEW k \in Index, RunCall(k) PROVE Slots'
    <2>1. PICK ok \in BOOLEAN : slots' = [slots EXCEPT ![k] = [ok |-> ok, seen |-> file']]
      BY <1>2, RunCallIs
    <2>2. pc = "batch" /\ k \in DOMAIN slots /\ Calling' = Calling
      BY <1>2, RunCallIs DEF Calling
    <2>3. DOMAIN slots' = DOMAIN Calling'
      BY <2>1, <2>2 DEF Slots
    <2>4. ASSUME NEW j \in DOMAIN slots'
          PROVE  \/ slots'[j] = Empty
                 \/ slots'[j] = [ok |-> slots'[j].ok, seen |-> slots'[j].seen] /\ slots'[j].ok \in BOOLEAN
      <3>1. CASE j = k
        <4>1. slots'[j] = [ok |-> ok, seen |-> file']
          BY <2>1, <2>2, <3>1
        <4> QED
          BY <4>1, FilledSlot
      <3>2. CASE j # k
        <4>1. j \in DOMAIN slots /\ slots'[j] = slots[j]
          BY <2>1, <3>2
        <4> QED
          BY <2>2, <4>1, Zenon DEF Slots
      <3> QED
        BY <3>1, <3>2
    <2> QED
      BY <2>3, <2>4, Zenon DEF Slots, Empty
  <1>3. CASE pc' # "batch"
    BY <1>3 DEF Slots
  <1>4. CASE \/ \E reply \in Reply : AsksProvider(reply)
             \/ Receives \/ ReplyFails \/ ReplyIsText \/ BatchDone
    <2>1. pc' \in {"stream", "returned", "head"}
      <3>1. ASSUME NEW reply, AsksProvider(reply) PROVE pc' = "stream"
        BY <3>1 DEF AsksProvider
      <3>2. ASSUME Receives PROVE pc' = "stream"
        BY <3>2 DEF Receives
      <3>3. ASSUME ReplyFails PROVE pc' = "returned"
        BY <3>3 DEF ReplyFails
      <3>4. ASSUME ReplyIsText PROVE pc' \in {"returned", "head"}
        BY <3>4, Zenon DEF ReplyIsText
      <3>5. ASSUME BatchDone PROVE pc' = "head"
        BY <3>5 DEF BatchDone
      <3> QED
        BY <1>4, <3>1, <3>2, <3>3, <3>4, <3>5
    <2> QED
      BY <1>3, <2>1
  <1>5. CASE /\ UNCHANGED <<dialect, streamVars, turn, slots, effects, before>>
             /\ pc' = pc \/ (pc = "head" /\ pc' = "returned")
    BY <1>5, Zenon DEF Slots, streamVars, Calling, Empty
  <1> QED
    BY <1>1, <1>2, <1>4, <1>5, Elsewhere

LEMMA AppendPlain ==
    ASSUME NEW h \in Seq(Message), Paired(h, Len(h)), NEW m \in Message,
           Owes(m) = <<>>, m.role # "tool"
    PROVE  Append(h, m) \in Seq(Message) /\ Paired(Append(h, m), Len(Append(h, m)))
  <1> DEFINE g == Append(h, m)
             n == Len(h)
  <1>1. g \in Seq(Message) /\ Len(g) = n + 1 /\ n \in Nat /\ g[n + 1] = m
        /\ \A k \in 1..n : g[k] = h[k]
    BY AppendProperties
  <1> HIDE DEF g
  <1>2. Paired(g, n)
    BY <1>1, PairedFrame
  <1>3. Paired(g, n + 1)
    BY <1>1, <1>2, PairedPlain
  <1> QED
    BY <1>1, <1>3 DEF g

LEMMA MessageKinds ==
    /\ \A ids \in Seq(CallId) : Assistant(ids) \in Message
    /\ \A id \in CallId, ok \in BOOLEAN : ToolResult(id, ok) \in Message
  <1>1. ASSUME NEW ids \in Seq(CallId) PROVE Assistant(ids) \in Message
    BY DEF Message
  <1>2. ASSUME NEW id \in CallId, NEW ok \in BOOLEAN PROVE ToolResult(id, ok) \in Message
    <2>1. ToolResult(id, ok) \in {ToolResult(i, b) : i \in CallId, b \in BOOLEAN}
      OBVIOUS
    <2> QED
      BY <2>1 DEF Message
  <1> QED
    BY <1>1, <1>2

LEMMA PlainMessages ==
    /\ User \in Message /\ Owes(User) = <<>> /\ User.role # "tool"
    /\ Assistant(<<>>) \in Message /\ Owes(Assistant(<<>>)) = <<>> /\ Assistant(<<>>).role # "tool"
  <1>1. User.role = "user" /\ User \in Message
    BY DEF User, Message
  <1>2. Assistant(<<>>) \in Message
    <2>1. <<>> \in Seq(CallId)
      OBVIOUS
    <2> QED
      BY <2>1, MessageKinds
  <1>3. Assistant(<<>>).role = "assistant" /\ Assistant(<<>>).ids = <<>>
    BY DEF Assistant
  <1> QED
    BY <1>1, <1>2, <1>3 DEF Owes

LEMMA TwoMore ==
    ASSUME NEW S, NEW h \in Seq(S), NEW x \in S, NEW y \in S
    PROVE  h \o <<x, y>> = Append(Append(h, x), y)
  <1> DEFINE a == Append(Append(h, x), y)
             b == h \o <<x, y>>
             n == Len(h)
  <1>1. /\ Append(h, x) \in Seq(S) /\ Len(Append(h, x)) = n + 1
        /\ \A i \in 1..n : Append(h, x)[i] = h[i]
        /\ Append(h, x)[n + 1] = x /\ n \in Nat
    BY AppendProperties
  <1>2. /\ a \in Seq(S) /\ Len(a) = n + 2
        /\ \A i \in 1..(n + 1) : a[i] = Append(h, x)[i]
        /\ a[n + 2] = y
    BY <1>1, AppendProperties
  <1>3. <<x, y>> \in Seq(S) /\ Len(<<x, y>>) = 2 /\ <<x, y>>[1] = x /\ <<x, y>>[2] = y
    OBVIOUS
  <1>4. /\ b \in Seq(S) /\ Len(b) = n + 2
        /\ \A i \in 1..n : b[i] = h[i]
        /\ b[n + 1] = x /\ b[n + 2] = y
    BY <1>3, ConcatProperties
  <1> HIDE DEF a, b
  <1>5. \A i \in 1..(n + 2) : a[i] = b[i]
    <2> TAKE i \in 1..(n + 2)
    <2>1. i \in 1..n \/ i = n + 1 \/ i = n + 2
      BY <1>1
    <2> QED
      BY <1>1, <1>2, <1>4, <2>1
  <1>6. a = b
    BY <1>2, <1>4, <1>5, SeqEqual
  <1> QED
    BY <1>6 DEF a, b

LEMMA CallingType ==
    ASSUME StreamInv, ProviderStreamAssumption
    PROVE  /\ Calling \in Seq(Collected) /\ Len(Calling) \in Nat
           /\ DOMAIN Calling = 1..Len(Calling)
           /\ \A k \in DOMAIN Calling : Calling[k].index \in DOMAIN said /\ Calling[k].index \in Nat
           /\ \A j, k \in DOMAIN Calling : Calling[j].index = Calling[k].index => j = k
  <1>1. Calling \in Seq(Collected)
        /\ \A k \in 1..Len(Calling) : \A l \in 1..(k - 1) : Calling[l].index # Calling[k].index
    BY DEF StreamInv, Gathered, Calling
  <1>2. Len(Calling) \in Nat /\ DOMAIN Calling = 1..Len(Calling)
    BY <1>1
  <1>3. \A k \in DOMAIN Calling : Calling[k].index \in DOMAIN said
    BY <1>1, <1>2 DEF Collected
  <1>4. DOMAIN said \subseteq Nat
    BY DEF StreamInv, StreamTypes, Numbered
  <1>5. ASSUME NEW j \in DOMAIN Calling, NEW k \in DOMAIN Calling, Calling[j].index = Calling[k].index
        PROVE  j = k
    BY <1>1, <1>2, <1>5
  <1> QED
    BY <1>1, <1>2, <1>3, <1>4, <1>5

LEMMA IdsType ==
    ASSUME StreamInv, ProviderStreamAssumption, turn \in Nat
    PROVE  /\ Ids \in Seq(CallId) /\ Len(Ids) = Len(Calling) /\ DOMAIN Ids = DOMAIN Calling
           /\ \A j, k \in DOMAIN Calling : Ids[j] = Ids[k] => j = k
  <1>1. DOMAIN Ids = DOMAIN Calling /\ DOMAIN Calling = 1..Len(Calling) /\ Len(Calling) \in Nat
    BY CallingType DEF Ids
  <1>2. \A k \in DOMAIN Calling : Ids[k] = Id(Calling[k].index)
    BY DEF Ids
  <1>3. \A k \in DOMAIN Calling : Id(Calling[k].index) \in CallId /\ Id(Calling[k].index)[2] = Calling[k].index
    BY CallingType DEF Id, CallId
  <1>4. Ids \in [1..Len(Calling) -> CallId]
    BY <1>1, <1>2, <1>3 DEF Ids
  <1>5. Ids \in Seq(CallId) /\ Len(Ids) = Len(Calling)
    BY <1>1, <1>4
  <1>6. \A j, k \in DOMAIN Calling : Ids[j] = Ids[k] => j = k
    BY <1>2, <1>3, CallingType
  <1> QED
    BY <1>1, <1>5, <1>6

\* The results of a batch whose slots are full, one behind the other.
LEMMA ResultsAre ==
    ASSUME StreamInv, ProviderStreamAssumption, Slots, Told, BatchDone
    PROVE  /\ history' \in Seq(Message) /\ history' = history \o Results
           /\ Len(history') = Len(history) + Len(Calling)
           /\ \A k \in 1..Len(history) : history'[k] = history[k]
           /\ \A k \in 1..Len(Calling) :
                /\ slots[k].ok \in BOOLEAN
                /\ history'[Len(history) + k] = ToolResult(Ids[k], slots[k].ok)
  <1> DEFINE l == Len(Calling)
  <1>1. /\ pc = "batch" /\ \A k \in DOMAIN slots : slots[k] # Empty
        /\ history' = history \o Results
    BY DEF BatchDone
  <1>2. l \in Nat /\ DOMAIN slots = 1..l /\ Ids \in Seq(CallId) /\ Len(Ids) = l
    BY <1>1, CallingType, IdsType DEF Slots, Told
  <1>3. \A k \in 1..l : slots[k].ok \in BOOLEAN
    BY <1>1, <1>2, Zenon DEF Slots
  <1>4. DOMAIN Results = 1..l /\ \A k \in 1..l : Results[k] = ToolResult(Ids[k], slots[k].ok)
    BY <1>2 DEF Results
  <1>5. \A k \in 1..l : Results[k] \in Message
    <2> TAKE k \in 1..l
    <2>1. Ids[k] \in CallId
      BY <1>2
    <2> QED
      BY <1>3, <1>4, <2>1, MessageKinds, Zenon
  <1>6. Results \in Seq(Message) /\ Len(Results) = l
    <2>1. Results = [k \in 1..l |-> Results[k]]
      BY <1>2, <1>4 DEF Results
    <2>2. Results \in [1..l -> Message]
      BY <1>5, <2>1
    <2> QED
      BY <1>2, <1>4, <2>2
  <1>7. history \in Seq(Message) /\ Len(history) \in Nat
    BY DEF Told
  <1> HIDE DEF l
  <1>8. /\ history' \in Seq(Message) /\ Len(history') = Len(history) + l
        /\ \A k \in 1..(Len(history) + l) :
              history'[k] = IF k <= Len(history) THEN history[k] ELSE Results[k - Len(history)]
    BY <1>1, <1>6, <1>7, ConcatProperties
  <1>9. \A k \in 1..Len(history) : history'[k] = history[k]
    BY <1>2, <1>7, <1>8
  <1>10. \A k \in 1..l : history'[Len(history) + k] = Results[k]
    BY <1>2, <1>7, <1>8
  <1> QED
    BY <1>1, <1>3, <1>4, <1>8, <1>9, <1>10, Zenon DEF l

LEMMA BatchDoneTold ==
    ASSUME StreamInv, ProviderStreamAssumption, Slots, Told, BatchDone
    PROVE  Told'
  <1> DEFINE n == Len(history) - 1
             l == Len(Calling)
  <1>1. pc = "batch" /\ pc' = "head" /\ turn' = turn
    BY DEF BatchDone
  <1>2. Len(history) > 0 /\ Len(history) \in Nat /\ Paired(history, n) /\ history[n + 1] = Assistant(Ids)
        /\ turn \in Nat /\ n + 1 = Len(history) /\ n \in Nat
    BY <1>1 DEF Told
  <1>3. Ids \in Seq(CallId) /\ Len(Ids) = l /\ l \in Nat
    BY <1>2, IdsType, CallingType
  <1>4. /\ history' \in Seq(Message) /\ Len(history') = n + 1 + l
        /\ \A k \in 1..(n + 1) : history'[k] = history[k]
        /\ \A k \in 1..l : history'[n + 1 + k] = ToolResult(Ids[k], slots[k].ok)
    BY <1>2, ResultsAre
  <1> HIDE DEF n, l
  <1>5. Paired(history', n)
    BY <1>2, <1>4, PairedFrame
  <1>6. Owes(history'[n + 1]) = Ids /\ history'[n + 1].role # "tool"
    <2>1. history'[n + 1] = Assistant(Ids)
      BY <1>2, <1>4
    <2> QED
      BY <2>1 DEF Assistant, Owes
  <1>7. \A k \in 1..l : /\ history'[n + 1 + k].role = "tool" /\ history'[n + 1 + k].id = Ids[k]
                         /\ Owes(history'[n + 1 + k]) = <<>>
    <2> TAKE k \in 1..l
    <2> DEFINE m == ToolResult(Ids[k], slots[k].ok)
    <2>1. m.role = "tool" /\ m.id = Ids[k]
      BY DEF ToolResult
    <2>2. history'[n + 1 + k] = m
      BY <1>4
    <2> HIDE DEF m
    <2>3. Owes(m) = <<>>
      BY <2>1 DEF Owes
    <2> QED
      BY <2>1, <2>2, <2>3
  <1>8. Paired(history', n + 1 + l)
    BY <1>2, <1>3, <1>5, <1>6, <1>7, PairedBatch
  <1>9. Paired(history, Len(history))'
    <2>1. Paired(history', Len(history'))
      BY <1>4, <1>8
    <2> QED
      BY <2>1 DEF Paired, Owes
  <1> QED
    BY <1>1, <1>2, <1>4, <1>9 DEF Told

LEMMA ReplyTold ==
    ASSUME StreamInv, ProviderStreamAssumption, Told, ReplyIsText \/ ReplyHasCalls
    PROVE  Told'
  <1>1. CASE ReplyIsText
    <2>1. /\ pc = "stream" /\ pc' \in {"head", "returned"} /\ turn' = turn
          /\ \/ history' = Append(history, Assistant(<<>>))
             \/ history' = history \o <<Assistant(<<>>), User>>
      BY <1>1, Zenon DEF ReplyIsText, RestOfReply
    <2>2. history \in Seq(Message) /\ Paired(history, Len(history)) /\ turn \in Nat
      BY <2>1 DEF Told
    <2> DEFINE h == Append(history, Assistant(<<>>))
    <2>3. h \in Seq(Message) /\ Paired(h, Len(h))
      BY <2>2, PlainMessages, AppendPlain
    <2>4. history \o <<Assistant(<<>>), User>> = Append(h, User)
      BY <2>2, PlainMessages, TwoMore
    <2>5. Append(h, User) \in Seq(Message) /\ Paired(Append(h, User), Len(Append(h, User)))
      <3> HIDE DEF h
      <3> QED
        BY <2>3, PlainMessages, AppendPlain
    <2>6. history' \in Seq(Message) /\ Paired(history', Len(history'))
      BY <2>1, <2>3, <2>4, <2>5
    <2>7. Paired(history, Len(history))'
      BY <2>6 DEF Paired, Owes
    <2> QED
      BY <2>1, <2>2, <2>6, <2>7 DEF Told
  <1>2. CASE ReplyHasCalls
    <2>1. /\ pc = "stream" /\ pc' = "batch" /\ turn' = turn /\ dialect' = dialect
          /\ history' = Append(history, Assistant(Ids))
          /\ got' = [got EXCEPT !.flight = <<>>]
      BY <1>2 DEF ReplyHasCalls, RestOfReply
    <2>2. history \in Seq(Message) /\ Paired(history, Len(history)) /\ turn \in Nat
          /\ Len(history) \in Nat
      BY <2>1 DEF Told
    <2>3. Calling' = Calling
      <3>1. got = [flight |-> got.flight, calls |-> got.calls]
        BY DEF StreamInv, Gathered
      <3> QED
        BY <2>1, <3>1 DEF Calling
    <2>4. Ids' = Ids
      BY <2>1, <2>3 DEF Ids, Id
    <2>5. Assistant(Ids) \in Message
      BY <2>2, IdsType DEF Message
    <2>6. /\ history' \in Seq(Message) /\ Len(history') = Len(history) + 1
          /\ \A k \in 1..Len(history) : history'[k] = history[k]
          /\ history'[Len(history) + 1] = Assistant(Ids)
      BY <2>1, <2>2, <2>5, AppendProperties
    <2>7. Paired(history', Len(history))
      BY <2>2, <2>6, PairedFrame
    <2>8. Len(history') - 1 = Len(history) /\ Len(history') > 0
      BY <2>2, <2>6
    <2>9. Paired(history, Len(history) - 1)'
      BY <2>7, <2>8 DEF Paired, Owes
    <2>10. (history[Len(history)] = Assistant(Ids))'
      BY <2>4, <2>6 DEF Assistant
    <2> QED
      BY <2>1, <2>2, <2>6, <2>8, <2>9, <2>10 DEF Told
  <1> QED
    BY <1>1, <1>2

LEMMA ToldStep ==
    ASSUME StreamInv, ProviderStreamAssumption, Slots, Told, Next \/ UNCHANGED vars
    PROVE  Told'
  <1>1. ASSUME pc = "head", pc' \in {"head", "returned"}, turn' = turn,
               UNCHANGED history \/ history' = Append(history, User)
        PROVE  Told'
    <2>1. history \in Seq(Message) /\ Paired(history, Len(history)) /\ turn \in Nat
      BY <1>1 DEF Told
    <2>2. Append(history, User) \in Seq(Message)
          /\ Paired(Append(history, User), Len(Append(history, User)))
      BY <2>1, PlainMessages, AppendPlain
    <2>3. history' \in Seq(Message) /\ Paired(history', Len(history'))
      BY <1>1, <2>1, <2>2
    <2>4. Paired(history, Len(history))'
      BY <2>3 DEF Paired, Owes
    <2> QED
      BY <1>1, <2>1, <2>3, <2>4 DEF Told
  <1>2. ASSUME NEW letter, Send(letter) PROVE Told'
    BY <1>1, <1>2, Zenon DEF Send
  <1>3. CASE ReadsMail
    <2>1. pc = "head" /\ pc' \in {"head", "returned"} /\ turn' = turn
          /\ (UNCHANGED history \/ history' = Append(history, User))
      BY <1>3, Zenon DEF ReadsMail, AtHead
    <2> QED
      BY <1>1, <2>1
  <1>4. CASE ReadsNote \/ GivesUpWaiting
    <2>1. pc = "head" /\ pc' = "head" /\ turn' = turn /\ history' = Append(history, User)
      BY <1>4, Zenon DEF ReadsNote, GivesUpWaiting, AtHead
    <2> QED
      BY <1>1, <2>1
  <1>5. ASSUME pc # "batch", pc' # "batch", turn' \in Nat, UNCHANGED history PROVE Told'
    <2>1. Paired(history, Len(history))'
      BY <1>5 DEF Told, Paired, Owes
    <2>2. Message' = Message
      BY DEF Message, User, Assistant, ToolResult, CallId
    <2> QED
      BY <1>5, <2>1, <2>2 DEF Told
  <1>6. ASSUME NEW reply \in Reply, AsksProvider(reply) PROVE Told'
    <2>1. pc = "head" /\ pc' = "stream" /\ turn' = turn + 1 /\ UNCHANGED history
      BY <1>6 DEF AsksProvider
    <2> QED
      BY <1>5, <2>1 DEF Told
  <1>7. CASE Receives \/ ReplyFails
    <2>1. pc = "stream" /\ pc' \in {"stream", "returned"} /\ turn' = turn /\ UNCHANGED history
      BY <1>7, Zenon DEF Receives, ReplyFails, RestOfReply
    <2> QED
      BY <1>5, <2>1 DEF Told
  <1>8. ASSUME UNCHANGED <<pc, turn, history, dialect, got>> PROVE Told'
    <2>1. Ids' = Ids
      BY <1>8 DEF Ids, Id, Calling
    <2>2. (Paired(history, Len(history))' <=> Paired(history, Len(history)))
          /\ (Paired(history, Len(history) - 1)' <=> Paired(history, Len(history) - 1))
      BY <1>8 DEF Paired, Owes
    <2>3. Message' = Message
      BY DEF Message, User, Assistant, ToolResult, CallId
    <2> QED
      BY <1>8, <2>1, <2>2, <2>3, Zenon DEF Told, Assistant
  <1>9. ASSUME NEW k, RunCall(k) PROVE Told'
    <2>1. UNCHANGED <<pc, turn, history, dialect, got>>
      BY <1>9, RunCallIs
    <2> QED
      BY <1>8, <2>1
  <1>10. CASE UNCHANGED vars
    BY <1>8, <1>10 DEF vars, streamVars
  <1> QED
    BY <1>2, <1>3, <1>4, <1>6, <1>7, <1>9, <1>10, ReplyTold, BatchDoneTold, Zenon DEF Next

\* A message as the dialect at hand has it.
Said(m) == CASE dialect = "openai" -> OpenAIMessage(m)
             [] dialect = "anthropic" -> AnthropicMessage(m)
             [] dialect = "gemini" -> GeminiContent(m)

LEMMA MessageSaid ==
    ASSUME ProviderStreamAssumption, dialect \in Dialects, NEW m \in Message
    PROVE  /\ Len(Said(m).calls) = Len(Owes(m)) /\ DOMAIN Said(m).calls = 1..Len(Owes(m))
           /\ dialect # "gemini" => Said(m).calls = Owes(m)
           /\ Said(m).answers = IF m.role = "tool" THEN <<m.id>> ELSE <<>>
           /\ m.role = "assistant" => Said(m).role \in {"assistant", "model"}
           /\ m.role = "tool" => Said(m).role \in {"user", "tool"}
  <1> DEFINE ids == Owes(m)
             ans == IF m.role = "tool" THEN <<m.id>> ELSE <<>>
             r == m.role
             o == OpenAIMessage(m)
             a == AnthropicMessage(m)
             g == GeminiContent(m)
  <1>1. ids \in Seq(CallId) /\ Len(ids) \in Nat /\ DOMAIN ids = 1..Len(ids)
        /\ r \in {"user", "assistant", "tool"}
    BY Messages
  <1>2. o = [role |-> r, calls |-> ids, answers |-> ans]
    BY DEF OpenAIMessage, Owes
  <1> DEFINE r2 == IF r = "tool" THEN "user" ELSE r
             r3 == IF r2 = "assistant" THEN "model" ELSE r2
             named == [k \in DOMAIN ids |-> <<"functionCall", k>>]
  <1> HIDE DEF ids, ans
  <1>3. a = [role |-> r2, calls |-> ids, answers |-> ans]
    BY <1>2 DEF AnthropicMessage
  <1>4. g = [role |-> r3, calls |-> named, answers |-> ans]
    <2>1. g = [a EXCEPT !.role = IF @ = "assistant" THEN "model" ELSE @,
                        !.calls = [k \in DOMAIN @ |-> <<"functionCall", k>>]]
      BY DEF GeminiContent
    <2> HIDE DEF a, g, r2
    <2> QED
      BY <1>3, <2>1
  <1>5. named \in Seq({<<"functionCall", k>> : k \in 1..Len(ids)}) /\ Len(named) = Len(ids)
        /\ DOMAIN named = 1..Len(ids)
    BY <1>1
  <1> HIDE DEF named, o, a, g
  <1>6. CASE dialect = "openai"
    <2>1. Said(m) = o
      BY <1>6 DEF Said, o
    <2> QED
      BY <1>1, <1>2, <1>6, <2>1 DEF ids, ans
  <1>7. CASE dialect = "anthropic"
    <2>1. Said(m) = a
      BY <1>7 DEF Said, a
    <2> QED
      BY <1>1, <1>3, <1>7, <2>1 DEF ids, ans
  <1>8. CASE dialect = "gemini"
    <2>1. Said(m) = g
      BY <1>8 DEF Said, g
    <2> QED
      BY <1>1, <1>4, <1>5, <1>8, <2>1 DEF ids, ans
  <1> QED
    BY <1>6, <1>7, <1>8 DEF ProviderStreamAssumption

LEMMA ToldIsPaired ==
    ASSUME ProviderStreamAssumption, StreamInv, Told
    PROVE  HistoryPaired
  <1> SUFFICES ASSUME pc # "batch"
               PROVE  LET request == Request(history)
                          Made(k) == request[k].calls
                      IN  /\ \A k \in DOMAIN request : \A j \in DOMAIN Made(k) :
                               /\ k + j <= Len(request) /\ request[k].role \in {"assistant", "model"}
                               /\ request[k + j].role \in {"user", "tool"} /\ request[k + j].answers # <<>>
                               /\ dialect # "gemini" => request[k + j].answers = <<Made(k)[j]>>
                          /\ \A k \in DOMAIN request : request[k].answers # <<>> =>
                               \E a \in 1..(k - 1) : k - a <= Len(Made(a))
    BY DEF HistoryPaired
  <1> DEFINE request == Request(history)
             n == Len(history)
  <1>1. /\ history \in Seq(Message) /\ n \in Nat /\ DOMAIN history = 1..n /\ Paired(history, n)
        /\ dialect \in Dialects
    BY DEF Told, StreamInv, StreamTypes
  <1>2. DOMAIN request = 1..n /\ \A k \in 1..n : request[k] = Said(history[k])
    BY <1>1 DEF Request, Said
  <1>3. Len(request) = n
    <2>1. request = [k \in 1..n |-> request[k]]
      BY <1>1, <1>2 DEF Request
    <2> HIDE DEF request
    <2>2. request \in Seq({request[k] : k \in 1..n})
      BY <1>1, <2>1
    <2> QED
      BY <1>1, <1>2, <2>2
  <1> HIDE DEF request, n
  <1>4. \A k \in 1..n : history[k] \in Message
    BY <1>1 DEF n
  <1>5. ASSUME NEW k \in 1..n, NEW j \in DOMAIN request[k].calls
        PROVE  /\ k + j <= n /\ request[k].role \in {"assistant", "model"}
               /\ request[k + j].role \in {"user", "tool"} /\ request[k + j].answers # <<>>
               /\ dialect # "gemini" => request[k + j].answers = <<request[k].calls[j]>>
    <2>1. j \in 1..Len(Owes(history[k])) /\ history[k].role = "assistant"
      <3>1. j \in 1..Len(Owes(history[k]))
        BY <1>1, <1>2, <1>4, <1>5, MessageSaid
      <3>2. Owes(history[k]) # <<>>
        BY <3>1
      <3> QED
        BY <1>4, <3>1, <3>2, Messages
    <2>2. k + j <= n /\ history[k + j].role = "tool" /\ history[k + j].id = Owes(history[k])[j]
      BY <1>1, <2>1 DEF Paired
    <2>3. k + j \in 1..n
      BY <1>1, <2>1, <2>2
    <2>4. /\ Said(history[k + j]).answers = <<history[k + j].id>>
          /\ Said(history[k + j]).role \in {"user", "tool"}
      BY <1>1, <1>4, <2>2, <2>3, MessageSaid
    <2>5. /\ Said(history[k]).role \in {"assistant", "model"}
          /\ dialect # "gemini" => Said(history[k]).calls = Owes(history[k])
      BY <1>1, <1>4, <2>1, MessageSaid
    <2>6. request[k] = Said(history[k]) /\ request[k + j] = Said(history[k + j])
      BY <1>2, <2>3
    <2>7. <<history[k + j].id>> # <<>>
      OBVIOUS
    <2> QED
      BY <2>2, <2>4, <2>5, <2>6, <2>7
  <1>6. ASSUME NEW k \in 1..n, request[k].answers # <<>>
        PROVE  \E a \in 1..(k - 1) : k - a <= Len(request[a].calls)
    <2>1. history[k].role = "tool"
      <3>1. Said(history[k]).answers # <<>> /\ history[k] \in Message
        BY <1>2, <1>4, <1>6
      <3>2. Said(history[k]).answers = IF history[k].role = "tool" THEN <<history[k].id>> ELSE <<>>
        BY <1>1, <3>1, MessageSaid
      <3> QED
        BY <3>1, <3>2
    <2>2. PICK a \in 1..(k - 1) : k - a <= Len(Owes(history[a]))
      BY <1>1, <2>1 DEF Paired
    <2>3. a \in 1..n
      BY <1>1, <2>2
    <2>4. Len(request[a].calls) = Len(Owes(history[a]))
      BY <1>1, <1>2, <1>4, <2>3, MessageSaid
    <2> QED
      BY <2>2, <2>4
  <1> QED
    BY <1>2, <1>3, <1>5, <1>6 DEF request

LEMMA ToldStart == Init => Told
  <1> SUFFICES ASSUME Init PROVE Told
    OBVIOUS
  <1>1. history = <<User>> /\ turn = 0 /\ pc = "head"
    BY DEF Init
  <1>2. history \in Seq(Message) /\ Len(history) = 1 /\ history[1] = User
    BY <1>1, PlainMessages
  <1>3. Owes(User) = <<>> /\ User.role # "tool" /\ Len(<<>>) = 0
    BY PlainMessages
  <1>4. Paired(history, 1)
    <2>1. \A k \in 1..1 : history[k] = User
      BY <1>2
    <2> QED
      BY <1>3, <2>1 DEF Paired
  <1> QED
    BY <1>1, <1>2, <1>4 DEF Told

TurnInv == StreamInv /\ Phase /\ Slots /\ Told

LEMMA TurnInvariant == Spec => []TurnInv
  <1>1. Init => TurnInv
    BY StreamStart, SlotsStart, ToldStart, ProviderStreamAssumption DEF TurnInv
  <1>2. TurnInv /\ [Next]_vars => TurnInv'
    BY StreamStep, SlotsStep, ToldStep, ProviderStreamAssumption DEF TurnInv
  <1> QED
    BY <1>1, <1>2, PTL DEF Spec

\* In every conversation that is sent, to any of the vendors, each call has its
\* answers behind it in order and no answer is without a call, whatever
\* messages, notes and cut replies come between the batches
\* (execute_tools, append_tool_results, build_api_messages, build_contents).
THEOREM ConversationsPair == Spec => []HistoryPaired
  <1>1. TurnInv => HistoryPaired
    BY ToldIsPaired, ProviderStreamAssumption DEF TurnInv
  <1> QED
    BY <1>1, TurnInvariant, PTL

-----------------------------------------------------------------------------
(* The sub-tasks a Task waits for *)

\* Of a batch: the slots that hold a ticket.
Spawned == {k \in DOMAIN slots : Calling[k].tool = "spawn" /\ slots[k] # Empty /\ slots[k].ok}

Tallies ==
    /\ tickets \in Nat /\ pending \in Nat
    /\ settled \in Nat /\ lapsed \in Nat /\ late \in Nat

\* The tickets awaited, but for n that the batch under way has given out, are the
\* pending ones and no more others than late results have been read.
Counting(n) == pending <= Awaited - n /\ Awaited - n <= pending + late

Counted ==
    /\ Tallies
    /\ pc # "batch" => Counting(0)
    /\ pc = "batch" => Counting(Cardinality(Spawned))

LEMMA Shifted ==
    ASSUME NEW S \in SUBSET Nat, IsFiniteSet(S), NEW n \in Nat
    PROVE  Cardinality({n + k : k \in S}) = Cardinality(S)
  <1> DEFINE T == {n + k : k \in S}
             f == [k \in S |-> n + k]
  <1>1. f \in Bijection(S, T)
    <2>1. f \in [S -> T]
      OBVIOUS
    <2>2. \A a, b \in S : f[a] = f[b] => a = b
      <3> SUFFICES ASSUME NEW a \in S, NEW b \in S, f[a] = f[b] PROVE a = b
        OBVIOUS
      <3>1. f[a] = n + a /\ f[b] = n + b /\ a \in Nat /\ b \in Nat
        OBVIOUS
      <3> QED
        BY <3>1
    <2>3. \A t \in T : \E s \in S : f[s] = t
      OBVIOUS
    <2> QED
      BY <2>1, <2>2, <2>3 DEF Bijection, Injection, Surjection, IsInjective
  <1> QED
    BY <1>1, FS_Bijection DEF ExistsBijection

LEMMA SpawnedFinite ==
    ASSUME StreamInv, ProviderStreamAssumption, DOMAIN slots = DOMAIN Calling
    PROVE  IsFiniteSet(Spawned) /\ Spawned \subseteq Nat /\ Cardinality(Spawned) \in Nat
  <1>1. DOMAIN slots = 1..Len(Calling) /\ Len(Calling) \in Nat
    BY CallingType
  <1>2. Spawned \in SUBSET (1..Len(Calling)) /\ IsFiniteSet(1..Len(Calling))
    BY <1>1, FS_Interval DEF Spawned
  <1>3. IsFiniteSet(Spawned)
    BY <1>2, FS_Subset
  <1>4. Spawned \subseteq Nat
    BY <1>2
  <1> QED
    BY <1>3, <1>4, FS_CardinalityType

\* The tickets found among the last messages are those of the batch.
LEMMA NewTicketsAre ==
    ASSUME StreamInv, ProviderStreamAssumption, Slots, Told, BatchDone
    PROVE  NewTickets(history \o Results) = Cardinality(Spawned)
  <1> DEFINE h == history \o Results
             n == Len(history)
             l == Len(Calling)
             T == {k \in (Len(h) - l + 1)..Len(h) : IsTicket(h[k])}
  <1>1. pc = "batch" /\ (\A k \in DOMAIN slots : slots[k] # Empty) /\ history' = h
    BY DEF BatchDone
  <1>2. l \in Nat /\ DOMAIN Calling = 1..l /\ DOMAIN slots = 1..l /\ n \in Nat
    BY <1>1, CallingType DEF Slots, Told
  <1>3. /\ Len(h) = n + l
        /\ \A k \in 1..l : /\ slots[k].ok \in BOOLEAN
                           /\ h[n + k] = ToolResult(Ids[k], slots[k].ok)
    BY <1>1, ResultsAre
  <1>4. \A j, k \in 1..l : Ids[j] = Ids[k] => j = k
    BY <1>2, IdsType DEF Told
  <1>5. ASSUME NEW k \in 1..l PROVE IsTicket(h[n + k]) <=> k \in Spawned
    <2>1. Ids[k] \in SpawnIds <=> Calling[k].tool = "spawn"
      BY <1>2, <1>4 DEF SpawnIds
    <2>2. ToolResult(Ids[k], slots[k].ok).role = "tool" /\ ToolResult(Ids[k], slots[k].ok).id = Ids[k]
          /\ ToolResult(Ids[k], slots[k].ok).ok = slots[k].ok
      BY <1>3, Zenon DEF ToolResult
    <2>3. IsTicket(ToolResult(Ids[k], slots[k].ok)) <=> Ids[k] \in SpawnIds /\ slots[k].ok
      BY <2>2, Zenon DEF IsTicket
    <2>4. k \in Spawned <=> Calling[k].tool = "spawn" /\ slots[k].ok
      BY <1>1, <1>2, Zenon DEF Spawned
    <2>5. h[n + k] = ToolResult(Ids[k], slots[k].ok)
      BY <1>3
    <2> QED
      BY <2>1, <2>3, <2>4, <2>5, Zenon
  <1> HIDE DEF h, n, l
  <1>6. T = {n + k : k \in Spawned}
    <2>1. Spawned \subseteq 1..l
      BY <1>2 DEF Spawned
    <2>2. ASSUME NEW t \in T PROVE \E k \in Spawned : t = n + k
      <3>1. t \in (n + 1)..(n + l) /\ IsTicket(h[t])
        BY <1>2, <1>3
      <3>2. t - n \in 1..l /\ t = n + (t - n)
        BY <1>2, <3>1
      <3>3. t - n \in Spawned
        BY <1>5, <3>1, <3>2
      <3> QED
        BY <3>2, <3>3
    <2>3. ASSUME NEW k \in Spawned PROVE n + k \in T
      <3>1. k \in 1..l /\ IsTicket(h[n + k])
        BY <1>5, <2>1
      <3>2. n + k \in (Len(h) - l + 1)..Len(h)
        BY <1>2, <1>3, <3>1
      <3> QED
        BY <3>1, <3>2
    <2> QED
      BY <2>2, <2>3
  <1>7. Cardinality(T) = Cardinality(Spawned)
    <2>1. IsFiniteSet(Spawned) /\ Spawned \in SUBSET Nat
      BY <1>2, SpawnedFinite
    <2>2. Cardinality({n + k : k \in Spawned}) = Cardinality(Spawned)
      BY <1>2, <2>1, Shifted
    <2> QED
      BY <1>6, <2>2
  <1> QED
    BY <1>7 DEF NewTickets, h, l

\* Only a call that spawns gives out a ticket.
LEMMA RunCallCounts ==
    ASSUME StreamInv, ProviderStreamAssumption, Slots, Counted, NEW k, RunCall(k)
    PROVE  Counted'
  <1>1. /\ pc = "batch" /\ k \in DOMAIN slots /\ slots[k] = Empty
        /\ UNCHANGED <<got, pc, tallies>>
    BY RunCallIs
  <1>2. PICK ok \in BOOLEAN :
          /\ slots' = [slots EXCEPT ![k] = [ok |-> ok, seen |-> file']]
          /\ IF ok THEN Does(Calling[k])
             ELSE Refused(Calling[k]) \/ (Calling[k].arg # NoArg /\ Bash(Calling[k]))
    BY RunCallIs
  <1>3. Calling' = Calling /\ DOMAIN slots' = DOMAIN slots /\ DOMAIN slots = DOMAIN Calling
    BY <1>1, <1>2 DEF Calling, Slots
  <1>4. slots'[k] = [ok |-> ok, seen |-> file'] /\ \A j \in DOMAIN slots : j # k => slots'[j] = slots[j]
    BY <1>1, <1>2
  <1>5. slots'[k] # Empty /\ slots'[k].ok = ok
    BY <1>4, FilledSlot
  <1>6. Empty' = Empty
    BY DEF Empty
  <1>7. tickets' = IF ok /\ Calling[k].tool = "spawn" THEN tickets + 1 ELSE tickets
    <2>1. CASE ok
      <3>1. Does(Calling[k])
        BY <1>2, <2>1
      <3> QED
        BY <2>1, <3>1 DEF Does, Looks, TodoWrite, Asks, Spawns, Reports, Writes, Edits, Bash, effects
    <2>2. CASE ~ok
      <3>1. Refused(Calling[k]) \/ Bash(Calling[k])
        BY <1>2, <2>2
      <3> QED
        BY <2>2, <3>1 DEF Refused, Bash, effects
    <2> QED
      BY <2>1, <2>2
  <1>8. Spawned' = IF ok /\ Calling[k].tool = "spawn" THEN Spawned \cup {k} ELSE Spawned
    <2>1. k \notin Spawned
      BY <1>1 DEF Spawned
    <2>2. \A j \in DOMAIN slots : j # k => (j \in Spawned' <=> j \in Spawned)
      BY <1>3, <1>4, <1>6, Zenon DEF Spawned
    <2>3. k \in Spawned' <=> ok /\ Calling[k].tool = "spawn"
      BY <1>1, <1>3, <1>5, <1>6, Zenon DEF Spawned
    <2>4. Spawned \subseteq DOMAIN slots /\ Spawned' \subseteq DOMAIN slots
      BY <1>3, Zenon DEF Spawned
    <2> HIDE DEF Spawned
    <2>5. CASE ok /\ Calling[k].tool = "spawn"
      <3>1. Spawned' = Spawned \cup {k}
        BY <1>1, <2>2, <2>3, <2>4, <2>5
      <3> QED
        BY <2>5, <3>1
    <2>6. CASE ~(ok /\ Calling[k].tool = "spawn")
      <3>1. Spawned' = Spawned
        BY <2>1, <2>2, <2>3, <2>4, <2>6
      <3> QED
        BY <2>6, <3>1
    <2> QED
      BY <2>5, <2>6
  <1>9. /\ IsFiniteSet(Spawned) /\ Cardinality(Spawned) \in Nat /\ k \notin Spawned
        /\ Cardinality(Spawned \cup {k}) = Cardinality(Spawned) + 1
    <2>1. IsFiniteSet(Spawned) /\ Cardinality(Spawned) \in Nat
      BY <1>3, SpawnedFinite
    <2>2. k \notin Spawned
      BY <1>1 DEF Spawned
    <2> QED
      BY <2>1, <2>2, FS_AddElement
  <1>10. Tallies /\ Counting(Cardinality(Spawned))
    BY <1>1 DEF Counted
  <1>11. Tallies' /\ Awaited' - Cardinality(Spawned') = Awaited - Cardinality(Spawned)
    <2>1. CASE ok /\ Calling[k].tool = "spawn"
      BY <1>1, <1>7, <1>8, <1>9, <1>10, <2>1 DEF Tallies, Awaited, tallies
    <2>2. CASE ~(ok /\ Calling[k].tool = "spawn")
      BY <1>1, <1>7, <1>8, <1>9, <1>10, <2>2 DEF Tallies, Awaited, tallies
    <2> QED
      BY <2>1, <2>2
  <1> QED
    BY <1>1, <1>10, <1>11 DEF Counted, Counting, tallies

LEMMA CountedStep ==
    ASSUME StreamInv, ProviderStreamAssumption, Slots, Told, Counted, Next \/ UNCHANGED vars
    PROVE  Counted'
  <1>1. ASSUME pc # "batch", pc' # "batch", UNCHANGED <<tickets, tallies>> PROVE Counted'
    BY <1>1 DEF Counted, Counting, Tallies, Awaited, tallies
  <1>2. ASSUME NEW letter, Send(letter) PROVE Counted'
    BY <1>1, <1>2 DEF Send, effects, kidVars
  <1>3. CASE ReadsMail
    <2>1. pc = "head" /\ pc' \in {"head", "returned"} /\ UNCHANGED <<tickets, tallies>>
      BY <1>3, Zenon DEF ReadsMail, AtHead, effects, kidVars
    <2> QED
      BY <1>1, <2>1
  <1>4. CASE ReadsNote
    <2>1. /\ pc = "head" /\ pc' = "head" /\ tickets' = tickets
          /\ pending' = IF pending = 0 THEN 0 ELSE pending - 1
          /\ \/ Awaited > 0 /\ settled' = settled + 1 /\ UNCHANGED <<lapsed, late>>
             \/ lapsed > 0 /\ lapsed' = lapsed - 1 /\ late' = late + 1 /\ UNCHANGED settled
      BY <1>4, Zenon DEF ReadsNote, AtHead, effects
    <2>2. Tallies /\ Counting(0)
      BY <2>1 DEF Counted
    <2>3. Tallies' /\ Counting(0)'
      BY <2>1, <2>2 DEF Tallies, Counting, Awaited
    <2> QED
      BY <2>1, <2>3 DEF Counted
  <1>12. CASE GivesUpWaiting
    <2>1. /\ pc = "head" /\ pc' = "head" /\ tickets' = tickets
          /\ pending' = 0 /\ lapsed' = lapsed + Awaited /\ UNCHANGED <<settled, late>>
      BY <1>12, Zenon DEF GivesUpWaiting, AtHead, effects
    <2>2. Tallies /\ Counting(0)
      BY <2>1 DEF Counted
    <2>3. Awaited \in Nat
      BY <2>2 DEF Tallies, Counting, Awaited
    <2>4. Tallies' /\ Awaited' = 0
      BY <2>1, <2>2, <2>3 DEF Tallies, Awaited
    <2> QED
      BY <2>1, <2>4 DEF Counted, Counting, Tallies
  <1>5. ASSUME NEW reply, AsksProvider(reply) PROVE Counted'
    <2>1. pc = "head" /\ pc' = "stream" /\ UNCHANGED <<tickets, tallies>>
      BY <1>5, Zenon DEF AsksProvider, effects, kidVars
    <2> QED
      BY <1>1, <2>1
  <1>6. CASE Receives
    <2>1. pc = "stream" /\ pc' = "stream" /\ UNCHANGED <<tickets, tallies>>
      BY <1>6, Zenon DEF Receives, effects, kidVars
    <2> QED
      BY <1>1, <2>1
  <1>7. CASE ReplyFails \/ ReplyIsText
    <2>1. pc = "stream" /\ pc' \in {"head", "returned"} /\ UNCHANGED <<tickets, tallies>>
      BY <1>7, Zenon DEF ReplyFails, ReplyIsText, RestOfReply, effects, kidVars
    <2> QED
      BY <1>1, <2>1
  <1>8. CASE ReplyHasCalls
    <2>1. /\ pc = "stream" /\ pc' = "batch" /\ UNCHANGED <<tickets, tallies>>
          /\ slots' = [k \in DOMAIN Calling |->
                         IF Calling[k].tool \in Parallel \cup Serial THEN Empty
                         ELSE [ok |-> FALSE, seen |-> file]]
          /\ got' = [got EXCEPT !.flight = <<>>]
      BY <1>8, Zenon DEF ReplyHasCalls, RestOfReply, effects, kidVars
    <2>2. got = [flight |-> got.flight, calls |-> got.calls]
      BY DEF StreamInv, Gathered
    <2>3. Calling' = Calling
      BY <2>1, <2>2 DEF Calling
    <2>4. ASSUME NEW k \in Spawned' PROVE FALSE
      <3>1. k \in DOMAIN slots' /\ Calling[k].tool = "spawn" /\ slots'[k] # Empty /\ k \in DOMAIN Calling
        BY <2>1, <2>3, <2>4, Zenon DEF Spawned, Empty
      <3>2. Calling[k].tool \in Parallel
        BY <3>1 DEF Parallel
      <3> QED
        BY <2>1, <3>1, <3>2
    <2>5. Spawned' = {}
      BY <2>4
    <2>6. Cardinality(Spawned') = 0
      BY <2>5, FS_EmptySet
    <2> QED
      BY <2>1, <2>6 DEF Counted, Counting, Tallies, Awaited, tallies
  <1>9. ASSUME NEW k, RunCall(k) PROVE Counted'
    BY <1>9, RunCallCounts
  <1>10. CASE BatchDone
    <2>1. /\ pc = "batch" /\ pc' = "head" /\ UNCHANGED <<tickets, settled, lapsed, late>>
          /\ pending' = pending + NewTickets(history \o Results)
      BY <1>10 DEF BatchDone
    <2>2. NewTickets(history \o Results) = Cardinality(Spawned)
      BY <1>10, NewTicketsAre
    <2>3. Cardinality(Spawned) \in Nat
      BY <2>1, SpawnedFinite DEF Slots
    <2> QED
      BY <2>1, <2>2, <2>3 DEF Counted, Counting, Tallies, Awaited
  <1>11. CASE UNCHANGED vars
    <2>1. UNCHANGED <<tickets, tallies, pc, slots, got>>
      BY <1>11 DEF vars, effects, kidVars, streamVars
    <2>2. Spawned' = Spawned
      BY <2>1, Zenon DEF Spawned, Calling, Empty
    <2> QED
      BY <2>1, <2>2 DEF Counted, Counting, Tallies, Awaited, tallies
  <1> QED
    BY <1>2, <1>3, <1>4, <1>5, <1>6, <1>7, <1>8, <1>9, <1>10, <1>11, <1>12, Zenon DEF Next

\* Between batches the Task counts the tickets it awaits, although a provider may
\* give every batch the same ids and waits may time out; each result of a sub-task
\* that was given up takes at most one from the count (Task::run,
\* handle_tool_call_turn, drain_subtask_notifications).
THEOREM PendingCounts == Spec => []PendingCountsTickets
  <1>1. Init => Counted
    BY DEF Init, Counted, Counting, Tallies, Awaited
  <1>2. TurnInv /\ Counted /\ [Next]_vars => Counted'
    BY CountedStep, ProviderStreamAssumption DEF TurnInv
  <1>3. Counted => PendingCountsTickets
    BY DEF Counted, Counting, Tallies, Awaited, PendingCountsTickets
  <1> QED
    BY <1>1, <1>2, <1>3, TurnInvariant, PTL DEF Spec

-----------------------------------------------------------------------------
(* The order of a batch *)

LEMMA Least ==
    ASSUME NEW T \in SUBSET Nat, T # {}
    PROVE  \E x \in T : \A y \in T : x <= y
  <1>1. IsWellFoundedOn(OpToRel(<, Nat), Nat)
    BY NatLessThanWellFounded
  <1>2. PICK x \in T : \A y \in T : ~ (<<y, x>> \in OpToRel(<, Nat))
    BY <1>1, WFMin
  <1>3. \A y \in T : ~(y < x)
    BY <1>2 DEF OpToRel
  <1> QED
    BY <1>3

Highest(S) == CHOOSE j \in S : \A i \in S : i <= j

LEMMA HighestExists ==
    ASSUME NEW n \in Nat, NEW S \in SUBSET (1..n), S # {}
    PROVE  Highest(S) \in S /\ \A i \in S : i <= Highest(S)
  <1> DEFINE T == {n - i : i \in S}
  <1>1. T \in SUBSET Nat /\ T # {}
    <2>1. \A i \in S : n - i \in Nat
      OBVIOUS
    <2>2. PICK i \in S : TRUE
      OBVIOUS
    <2>3. n - i \in T
      BY <2>2
    <2> QED
      BY <2>1, <2>3
  <1>2. PICK x \in T : \A y \in T : x <= y
    BY <1>1, Least
  <1>3. PICK j \in S : x = n - j
    OBVIOUS
  <1>4. \A i \in S : n - j <= n - i
    BY <1>2, <1>3
  <1>5. \A i \in S : i <= j
    BY <1>4
  <1>6. \E k \in S : \A i \in S : i <= k
    BY <1>5
  <1> QED
    BY <1>6 DEF Highest

LEMMA HighestIs ==
    ASSUME NEW S \in SUBSET Nat, NEW k \in S, \A i \in S : i <= k
    PROVE  Highest(S) = k
  <1>1. Highest(S) \in S /\ \A i \in S : i <= Highest(S)
    BY DEF Highest
  <1>2. Highest(S) \in Nat /\ k \in Nat /\ k <= Highest(S) /\ Highest(S) <= k
    BY <1>1
  <1> QED
    BY <1>2

\* The text behind the writers S, when the slots are f and it was x before.
Behind(f, x, S) == IF S = {} THEN x ELSE f[Highest(S)].seen

LEMMA BehindSame ==
    ASSUME NEW n \in Nat, NEW S \in SUBSET (1..n), NEW f, NEW g, NEW x,
           \A i \in S : g[i] = f[i]
    PROVE  Behind(g, x, S) = Behind(f, x, S)
  <1>1. CASE S # {}
    BY <1>1, HighestExists DEF Behind
  <1>2. CASE S = {}
    BY <1>2 DEF Behind
  <1> QED
    BY <1>1, <1>2

LEMMA BehindLast ==
    ASSUME NEW S \in SUBSET Nat, NEW k \in S, \A i \in S : i <= k, NEW f, NEW x
    PROVE  Behind(f, x, S) = f[k].seen
  BY HighestIs DEF Behind

Tool(k) == Calling[k].tool
Full(k) == slots[k] # Empty

\* The order of dispatch_batch: whoever writes comes after all that read, and
\* among themselves both go by their places.
Ordered ==
    /\ \A k \in DOMAIN slots : Tool(k) \notin Parallel \cup Serial => Full(k) /\ ~slots[k].ok
    /\ \A j, k \in DOMAIN slots :
         /\ Tool(j) \in Serial /\ Full(j) /\ Tool(k) \in Parallel => Full(k)
         /\ Tool(j) \in Serial /\ Tool(k) \in Serial /\ j < k /\ Full(k) => Full(j)
         /\ Tool(j) \in Parallel /\ Tool(k) \in Parallel /\ j < k /\ Full(k) => Full(j)

\* The writers that have run, and the notes that were taken.
Through == {k \in Writers : Full(k)}
Noted   == {k \in DOMAIN slots : Tool(k) = "note" /\ Full(k) /\ slots[k].ok}

Acted(k) ==
    Tool(k) # "bash" =>
      /\ ~slots[k].ok => slots[k].seen = Behind(slots, before.file, Earlier(k))
      /\ slots[k].ok => /\ slots[k].seen = Calling[k].arg
                        /\ Tool(k) = "edit" =>
                             Behind(slots, before.file, Earlier(k)) = said[Calling[k].index].old

\* What the calls that have run left, and nothing else did.
Effects ==
    /\ \A k \in DOMAIN slots : Tool(k) = "look" /\ Full(k) => slots[k].seen = before.file
    /\ \A k \in Through : Acted(k)
    /\ file = Behind(slots, before.file, Through)
    /\ todo = IF Noted = {} THEN before.todo ELSE Calling[Highest(Noted)].arg

Serially == pc = "batch" => Ordered /\ Effects

LEMMA Kinds ==
    /\ Serial \cap Parallel = {} /\ {"look", "note", "spawn"} \subseteq Parallel
    /\ Serial = {"write", "edit", "bash"}
  BY DEF Serial, Parallel

LEMMA ReplyHasCallsSerial ==
    ASSUME StreamInv, ReplyHasCalls
    PROVE  Ordered' /\ Effects'
  <1>1. /\ slots' = [k \in DOMAIN Calling |->
                         IF Calling[k].tool \in Parallel \cup Serial THEN Empty
                         ELSE [ok |-> FALSE, seen |-> file]]
        /\ got' = [got EXCEPT !.flight = <<>>]
        /\ before' = [file |-> file, todo |-> todo] /\ UNCHANGED <<file, todo>>
    BY Zenon DEF ReplyHasCalls, RestOfReply, effects
  <1>2. Calling' = Calling /\ DOMAIN slots' = DOMAIN Calling
    <2>1. got = [flight |-> got.flight, calls |-> got.calls]
      BY DEF StreamInv, Gathered
    <2> QED
      BY <1>1, <2>1 DEF Calling
  <1>3. ASSUME NEW k \in DOMAIN slots'
        PROVE  IF Tool(k)' \in Parallel \cup Serial THEN ~Full(k)'
               ELSE Full(k)' /\ slots'[k].ok = FALSE
    <2>1. slots'[k] = IF Tool(k)' \in Parallel \cup Serial THEN Empty ELSE [ok |-> FALSE, seen |-> file]
      BY <1>1, <1>2 DEF Tool
    <2>2. [ok |-> FALSE, seen |-> file] # Empty /\ [ok |-> FALSE, seen |-> file].ok = FALSE
      BY FilledSlot
    <2>3. Full(k)' <=> slots'[k] # Empty
      BY DEF Full, Empty
    <2> QED
      BY <2>1, <2>2, <2>3
  <1>4. Ordered'
    <2>1. \A k \in DOMAIN slots' : Tool(k)' \notin Parallel \cup Serial => Full(k)' /\ ~slots'[k].ok
      BY <1>3
    <2>2. \A k \in DOMAIN slots' : Tool(k)' \in Serial \/ Tool(k)' \in Parallel => ~Full(k)'
      BY <1>3
    <2> QED
      BY <2>1, <2>2, Zenon DEF Ordered, Serial, Parallel
  <1>5. Through' = {} /\ Noted' = {}
    <2>1. \A k \in DOMAIN slots' : Tool(k)' \in Serial \/ Tool(k)' = "note" => ~Full(k)'
      BY <1>3, Kinds
    <2> QED
      BY <2>1 DEF Through, Noted, Writers, Tool, Serial
  <1>6. \A k \in DOMAIN slots' : Tool(k)' = "look" => ~Full(k)'
    BY <1>3, Kinds
  <1>7. before'.file = file' /\ before'.todo = todo'
    BY <1>1
  <1> HIDE DEF Ordered
  <1> QED
    BY <1>4, <1>5, <1>6, <1>7 DEF Effects, Behind

\* A call takes its turn: its kind's order says who has run.
LEMMA Turns ==
    ASSUME StreamInv, ProviderStreamAssumption, Slots, pc = "batch", Ordered,
           NEW k \in DOMAIN slots, Next1(k)
    PROVE  /\ DOMAIN slots = 1..Len(Calling) /\ Len(Calling) \in Nat /\ ~Full(k)
           /\ \/ /\ Tool(k) \in Parallel
                 /\ \A j \in DOMAIN slots : Tool(j) \in Serial => ~Full(j)
                 /\ \A j \in DOMAIN slots : Tool(j) \in Parallel /\ j < k => Full(j)
                 /\ \A j \in DOMAIN slots : Tool(j) \in Parallel /\ Full(j) => j < k
              \/ /\ Tool(k) \in Serial
                 /\ \A j \in DOMAIN slots : Tool(j) \in Parallel => Full(j)
                 /\ \A j \in DOMAIN slots : Tool(j) \in Serial /\ j < k => Full(j)
                 /\ \A j \in DOMAIN slots : Tool(j) \in Serial /\ Full(j) => j < k
  <1>1. DOMAIN slots = 1..Len(Calling) /\ Len(Calling) \in Nat
    BY CallingType DEF Slots
  <1>2. ~Full(k)
    BY DEF Next1, Waits, Full
  <1>3. CASE Waits(k, Parallel) /\ \A j \in 1..(k - 1) : ~Waits(j, Parallel)
    <2>1. Tool(k) \in Parallel
      BY <1>3 DEF Waits, Tool
    <2>2. \A j \in DOMAIN slots : Tool(j) \in Serial => ~Full(j)
      BY <1>2, <2>1 DEF Ordered
    <2>3. \A j \in DOMAIN slots : Tool(j) \in Parallel /\ j < k => Full(j)
      BY <1>1, <1>3 DEF Waits, Tool, Full
    <2>4. \A j \in DOMAIN slots : Tool(j) \in Parallel /\ Full(j) => j < k
      <3>1. \A j \in DOMAIN slots : Tool(j) \in Parallel /\ Full(j) => ~(k < j) /\ j # k
        BY <1>2, <2>1 DEF Ordered
      <3> QED
        BY <1>1, <3>1
    <2> QED
      BY <1>1, <1>2, <2>1, <2>2, <2>3, <2>4
  <1>4. CASE /\ Waits(k, Serial)
             /\ \A j \in DOMAIN slots : ~Waits(j, Parallel)
             /\ \A j \in 1..(k - 1) : ~Waits(j, Serial)
    <2>1. Tool(k) \in Serial
      BY <1>4 DEF Waits, Tool
    <2>2. \A j \in DOMAIN slots : Tool(j) \in Parallel => Full(j)
      BY <1>4 DEF Waits, Tool, Full
    <2>3. \A j \in DOMAIN slots : Tool(j) \in Serial /\ j < k => Full(j)
      BY <1>1, <1>4 DEF Waits, Tool, Full
    <2>4. \A j \in DOMAIN slots : Tool(j) \in Serial /\ Full(j) => j < k
      <3>1. \A j \in DOMAIN slots : Tool(j) \in Serial /\ Full(j) => ~(k < j) /\ j # k
        BY <1>2, <2>1 DEF Ordered
      <3> QED
        BY <1>1, <3>1
    <2> QED
      BY <1>1, <1>2, <2>1, <2>2, <2>3, <2>4
  <1> QED
    BY <1>3, <1>4 DEF Next1

\* What the call does, by its kind.
LEMMA Doing ==
    ASSUME NEW k, NEW ok \in BOOLEAN,
           IF ok THEN Does(Calling[k])
           ELSE Refused(Calling[k]) \/ (Calling[k].arg # NoArg /\ Bash(Calling[k]))
    PROVE  /\ Tool(k) \in Parallel => file' = file
           /\ todo' = IF ok /\ Tool(k) = "note" THEN Calling[k].arg ELSE todo
           /\ Tool(k) \in Serial /\ Tool(k) # "bash" =>
                /\ ~ok => file' = file
                /\ ok => file' = Calling[k].arg
                         /\ (Tool(k) = "edit" => file = said[Calling[k].index].old)
  <1>1. CASE ok
    <2>1. Does(Calling[k])
      BY <1>1
    <2> QED
      BY <1>1, <2>1 DEF Does, Looks, TodoWrite, Asks, Spawns, Reports, Writes, Edits, Bash,
                        effects, Tool, Serial, Parallel
  <1>2. CASE ~ok
    <2>1. Refused(Calling[k]) \/ Bash(Calling[k])
      BY <1>2
    <2> QED
      BY <1>2, <2>1 DEF Refused, Bash, effects, Tool, Serial, Parallel
  <1> QED
    BY <1>1, <1>2

LEMMA RunCallSerial ==
    ASSUME StreamInv, ProviderStreamAssumption, Slots, Ordered, Effects, NEW k, RunCall(k)
    PROVE  Ordered' /\ Effects'
  <1> DEFINE n == Len(Calling)
  <1>1. /\ pc = "batch" /\ k \in DOMAIN slots /\ Next1(k) /\ slots[k] = Empty
        /\ UNCHANGED <<got, said, before>>
    BY RunCallIs
  <1>2. PICK ok \in BOOLEAN :
          /\ slots' = [slots EXCEPT ![k] = [ok |-> ok, seen |-> file']]
          /\ IF ok THEN Does(Calling[k])
             ELSE Refused(Calling[k]) \/ (Calling[k].arg # NoArg /\ Bash(Calling[k]))
    BY RunCallIs
  <1>3. Calling' = Calling /\ DOMAIN slots' = DOMAIN slots /\ DOMAIN slots = 1..n /\ n \in Nat
        /\ Tool(k) \in Parallel \cup Serial
    BY <1>1, <1>2, Turns DEF Calling
  <1> HIDE DEF n
  <1>4. slots'[k] = [ok |-> ok, seen |-> file'] /\ \A j \in DOMAIN slots : j # k => slots'[j] = slots[j]
    BY <1>1, <1>2
  <1>5. slots'[k] # Empty /\ slots'[k].ok = ok /\ slots'[k].seen = file'
    BY <1>4, FilledSlot
  <1>6. /\ \A j \in DOMAIN slots : Tool(j)' = Tool(j)
        /\ \A j \in DOMAIN slots : j # k => (Full(j)' <=> Full(j))
        /\ Full(k)' /\ ~Full(k)
    BY <1>1, <1>3, <1>4, <1>5, Zenon DEF Tool, Full, Empty
  <1>7. /\ Writers' = Writers /\ \A j : Earlier(j)' = Earlier(j)
        /\ Writers \subseteq 1..n
    <2>1. Writers' = Writers
      BY <1>3, Zenon DEF Writers, Serial
    <2>2. Writers \subseteq 1..n
      BY <1>3, Zenon DEF Writers
    <2> QED
      BY <2>1, <2>2, Zenon DEF Earlier
  <1>8. /\ Tool(k) \in Parallel => file' = file
        /\ todo' = IF ok /\ Tool(k) = "note" THEN Calling[k].arg ELSE todo
        /\ Tool(k) \in Serial /\ Tool(k) # "bash" =>
             /\ ~ok => file' = file
             /\ ok => file' = Calling[k].arg
                      /\ (Tool(k) = "edit" => file = said[Calling[k].index].old)
    BY <1>2, Doing
  <1>9. Parallel' = Parallel /\ Serial' = Serial
    BY DEF Parallel, Serial
  <1>10. \A j : j \in Writers <=> j \in DOMAIN slots /\ Tool(j) \in Serial
    BY Zenon DEF Writers, Tool
  <1>11. Noted \subseteq DOMAIN slots /\ k \notin Noted
         /\ Noted' = IF ok /\ Tool(k) = "note" THEN Noted \cup {k} ELSE Noted
    <2>1. Noted \subseteq DOMAIN slots /\ k \notin Noted /\ Noted' \subseteq DOMAIN slots
      BY <1>3, <1>6, Zenon DEF Noted
    <2>2. \A j \in DOMAIN slots : j # k => (j \in Noted' <=> j \in Noted)
      BY <1>3, <1>4, <1>6, Zenon DEF Noted
    <2>3. k \in Noted' <=> ok /\ Tool(k) = "note"
      BY <1>1, <1>3, <1>5, <1>6, Zenon DEF Noted
    <2> HIDE DEF Noted
    <2>4. CASE ok /\ Tool(k) = "note"
      <3>1. Noted' = Noted \cup {k}
        BY <1>1, <2>1, <2>2, <2>3, <2>4
      <3> QED
        BY <2>1, <2>4, <3>1
    <2>5. CASE ~(ok /\ Tool(k) = "note")
      <3>1. Noted' = Noted
        BY <1>1, <2>1, <2>2, <2>3, <2>5
      <3> QED
        BY <2>1, <2>5, <3>1
    <2> QED
      BY <2>4, <2>5
  <1>12. CASE /\ Tool(k) \in Parallel
              /\ \A j \in DOMAIN slots : Tool(j) \in Serial => ~Full(j)
              /\ \A j \in DOMAIN slots : Tool(j) \in Parallel /\ j < k => Full(j)
              /\ \A j \in DOMAIN slots : Tool(j) \in Parallel /\ Full(j) => j < k
    <2>1. Tool(k) \notin Serial
      BY <1>12, Kinds
    <2>2. \A j \in DOMAIN slots' : Tool(j)' \notin Parallel' \cup Serial' => Full(j)' /\ ~slots'[j].ok
      <3> SUFFICES ASSUME NEW j \in DOMAIN slots, Tool(j) \notin Parallel \cup Serial
                   PROVE  Full(j)' /\ ~slots'[j].ok
        BY <1>3, <1>6, <1>9
      <3>1. j # k /\ Full(j) /\ ~slots[j].ok
        BY <1>12 DEF Ordered
      <3> QED
        BY <1>4, <1>6, <3>1, Zenon
    <2>3. \A j \in DOMAIN slots : Tool(j) \in Serial => ~Full(j)'
      BY <1>6, <1>12, <2>1
    <2>4. \A i, j \in DOMAIN slots :
             Tool(i) \in Parallel /\ Tool(j) \in Parallel /\ i < j /\ Full(j)' => Full(i)'
      BY <1>6, <1>12, <1>1 DEF Ordered
    <2>5. Ordered'
      <3>1. \A i, j \in DOMAIN slots' :
              /\ Tool(i)' \in Serial' /\ Full(i)' /\ Tool(j)' \in Parallel' => Full(j)'
              /\ Tool(i)' \in Serial' /\ Tool(j)' \in Serial' /\ i < j /\ Full(j)' => Full(i)'
              /\ Tool(i)' \in Parallel' /\ Tool(j)' \in Parallel' /\ i < j /\ Full(j)' => Full(i)'
        BY <1>3, <1>6, <1>9, <2>3, <2>4
      <3> QED
        BY <2>2, <3>1, Zenon DEF Ordered
    <2>6. Through = {} /\ Through' = {}
      <3>1. \A j \in Writers : ~Full(j) /\ ~Full(j)'
        BY <1>10, <1>12, <2>3
      <3> QED
        BY <1>7, <3>1, Zenon DEF Through
    <2>7. file = before.file /\ file' = file
      BY <1>8, <1>12, <2>6 DEF Effects, Behind
    <2>8. \A j \in DOMAIN slots' : Tool(j)' = "look" /\ Full(j)' => slots'[j].seen = before'.file
      <3> SUFFICES ASSUME NEW j \in DOMAIN slots, Tool(j) = "look", Full(j)'
                   PROVE  slots'[j].seen = before.file
        BY <1>1, <1>3, <1>6
      <3>1. CASE j = k
        BY <1>5, <2>7, <3>1
      <3>2. CASE j # k
        BY <1>4, <1>6, <3>2 DEF Effects
      <3> QED
        BY <3>1, <3>2
    <2>9. todo' = IF Noted' = {} THEN before'.todo ELSE Calling'[Highest(Noted')].arg
      <3>1. CASE ok /\ Tool(k) = "note"
        <4>1. \A j \in Noted : Tool(j) \in Parallel /\ Full(j)
          BY Kinds DEF Noted
        <4>2. \A j \in Noted \cup {k} : j <= k
          BY <1>1, <1>3, <1>11, <1>12, <4>1
        <4>3. Noted \cup {k} \in SUBSET Nat
          BY <1>1, <1>3, <1>11
        <4>4. Highest(Noted \cup {k}) = k
          BY <4>2, <4>3, HighestIs
        <4>5. Noted' = Noted \cup {k} /\ todo' = Calling[k].arg
          BY <1>8, <1>11, <3>1
        <4> QED
          BY <1>3, <4>4, <4>5
      <3>2. CASE ~(ok /\ Tool(k) = "note")
        <4>1. Noted' = Noted /\ todo' = todo
          BY <1>8, <1>11, <3>2
        <4> QED
          BY <1>1, <1>3, <4>1 DEF Effects
      <3> QED
        BY <3>1, <3>2
    <2>10. file' = Behind(slots', before'.file, Through')
      BY <1>1, <2>6, <2>7 DEF Behind
    <2>11. \A j \in Through' : Acted(j)'
      BY <2>6
    <2>12. Effects'
      BY <2>8, <2>9, <2>10, <2>11, Zenon DEF Effects, Behind, Highest
    <2> QED
      BY <2>5, <2>12
  <1>13. CASE /\ Tool(k) \in Serial
              /\ \A j \in DOMAIN slots : Tool(j) \in Parallel => Full(j)
              /\ \A j \in DOMAIN slots : Tool(j) \in Serial /\ j < k => Full(j)
              /\ \A j \in DOMAIN slots : Tool(j) \in Serial /\ Full(j) => j < k
    <2>1. Tool(k) \notin Parallel /\ Tool(k) \notin {"note", "look"}
      BY <1>13, Kinds
    <2>2. \A j \in DOMAIN slots' : Tool(j)' \notin Parallel' \cup Serial' => Full(j)' /\ ~slots'[j].ok
      <3> SUFFICES ASSUME NEW j \in DOMAIN slots, Tool(j) \notin Parallel \cup Serial
                   PROVE  Full(j)' /\ ~slots'[j].ok
        BY <1>3, <1>6, <1>9
      <3>1. j # k /\ Full(j) /\ ~slots[j].ok
        BY <1>13 DEF Ordered
      <3> QED
        BY <1>4, <1>6, <3>1, Zenon
    <2>3. \A j \in DOMAIN slots : Tool(j) \in Parallel => Full(j)'
      BY <1>6, <1>13, <2>1
    <2>4. \A i, j \in DOMAIN slots :
             Tool(i) \in Serial /\ Tool(j) \in Serial /\ i < j /\ Full(j)' => Full(i)'
      BY <1>6, <1>13, <1>1 DEF Ordered
    <2>5. Ordered'
      <3>1. \A i, j \in DOMAIN slots' :
              /\ Tool(i)' \in Serial' /\ Full(i)' /\ Tool(j)' \in Parallel' => Full(j)'
              /\ Tool(i)' \in Serial' /\ Tool(j)' \in Serial' /\ i < j /\ Full(j)' => Full(i)'
              /\ Tool(i)' \in Parallel' /\ Tool(j)' \in Parallel' /\ i < j /\ Full(j)' => Full(i)'
        BY <1>3, <1>6, <1>9, <2>3, <2>4
      <3> QED
        BY <2>2, <3>1, Zenon DEF Ordered
    <2>6. Through = Earlier(k) /\ Through' = Through \cup {k} /\ k \notin Through
      <3>1. \A j : j \in Through <=> j \in Writers /\ Full(j)
        BY Zenon DEF Through
      <3>2. \A j : j \in Through' <=> j \in Writers /\ Full(j)'
        BY <1>7, Zenon DEF Through
      <3>3. \A j : j \in Earlier(k) <=> j \in Writers /\ j < k
        BY Zenon DEF Earlier
      <3>4. \A j \in Writers : (Full(j) <=> j < k) /\ (Full(j)' <=> Full(j) \/ j = k)
        BY <1>6, <1>10, <1>13
      <3>5. k \in Writers /\ ~Full(k)
        BY <1>1, <1>6, <1>10, <1>13
      <3>6. \A j : j \in Through <=> j \in Earlier(k)
        BY <3>1, <3>3, <3>4, Zenon
      <3>7. \A j : j \in Through' <=> j \in Through \/ j = k
        BY <3>1, <3>2, <3>4, <3>5, Zenon
      <3>8. k \notin Through
        BY <3>1, <3>5, Zenon
      <3> HIDE DEF Through, Earlier
      <3> QED
        BY <3>6, <3>7, <3>8
    <2>7. Through \in SUBSET (1..n) /\ k \in 1..n /\ \A j \in Through : j < k
      <3>1. \A j \in Through : j \in Writers /\ j < k
        BY <2>6, Zenon DEF Earlier
      <3> QED
        BY <1>1, <1>3, <1>7, <3>1
    <2>8. \A j \in 1..n : j <= k => /\ Earlier(j) \in SUBSET (1..n)
                                  /\ \A i \in Earlier(j) : slots'[i] = slots[i]
      <3> SUFFICES ASSUME NEW j \in 1..n, j <= k
                   PROVE  Earlier(j) \in SUBSET (1..n) /\ \A i \in Earlier(j) : slots'[i] = slots[i]
        OBVIOUS
      <3>1. \A i \in Earlier(j) : i \in Writers /\ i < j
        BY Zenon DEF Earlier
      <3>2. ASSUME NEW i \in Earlier(j) PROVE i \in 1..n /\ i # k
        <4>1. i \in 1..n /\ i < j
          BY <1>7, <3>1
        <4> HIDE DEF Earlier
        <4> QED
          BY <1>3, <2>7, <4>1
      <3> QED
        BY <1>3, <1>4, <3>2
    <2>9. \A j \in 1..n : j <= k =>
             Behind(slots', before'.file, Earlier(j)') = Behind(slots, before.file, Earlier(j))
      BY <1>1, <1>3, <1>7, <2>8, BehindSame
    <2>10. file = Behind(slots, before.file, Earlier(k))
      BY <2>6 DEF Effects
    <2>11. ASSUME NEW j \in Through' PROVE Acted(j)'
      <3>1. CASE j = k
        <4>1. Behind(slots', before'.file, Earlier(k)') = file
          BY <2>7, <2>9, <2>10
        <4>2. Tool(k)' # "bash" =>
                /\ ~slots'[k].ok => slots'[k].seen = file
                /\ slots'[k].ok => /\ slots'[k].seen = Calling'[k].arg
                                   /\ Tool(k)' = "edit" => file = said'[Calling'[k].index].old
          BY <1>1, <1>3, <1>5, <1>6, <1>8, <1>13
        <4> QED
          BY <3>1, <4>1, <4>2, Zenon DEF Acted, Behind, Highest, Earlier, Writers, Serial
      <3>2. CASE j # k
        <4>1. j \in Through
          BY <2>6, <2>11, <3>2
        <4>2. j \in DOMAIN slots /\ j \in 1..n /\ j <= k
          BY <1>3, <2>7, <4>1
        <4>3. slots'[j] = slots[j] /\ Tool(j)' = Tool(j) /\ Calling' = Calling /\ said' = said
          BY <1>1, <1>3, <1>4, <1>6, <3>2, <4>2
        <4>4. Behind(slots', before'.file, Earlier(j)') = Behind(slots, before.file, Earlier(j))
          BY <2>9, <4>2
        <4>5. Acted(j)
          BY <4>1 DEF Effects
        <4> QED
          BY <4>3, <4>4, <4>5, Zenon DEF Acted, Behind, Highest, Earlier, Writers, Serial
      <3> QED
        BY <3>1, <3>2
    <2>12. \A j \in DOMAIN slots' : Tool(j)' = "look" /\ Full(j)' => slots'[j].seen = before'.file
      <3> SUFFICES ASSUME NEW j \in DOMAIN slots, Tool(j) = "look", Full(j)'
                   PROVE  slots'[j].seen = before.file
        BY <1>1, <1>3, <1>6
      <3>1. j # k
        BY <2>1
      <3> QED
        BY <1>4, <1>6, <3>1 DEF Effects
    <2>13. todo' = IF Noted' = {} THEN before'.todo ELSE Calling'[Highest(Noted')].arg
      <3>1. Noted' = Noted /\ todo' = todo
        BY <1>8, <1>11, <2>1
      <3> QED
        BY <1>1, <1>3, <3>1 DEF Effects
    <2>14. file' = Behind(slots', before'.file, Through')
      <3>1. \A j \in Through \cup {k} : j <= k
        BY <2>7
      <3>2. Through \cup {k} \in SUBSET Nat
        BY <2>7
      <3>3. Behind(slots', before'.file, Through \cup {k}) = slots'[k].seen
        BY <3>1, <3>2, BehindLast
      <3> QED
        BY <1>5, <2>6, <3>3
    <2>15. Effects'
      BY <2>11, <2>12, <2>13, <2>14, Zenon DEF Effects, Behind, Highest
    <2> QED
      BY <2>5, <2>15
  <1> QED
    BY <1>1, <1>12, <1>13, Turns

LEMMA SeriallyStep ==
    ASSUME StreamInv, ProviderStreamAssumption, Slots, Serially, Next \/ UNCHANGED vars
    PROVE  Serially'
  <1>1. CASE ReplyHasCalls
    BY <1>1, ReplyHasCallsSerial DEF Serially
  <1>2. ASSUME NEW k \in Index, RunCall(k) PROVE Serially'
    <2>1. pc = "batch"
      BY <1>2, RunCallIs
    <2> QED
      BY <1>2, <2>1, RunCallSerial DEF Serially
  <1>3. CASE \/ \E reply \in Reply : AsksProvider(reply)
             \/ Receives \/ ReplyFails \/ ReplyIsText \/ BatchDone
    <2>1. pc' # "batch"
      <3>1. ASSUME NEW reply, AsksProvider(reply) PROVE pc' = "stream"
        BY <3>1 DEF AsksProvider
      <3>2. ASSUME Receives PROVE pc' = "stream"
        BY <3>2 DEF Receives
      <3>3. ASSUME ReplyFails PROVE pc' = "returned"
        BY <3>3 DEF ReplyFails
      <3>4. ASSUME ReplyIsText PROVE pc' \in {"returned", "head"}
        BY <3>4, Zenon DEF ReplyIsText
      <3>5. ASSUME BatchDone PROVE pc' = "head"
        BY <3>5 DEF BatchDone
      <3> QED
        BY <1>3, <3>1, <3>2, <3>3, <3>4, <3>5
    <2> QED
      BY <2>1 DEF Serially
  <1>4. CASE /\ UNCHANGED <<dialect, streamVars, turn, slots, effects, before>>
             /\ pc' = pc \/ (pc = "head" /\ pc' = "returned")
    <2>1. UNCHANGED <<said, got, slots, file, todo, before>>
      BY <1>4 DEF streamVars, effects
    <2>2. Writers' = Writers /\ Through' = Through /\ Noted' = Noted /\ \A j : Earlier(j)' = Earlier(j)
      <3>1. Writers' = Writers
        BY <2>1, Zenon DEF Writers, Calling, Serial
      <3> QED
        BY <2>1, <3>1, Zenon DEF Through, Noted, Earlier, Full, Tool, Calling, Empty
    <2>3. Ordered' <=> Ordered
      <3>1. \A k : Tool(k)' = Tool(k) /\ (Full(k)' <=> Full(k))
        BY <2>1, Zenon DEF Full, Tool, Calling, Empty
      <3>2. Serial' = Serial /\ Parallel' = Parallel /\ slots' = slots
        BY <2>1 DEF Serial, Parallel
      <3> QED
        BY <3>1, <3>2 DEF Ordered
    <2>4. \A j : Acted(j)' <=> Acted(j)
      BY <2>1, <2>2, Zenon DEF Acted, Behind, Highest, Tool, Calling
    <2>5. Effects' <=> Effects
      BY <2>1, <2>2, <2>4, Zenon DEF Effects, Behind, Highest, Tool, Full, Calling, Empty
    <2> QED
      BY <1>4, <2>3, <2>5 DEF Serially
  <1> QED
    BY <1>1, <1>2, <1>3, <1>4, Elsewhere

LEMMA SeriallyIs ==
    ASSUME Slots, Serially
    PROVE  BatchIsSerial
  <1> SUFFICES ASSUME pc = "batch", \A k \in DOMAIN slots : slots[k] # Empty
               PROVE  /\ \A k \in DOMAIN slots : Calling[k].tool = "look" => slots[k].seen = before.file
                      /\ \A k \in Writers : Calling[k].tool # "bash" =>
                           /\ ~slots[k].ok => slots[k].seen = Left(Earlier(k))
                           /\ slots[k].ok =>
                                /\ slots[k].seen = Calling[k].arg
                                /\ Calling[k].tool = "edit" =>
                                     Left(Earlier(k)) = said[Calling[k].index].old
                      /\ file = Left(Writers)
                      /\ todo = IF Notes = {} THEN before.todo
                                ELSE Calling[CHOOSE j \in Notes : \A i \in Notes : i <= j].arg
    BY DEF BatchIsSerial
  <1>1. Effects /\ \A k \in DOMAIN slots : Full(k)
    BY DEF Serially, Full
  <1>2. \A S : Left(S) = Behind(slots, before.file, S)
    BY Zenon DEF Left, Behind, Highest
  <1>3. Through = Writers /\ Noted = Notes
    <2>1. Through = Writers
      BY <1>1 DEF Through, Writers
    <2>2. Noted = Notes
      BY <1>1, Zenon DEF Noted, Notes, Tool
    <2> QED
      BY <2>1, <2>2
  <1>4. \A k \in DOMAIN slots : Calling[k].tool = "look" => slots[k].seen = before.file
    BY <1>1, Zenon DEF Effects, Tool
  <1>5. ASSUME NEW k \in Writers, Calling[k].tool # "bash"
        PROVE  /\ ~slots[k].ok => slots[k].seen = Left(Earlier(k))
               /\ slots[k].ok =>
                    /\ slots[k].seen = Calling[k].arg
                    /\ Calling[k].tool = "edit" =>
                         Left(Earlier(k)) = said[Calling[k].index].old
    <2>1. Acted(k)
      BY <1>1, <1>3 DEF Effects
    <2>2. Left(Earlier(k)) = Behind(slots, before.file, Earlier(k))
      BY <1>2
    <2> QED
      BY <1>5, <2>1, <2>2, Zenon DEF Acted, Tool
  <1>6. file = Left(Writers)
    BY <1>1, <1>2, <1>3 DEF Effects
  <1>7. todo = IF Notes = {} THEN before.todo
               ELSE Calling[CHOOSE j \in Notes : \A i \in Notes : i <= j].arg
    <2>1. todo = IF Notes = {} THEN before.todo ELSE Calling[Highest(Notes)].arg
      BY <1>1, <1>3 DEF Effects
    <2> QED
      BY <2>1 DEF Highest
  <1> QED
    BY <1>4, <1>5, <1>6, <1>7

\* However the calls of a batch are mixed, those that read see the file of the
\* batch's beginning, those that write act one upon the other in the order of
\* the reply, and the last accepted note is the todo list (dispatch_batch).
THEOREM BatchesAreSerial == Spec => []BatchIsSerial
  <1>1. Init => Serially
    BY DEF Init, Serially
  <1>2. TurnInv /\ Serially /\ [Next]_vars => Serially'
    BY SeriallyStep, ProviderStreamAssumption DEF TurnInv
  <1>3. TurnInv /\ Serially => BatchIsSerial
    BY SeriallyIs DEF TurnInv
  <1> QED
    BY <1>1, <1>2, <1>3, TurnInvariant, PTL DEF Spec

=============================================================================
