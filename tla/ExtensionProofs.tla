--------------------------- MODULE ExtensionProofs ---------------------------
(***************************************************************************)
(* Theorems about the extension points in the program that Library         *)
(* describes: which call an answer of an MCP server reaches, which hooks   *)
(* answer an event, what is loaded of an AGENTS.md.                        *)
(***************************************************************************)
EXTENDS Library, WellFoundedInduction, FiniteSetTheorems, SequenceTheorems, TLAPS

-----------------------------------------------------------------------------
(* Numbers and sequences *)

\* A set of numbers has a least one.
LEMMA Least ==
    ASSUME NEW T \in SUBSET Nat, T # {}
    PROVE  \E x \in T : \A y \in T : x <= y
  <1>1. IsWellFoundedOn(OpToRel(<, Nat), Nat)
    BY NatLessThanWellFounded
  <1>2. PICK x \in T : \A y \in T : ~ (<<y, x>> \in OpToRel(<, Nat))
    BY <1>1, WFMin
  <1>3. \A y \in T : ~(y < x)
    BY <1>2 DEF OpToRel
  <1> QED
    BY <1>3

\* An interval from one has one end.
LEMMA OneEnd ==
    \A m, n \in Nat : 1..m = 1..n => m = n
  <1> SUFFICES ASSUME NEW m \in Nat, NEW n \in Nat, 1..m = 1..n PROVE m = n
    OBVIOUS
  <1>1. m > 0 => m \in 1..n
    <2>1. m > 0 => m \in 1..m
      OBVIOUS
    <2> QED
      BY <2>1
  <1>2. n > 0 => n \in 1..m
    <2>1. n > 0 => n \in 1..n
      OBVIOUS
    <2> QED
      BY <2>1
  <1> QED
    BY <1>1, <1>2

\* What is at most less than another is less.
LEMMA AtMostLess ==
    \A l, m, n \in Nat : l <= m /\ m < n => l < n
  OBVIOUS

\* The number after another is a number, and is none of those up to it.
LEMMA OneAfter ==
    \A n \in Nat : n + 1 \in Nat /\ \A m \in Nat : m <= n => m <= n + 1 /\ m # n + 1
  OBVIOUS

\* A sequence has one length.
LEMMA SameLength ==
    \A X : \A s, t \in Seq(X) : DOMAIN s = DOMAIN t => Len(s) = Len(t)
  <1> SUFFICES ASSUME NEW X, NEW s \in Seq(X), NEW t \in Seq(X), DOMAIN s = DOMAIN t
               PROVE  Len(s) = Len(t)
    OBVIOUS
  <1>1. Len(s) \in Nat /\ Len(t) \in Nat /\ 1..Len(s) = 1..Len(t)
    OBVIOUS
  <1> QED
    BY <1>1, OneEnd

\* What stands in a sequence is of its set.
LEMMA Members ==
    \A X : \A s \in Seq(X) : /\ \A j \in DOMAIN s : s[j] \in X
                           /\ \A x \in ToSet(s) : x \in X
  <1> SUFFICES ASSUME NEW X, NEW s \in Seq(X)
               PROVE  /\ \A j \in DOMAIN s : s[j] \in X
                      /\ \A x \in ToSet(s) : x \in X
    OBVIOUS
  <1>1. \A j \in DOMAIN s : s[j] \in X
    OBVIOUS
  <1> QED
    BY <1>1 DEF ToSet

\* A sequence with one more element.
LEMMA Appended ==
    ASSUME NEW X, NEW s \in Seq(X), NEW x \in X
    PROVE  /\ Append(s, x) \in Seq(X)
           /\ \A y : y \in ToSet(Append(s, x)) <=> y \in ToSet(s) \/ y = x
  <1>1. Len(s) \in Nat /\ DOMAIN s = 1..Len(s)
    OBVIOUS
  <1>2. /\ Append(s, x) \in Seq(X) /\ DOMAIN Append(s, x) = 1..(Len(s) + 1)
        /\ \A k \in 1..Len(s) : Append(s, x)[k] = s[k]
        /\ Append(s, x)[Len(s) + 1] = x
    OBVIOUS
  <1>3. \A n \in Nat : \A k : k \in 1..(n + 1) <=> k \in 1..n \/ k = n + 1
    OBVIOUS
  <1>4. \A k : k \in 1..(Len(s) + 1) <=> k \in 1..Len(s) \/ k = Len(s) + 1
    BY <1>1, <1>3
  <1> QED
    BY <1>1, <1>2, <1>4, Zenon DEF ToSet

\* What follows a place of a sequence is a sequence.
LEMMA WhatFollows ==
    \A X : \A s \in Seq(X) : \A k \in 1..Len(s) : SubSeq(s, k + 1, Len(s)) \in Seq(X)
  <1> SUFFICES ASSUME NEW X, NEW s \in Seq(X), NEW k \in 1..Len(s)
               PROVE  SubSeq(s, k + 1, Len(s)) \in Seq(X)
    OBVIOUS
  <1>1. Len(s) \in Nat /\ k \in Nat /\ k <= Len(s) /\ \A i \in 1..Len(s) : s[i] \in X
    OBVIOUS
  <1>2. \A i \in (k + 1)..Len(s) : s[i] \in X
    BY <1>1
  <1> QED
    BY <1>1, <1>2, SubSeqProperties

\* Two sequences joined hold what each held.
LEMMA Joined ==
    ASSUME NEW X, NEW a \in Seq(X), NEW b \in Seq(X)
    PROVE  /\ a \o b \in Seq(X)
           /\ \A x \in ToSet(a) \cup ToSet(b) : x \in ToSet(a \o b)
  <1>1. /\ Len(a) \in Nat /\ Len(b) \in Nat /\ DOMAIN a = 1..Len(a) /\ DOMAIN b = 1..Len(b)
    OBVIOUS
  <1>2. a \o b \in Seq(X) /\ Len(a \o b) = Len(a) + Len(b)
    OBVIOUS
  <1>3. DOMAIN (a \o b) = 1..(Len(a) + Len(b))
    BY <1>2
  <1>4. \A k \in 1..Len(a) : k \in 1..(Len(a) + Len(b)) /\ (a \o b)[k] = a[k]
    BY <1>1
  <1>5. \A k \in 1..Len(b) : Len(a) + k \in 1..(Len(a) + Len(b)) /\ (a \o b)[Len(a) + k] = b[k]
    BY <1>1
  <1>6. \A x \in ToSet(a) : x \in ToSet(a \o b)
    BY <1>1, <1>3, <1>4, Zenon DEF ToSet
  <1>7. \A x \in ToSet(b) : x \in ToSet(a \o b)
    BY <1>1, <1>3, <1>5, Zenon DEF ToSet
  <1> QED
    BY <1>2, <1>6, <1>7

\* The members of a sequence are finitely many.
LEMMA FiniteMembers ==
    \A X : \A s \in Seq(X) : IsFiniteSet(ToSet(s))
  <1> SUFFICES ASSUME NEW X, NEW s \in Seq(X) PROVE IsFiniteSet(ToSet(s))
    OBVIOUS
  <1>1. DOMAIN s = 1..Len(s) /\ Len(s) \in Nat
    OBVIOUS
  <1>2. IsFiniteSet(1..Len(s))
    BY <1>1, FS_Interval
  <1>3. s \in Surjection(1..Len(s), ToSet(s))
    <2>1. s = [j \in 1..Len(s) |-> s[j]]
      BY <1>1
    <2>2. \A j \in 1..Len(s) : s[j] \in ToSet(s)
      BY <1>1 DEF ToSet
    <2>3. s \in [1..Len(s) -> ToSet(s)]
      BY <2>1, <2>2
    <2>4. \A x \in ToSet(s) : \E j \in 1..Len(s) : s[j] = x
      BY <1>1 DEF ToSet
    <2> QED
      BY <2>3, <2>4 DEF Surjection
  <1> QED
    BY <1>2, <1>3, FS_Surjection

\* Of two sequences joined, what is in the second is only in it, and what is in
\* neither is not in the whole.
LEMMA JoinedAt ==
    ASSUME NEW X, NEW a \in Seq(X), NEW b \in Seq(X)
    PROVE  /\ DOMAIN a = 1..Len(a) /\ Len(a) \in Nat
           /\ \A k \in DOMAIN (a \o b) :
                 \/ k \in DOMAIN a /\ (a \o b)[k] = a[k]
                 \/ k \notin DOMAIN a /\ \E j \in DOMAIN b : (a \o b)[k] = b[j]
  <1>1. /\ Len(a) \in Nat /\ Len(b) \in Nat /\ DOMAIN a = 1..Len(a) /\ DOMAIN b = 1..Len(b)
        /\ DOMAIN (a \o b) = 1..(Len(a) + Len(b))
    <2>1. a \o b \in Seq(X) /\ Len(a \o b) = Len(a) + Len(b)
      OBVIOUS
    <2> QED
      BY <2>1
  <1>2. \A k \in 1..(Len(a) + Len(b)) : (a \o b)[k] = IF k <= Len(a) THEN a[k] ELSE b[k - Len(a)]
    OBVIOUS
  <1>3. \A m, n \in Nat : \A k \in 1..(m + n) : (k <= m => k \in 1..m)
                                             /\ (~(k <= m) => k \notin 1..m /\ k - m \in 1..n)
    OBVIOUS
  <1>4. ASSUME NEW k \in DOMAIN (a \o b)
        PROVE  \/ k \in DOMAIN a /\ (a \o b)[k] = a[k]
               \/ k \notin DOMAIN a /\ \E j \in DOMAIN b : (a \o b)[k] = b[j]
    BY <1>1, <1>2, <1>3, <1>4
  <1> QED
    BY <1>1, <1>4

\* Three things one after another.
LEMMA Three ==
    ASSUME NEW X, NEW a \in X, NEW b \in X, NEW c \in X
    PROVE  Append(<<a, b>>, c) = <<a, b, c>> /\ <<a, b>> \o <<c>> = <<a, b, c>>
  <1>1. <<a, b>> \in Seq(X) /\ <<c>> \in Seq(X) /\ <<a, b, c>> \in Seq(X)
    OBVIOUS
  <1>2. Len(<<a, b>>) = 2 /\ Len(<<c>>) = 1 /\ Len(<<a, b, c>>) = 3
    OBVIOUS
  <1>3. \A i \in 1..3 : i = 1 \/ i = 2 \/ i = 3
    OBVIOUS
  <1>4. <<a, b, c>>[1] = a /\ <<a, b, c>>[2] = b /\ <<a, b, c>>[3] = c
    OBVIOUS
  <1>5. Append(<<a, b>>, c) = <<a, b, c>>
    <2>1. Append(<<a, b>>, c) \in Seq(X) /\ Len(Append(<<a, b>>, c)) = 3
      BY <1>1, <1>2
    <2>2. Append(<<a, b>>, c)[1] = a /\ Append(<<a, b>>, c)[2] = b /\ Append(<<a, b>>, c)[3] = c
      BY <1>1, <1>2
    <2>3. \A i \in 1..Len(Append(<<a, b>>, c)) : Append(<<a, b>>, c)[i] = <<a, b, c>>[i]
      BY <1>3, <1>4, <2>1, <2>2
    <2> QED
      BY <1>1, <1>2, <2>1, <2>3, SeqEqual
  <1>6. <<a, b>> \o <<c>> = <<a, b, c>>
    <2>1. <<a, b>> \o <<c>> \in Seq(X) /\ Len(<<a, b>> \o <<c>>) = 3
      BY <1>1, <1>2
    <2>2. (<<a, b>> \o <<c>>)[1] = a /\ (<<a, b>> \o <<c>>)[2] = b /\ (<<a, b>> \o <<c>>)[3] = c
      BY <1>1, <1>2
    <2>3. \A i \in 1..Len(<<a, b>> \o <<c>>) : (<<a, b>> \o <<c>>)[i] = <<a, b, c>>[i]
      BY <1>3, <1>4, <2>1, <2>2
    <2> QED
      BY <1>1, <1>2, <2>1, <2>3, SeqEqual
  <1> QED
    BY <1>5, <1>6

\* A sequence with another behind it, place by place.
LEMMA Longer ==
    ASSUME NEW X, NEW a \in Seq(X), NEW b \in Seq(X)
    PROVE  /\ a \o b \in Seq(X) /\ Len(a) \in Nat /\ Len(b) \in Nat
           /\ Len(a \o b) = Len(a) + Len(b)
           /\ \A i \in 1..Len(a) : i \in 1..Len(a \o b) /\ (a \o b)[i] = a[i]
           /\ \A i \in 1..Len(b) : (a \o b)[Len(a) + i] = b[i]
           /\ \A i \in 1..Len(a \o b) : i \in 1..Len(a) \/ i - Len(a) \in 1..Len(b)
  <1>1. /\ a \o b \in Seq(X) /\ Len(a) \in Nat /\ Len(b) \in Nat
        /\ Len(a \o b) = Len(a) + Len(b)
    OBVIOUS
  <1>2. \A i \in 1..Len(a) : (a \o b)[i] = a[i]
    OBVIOUS
  <1>3. \A i \in 1..Len(b) : (a \o b)[Len(a) + i] = b[i]
    OBVIOUS
  <1>4. \A m, n \in Nat : /\ \A i \in 1..m : i \in 1..(m + n)
                          /\ \A i \in 1..(m + n) : i \in 1..m \/ i - m \in 1..n
    OBVIOUS
  <1>5. /\ \A i \in 1..Len(a) : i \in 1..(Len(a) + Len(b))
        /\ \A i \in 1..(Len(a) + Len(b)) : i \in 1..Len(a) \/ i - Len(a) \in 1..Len(b)
    BY <1>1, <1>4
  <1> QED
    BY <1>1, <1>2, <1>3, <1>5

\* A pair has one first and one second part.
LEMMA Pairs ==
    ASSUME NEW x, NEW y, NEW u, NEW v, <<x, y>> = <<u, v>>
    PROVE  x = u /\ y = v
  OBVIOUS

-----------------------------------------------------------------------------
(* The MCP client *)

\* A request's number is new when it is taken, so whatever the pipes, the server
\* and the table still hold of it belongs to the call under way.
Asking == [id : Nat, of : Nat]
Reply == [id : Nat, of : Nat, ok : BOOLEAN]
Reason == {"exited", "write", "answered", "timed out", "dropped"}
Outcome == [call : Nat, got : Reply, why : Reason]

\* The shape of the state: TypeOK, and what the records are made of.
ClientShape ==
    /\ phase \in {"start", "idle", "writing", "waiting", "gone"}
    /\ ready \in BOOLEAN /\ torn \in BOOLEAN /\ alive \in BOOLEAN /\ reader \in BOOLEAN
    /\ id \in Nat
    /\ reply \in Reply /\ returned \in Seq(Outcome)
    /\ stdin \in Seq(Asking) /\ stdout \in Seq(Reply) /\ asked \in SUBSET Asking

\* A trace of a request: no request of a later number exists, and what bears the
\* number of the call under way belongs to that call.
Trace(x) ==
    /\ x.id <= id
    /\ Client!Busy /\ x.id = id => x.of = Client!Call

\* A line of the server is a trace, or the server's own.
Sent(x) == x.of = 0 \/ Trace(x)

Traces ==
    /\ \A i \in 1..Len(stdin) : Trace(stdin[i]) /\ (stdin[i] = Client!Junk \/ stdin[i].id > 0)
    /\ \A i \in 1..Len(stdout) : Sent(stdout[i])
    /\ \A request \in asked : Trace(request) /\ request.id > 0
    /\ pending \subseteq 1..id
    /\ Client!Busy => id > 0

\* The conjuncts of AnswersMatch.
Matches ==
    /\ Client!Busy /\ reply # Client!None => reply.id = id /\ reply.of \in {0, Client!Call}
    /\ \A i \in 1..Len(returned) : returned[i].got # Client!None => returned[i].got.of \in {0, returned[i].call}
    /\ Client!Busy => reply # Client!None \/ id \in pending

ClientInv == ClientShape /\ Traces /\ Matches

\* What an answer says, and that it is one.
LEMMA AnswerFields ==
    ASSUME NEW request, NEW ok
    PROVE  /\ Client!Answer(request, ok).id = request.id
           /\ Client!Answer(request, ok).of = request.of
           /\ request.id \in Nat /\ request.of \in Nat /\ ok \in BOOLEAN
                 => Client!Answer(request, ok) \in Reply
  BY Zenon DEF Client!Answer, Reply

\* Junk and None belong to no request.
LEMMA NoneFields == /\ Client!Junk \in Asking /\ Client!Junk.id = 0
                    /\ Client!None \in Reply /\ Client!None.id = 0
  <1>1. Client!Junk \in Asking /\ Client!Junk.id = 0 /\ Client!Junk.of = 0
    BY DEF Client!Junk, Asking
  <1>2. Client!Junk.id \in Nat /\ Client!Junk.of \in Nat /\ FALSE \in BOOLEAN
    BY <1>1
  <1>3. Client!None \in Reply /\ Client!None.id = Client!Junk.id
    BY <1>2, AnswerFields, Zenon DEF Client!None
  <1> QED
    BY <1>1, <1>3

\* A call's number counts the calls that have returned.
LEMMA CallNat == ClientShape => Client!Call \in Nat /\ Len(returned) \in Nat
  BY DEF ClientShape, Client!Call

\* The request under way says which number and which call it is.
LEMMA RequestFields == ClientShape => Client!Request \in Asking /\ Client!Request.id = id /\ Client!Request.of = Client!Call
  BY CallNat DEF ClientShape, Client!Request, Asking

\* So does what comes back.
LEMMA ResultFields ==
    ASSUME NEW got, NEW why
    PROVE  /\ Client!Result(got, why).got = got
           /\ Client!Result(got, why).call = Client!Call
           /\ got \in Reply /\ why \in Reason /\ Client!Call \in Nat => Client!Result(got, why) \in Outcome
  BY Zenon DEF Client!Result, Outcome

\* The invariant says more than TypeOK and AnswersMatch.
LEMMA ClientInvImplies == ClientInv => Client!TypeOK /\ Client!AnswersMatch
  <1> SUFFICES ASSUME ClientInv PROVE Client!TypeOK /\ Client!AnswersMatch
    OBVIOUS
  <1>1. \A request \in asked : request.id \in 1..id
    BY DEF ClientInv, ClientShape, Traces, Trace, Asking
  <1>2. Client!TypeOK
    BY <1>1 DEF ClientInv, ClientShape, Traces, Client!TypeOK
  <1>3. \A r \in Client!ToSet(returned) : \E i \in 1..Len(returned) : r = returned[i]
    BY DEF ClientInv, ClientShape, Client!ToSet
  <1>4. Client!AnswersMatch
    BY <1>3 DEF ClientInv, Matches, Client!AnswersMatch
  <1> QED
    BY <1>2, <1>4

LEMMA ClientBegins == Client!Init => ClientInv
  <1> SUFFICES ASSUME Client!Init PROVE ClientInv
    OBVIOUS
  <1>1. ClientShape
    <2>1. /\ phase = "start" /\ id \in Nat /\ reply \in Reply
          /\ returned = <<>> /\ stdin = <<>> /\ stdout = <<>> /\ asked = {}
      BY NoneFields DEF Client!Init
    <2>2. /\ returned \in Seq(Outcome) /\ stdin \in Seq(Asking) /\ stdout \in Seq(Reply)
          /\ asked \in SUBSET Asking
      BY <2>1
    <2>3. ready \in BOOLEAN /\ torn \in BOOLEAN /\ alive \in BOOLEAN /\ reader \in BOOLEAN
      BY DEF Client!Init
    <2> QED
      BY <2>1, <2>2, <2>3 DEF ClientShape
  <1>2. Traces
    BY DEF Client!Init, Traces, Client!Busy
  <1>3. Matches
    BY DEF Client!Init, Matches, Client!Busy
  <1> QED
    BY <1>1, <1>2, <1>3 DEF ClientInv

\* A step that leaves the pipes, the server and the number alone, and does not
\* put another call under way, leaves the traces as they are.
LEMMA TracesStay ==
    ASSUME Traces, UNCHANGED <<stdin, stdout, asked, id, pending>>,
           Client!Busy' => Client!Busy /\ Client!Call' = Client!Call
    PROVE  Traces'
  BY DEF Traces, Trace, Sent

\* A call that comes back: nothing is under way behind it.
LEMMA Returns ==
    ASSUME ClientInv, NEW result, result \in Outcome, Client!Return(result),
           result.got # Client!None => result.got.of \in {0, result.call},
           torn' \in BOOLEAN,
           stdin' = stdin \/ stdin' = Append(stdin, Client!Junk)
    PROVE  ClientInv'
  <1>1. ~Client!Busy'
    BY DEF Client!Return, Client!Busy
  <1>2. /\ returned' \in Seq(Outcome)
        /\ \A i \in 1..Len(returned') :
              returned'[i].got # Client!None => returned'[i].got.of \in {0, returned'[i].call}
    <2>1. returned \in Seq(Outcome) /\ returned' = Append(returned, result)
      BY DEF ClientInv, ClientShape, Client!Return
    <2>2. /\ Len(returned') = Len(returned) + 1
          /\ \A i \in 1..Len(returned) : returned'[i] = returned[i]
          /\ returned'[Len(returned) + 1] = result
          /\ returned' \in Seq(Outcome) /\ Len(returned) \in Nat
      BY <2>1
    <2>3. \A i \in 1..Len(returned') : i \in 1..Len(returned) \/ i = Len(returned) + 1
      BY <2>2
    <2> QED
      BY <2>2, <2>3 DEF ClientInv, Matches
  <1>3. /\ stdin' \in Seq(Asking)
        /\ \A i \in 1..Len(stdin') : /\ stdin'[i].id <= id
                                     /\ stdin'[i] = Client!Junk \/ stdin'[i].id > 0
    <2>1. CASE stdin' = stdin
      BY <2>1 DEF ClientInv, ClientShape, Traces, Trace
    <2>2. CASE stdin' = Append(stdin, Client!Junk)
      <3>1. /\ stdin \in Seq(Asking) /\ Client!Junk \in Asking /\ Client!Junk.id = 0 /\ id \in Nat
            /\ \A i \in 1..Len(stdin) : /\ stdin[i].id <= id
                                        /\ stdin[i] = Client!Junk \/ stdin[i].id > 0
        BY NoneFields DEF ClientInv, ClientShape, Traces, Trace
      <3>2. /\ stdin' \in Seq(Asking) /\ Len(stdin') = Len(stdin) + 1 /\ Len(stdin) \in Nat
            /\ \A i \in 1..Len(stdin) : stdin'[i] = stdin[i]
            /\ stdin'[Len(stdin) + 1] = Client!Junk
        BY <2>2, <3>1
      <3>3. \A i \in 1..Len(stdin') : i \in 1..Len(stdin) \/ i = Len(stdin) + 1
        BY <3>2
      <3> QED
        BY <3>1, <3>2, <3>3
    <2> QED
      BY <2>1, <2>2
  <1>4. ready' \in BOOLEAN /\ alive' \in BOOLEAN
    <2>1. ready \in BOOLEAN /\ alive \in BOOLEAN
      BY DEF ClientInv, ClientShape
    <2>2. ready' = (ready \/ result.got.ok) /\ alive' = (alive /\ ready')
      BY DEF Client!Return
    <2> QED
      BY <2>2, Zenon
  <1>5. ClientShape'
    BY <1>2, <1>3, <1>4 DEF ClientInv, ClientShape, Client!Return
  <1>6. Traces'
    BY <1>1, <1>3 DEF ClientInv, Traces, Trace, Sent, Client!Return
  <1>7. Matches'
    BY <1>1, <1>2 DEF Matches
  <1> QED
    BY <1>5, <1>6, <1>7 DEF ClientInv

\* A failure brings no answer.
LEMMA FailureReturns ==
    ASSUME ClientInv, NEW why \in Reason, Client!Return(Client!Failed(why)),
           torn' \in BOOLEAN, stdin' = stdin
    PROVE  ClientInv'
  <1>1. Client!Failed(why) \in Outcome /\ Client!Failed(why).got = Client!None
    BY NoneFields, ResultFields, CallNat DEF Client!Failed, ClientInv
  <1> QED
    BY <1>1, Returns

\* A request takes a number that nothing bears yet.
LEMMA BeginStep == ClientInv /\ Client!Begin => ClientInv'
  <1> SUFFICES ASSUME ClientInv, Client!Begin PROVE ClientInv'
    OBVIOUS
  <1>1. ASSUME alive, id' = Client!NextId, pending' = pending \cup {id'}, reply' = Client!None,
               phase' = "writing",
               UNCHANGED <<ready, returned, stdin, torn, stdout, Client!serverVars, reader>>
        PROVE  ClientInv'
    <2>1. id' = id + 1 /\ id \in Nat
      BY <1>1 DEF Client!NextId, ClientInv, ClientShape
    <2>2. ClientShape'
      BY <1>1, <2>1, NoneFields DEF ClientInv, ClientShape, Client!serverVars
    <2>3. /\ \A i \in 1..Len(stdin) : stdin[i].id \in Nat /\ stdin[i].id <= id
          /\ \A i \in 1..Len(stdout) : stdout[i].id \in Nat /\ (stdout[i].of = 0 \/ stdout[i].id <= id)
          /\ \A request \in asked : request.id \in Nat /\ request.id <= id /\ request.id > 0
      <3>1. stdin \in Seq(Asking) /\ stdout \in Seq(Reply) /\ asked \in SUBSET Asking
        BY DEF ClientInv, ClientShape
      <3>2. /\ \A i \in 1..Len(stdin) : stdin[i] \in Asking
            /\ \A i \in 1..Len(stdout) : stdout[i] \in Reply
        BY <3>1
      <3>3. \A x \in Reply : x.id \in Nat
        BY DEF Reply
      <3> QED
        BY <3>1, <3>2, <3>3 DEF ClientInv, Traces, Trace, Sent, Asking
    <2>4. Traces'
      <3>1. \A i \in 1..Len(stdin') :
                Trace(stdin[i])' /\ (stdin'[i] = Client!Junk' \/ stdin'[i].id > 0)
        BY <1>1, <2>1, <2>3 DEF ClientInv, Traces, Trace, Client!Junk
      <3>2. /\ \A i \in 1..Len(stdout') : Sent(stdout[i])'
            /\ \A request \in asked' : Trace(request)' /\ request.id > 0
        BY <1>1, <2>1, <2>3 DEF Trace, Sent, Client!serverVars
      <3>3. pending' \subseteq 1..id' /\ id' > 0
        <4>1. pending \subseteq 1..id /\ pending' = pending \cup {id'}
          BY <1>1 DEF ClientInv, Traces
        <4>2. \A n \in Nat : n + 1 > 0 /\ n + 1 \in 1..(n + 1) /\ \A k \in 1..n : k \in 1..(n + 1)
          OBVIOUS
        <4> QED
          BY <2>1, <4>1, <4>2
      <3> QED
        BY <3>1, <3>2, <3>3 DEF Traces
    <2>5. Matches'
      BY <1>1, NoneFields DEF ClientInv, Matches, Client!None
    <2> QED
      BY <2>2, <2>4, <2>5 DEF ClientInv
  <1>2. CASE Client!Return(Client!Failed("exited")) /\ UNCHANGED <<stdin, torn>>
    BY <1>2, FailureReturns DEF Reason, ClientInv, ClientShape
  <1> QED
    BY <1>1, <1>2 DEF Client!Begin

LEMMA WriteStep == ClientInv /\ Client!Write => ClientInv'
  <1> SUFFICES ASSUME ClientInv, Client!Write PROVE ClientInv'
    OBVIOUS
  <1>1. ASSUME stdin' = Append(stdin, IF torn THEN Client!Junk ELSE Client!Request), torn' = FALSE,
               phase' = "waiting",
               UNCHANGED <<ready, id, pending, reply, returned, stdout, Client!serverVars, reader>>
        PROVE  ClientInv'
    <2> DEFINE line == IF torn THEN Client!Junk ELSE Client!Request
    <2>1. /\ line \in Asking /\ line.id <= id
          /\ line.id = id => line.of = Client!Call
          /\ line = Client!Junk \/ line.id > 0
      BY NoneFields, RequestFields DEF ClientInv, ClientShape, Traces, Client!Write, Client!Busy
    <2>2. stdin \in Seq(Asking) /\ stdin' = Append(stdin, line)
      BY <1>1 DEF ClientInv, ClientShape
    <2> HIDE DEF line
    <2>3. /\ stdin' \in Seq(Asking) /\ Len(stdin') = Len(stdin) + 1 /\ Len(stdin) \in Nat
          /\ \A i \in 1..Len(stdin) : stdin'[i] = stdin[i]
          /\ stdin'[Len(stdin) + 1] = line
      BY <2>1, <2>2
    <2>4. \A i \in 1..Len(stdin') : i \in 1..Len(stdin) \/ i = Len(stdin) + 1
      BY <2>3
    <2>5. ClientShape'
      BY <1>1, <2>3 DEF ClientInv, ClientShape, Client!serverVars
    <2>6. Client!Busy /\ Client!Busy' /\ Client!Call' = Client!Call /\ id' = id
      BY <1>1 DEF Client!Write, Client!Busy, Client!Call
    <2>7. Traces'
      BY <1>1, <2>1, <2>3, <2>4, <2>6 DEF ClientInv, Traces, Trace, Sent, Client!serverVars
    <2>8. Matches'
      BY <1>1, <2>6 DEF ClientInv, Matches, Client!None, Client!Junk, Client!Answer
    <2> QED
      BY <2>5, <2>7, <2>8 DEF ClientInv
  <1>2. CASE Client!Return(Client!Failed("write")) /\ UNCHANGED <<stdin, torn>>
    BY <1>2, FailureReturns DEF Reason, ClientInv, ClientShape
  <1> QED
    BY <1>1, <1>2 DEF Client!Write

LEMMA ReceiveStep == ClientInv /\ Client!Receive => ClientInv'
  <1> SUFFICES ASSUME ClientInv, Client!Receive PROVE ClientInv'
    OBVIOUS
  <1>1. reply \in Reply /\ reply.of \in {0, Client!Call}
    BY DEF ClientInv, ClientShape, Matches, Client!Receive, Client!Busy
  <1>2. Client!Result(reply, "answered") \in Outcome
    BY <1>1, ResultFields, CallNat DEF ClientInv, Reason
  <1>3. Client!Result(reply, "answered").got.of \in {0, Client!Result(reply, "answered").call}
    BY <1>1, ResultFields
  <1> QED
    BY <1>2, <1>3, Returns DEF Client!Receive, ClientInv, ClientShape

LEMMA GiveUpStep == ClientInv /\ (Client!TimeOut \/ Client!Abandon) => ClientInv'
  <1> SUFFICES ASSUME ClientInv, Client!TimeOut \/ Client!Abandon PROVE ClientInv'
    OBVIOUS
  <1>1. torn' \in BOOLEAN
    <2>1. torn \in BOOLEAN
      BY DEF ClientInv, ClientShape
    <2>2. torn' = torn \/ torn' = (torn \/ (phase = "writing" /\ alive))
      BY DEF Client!TimeOut, Client!Abandon
    <2> QED
      BY <2>1, <2>2, Zenon
  <1>2. CASE Client!TimeOut
    BY <1>1, <1>2, FailureReturns DEF Client!TimeOut, Reason
  <1>3. CASE Client!Abandon
    BY <1>1, <1>3, FailureReturns DEF Client!Abandon, Reason
  <1> QED
    BY <1>2, <1>3

LEMMA DropStep == ClientInv /\ Client!DropClient => ClientInv'
  <1> SUFFICES ASSUME ClientInv, Client!DropClient PROVE ClientInv'
    OBVIOUS
  <1>1. ~Client!Busy'
    BY DEF Client!DropClient, Client!Busy
  <1>2. ClientShape'
    BY DEF ClientInv, ClientShape, Client!DropClient
  <1>3. Traces'
    BY <1>1, TracesStay DEF ClientInv, Client!DropClient
  <1>4. Matches'
    BY <1>1 DEF ClientInv, Matches, Client!DropClient, Client!None, Client!Junk, Client!Answer
  <1> QED
    BY <1>2, <1>3, <1>4 DEF ClientInv

\* The line read is a trace, so it is the answer of the call that waits for its
\* number, or the server's own; a line of another number finds nobody.
LEMMA ReadStep == ClientInv /\ Client!ReadLine => ClientInv'
  <1> SUFFICES ASSUME ClientInv, Client!ReadLine PROVE ClientInv'
    OBVIOUS
  <1>1. Client!Busy' = Client!Busy /\ Client!Call' = Client!Call /\ id' = id /\ Client!None' = Client!None
    BY DEF Client!ReadLine, Client!Busy, Client!Call, Client!None, Client!Junk, Client!Answer
  <1>2. CASE UNCHANGED <<stdout, pending, reply>> /\ reader' = FALSE
    <2>1. ClientShape'
      BY <1>2 DEF ClientInv, ClientShape, Client!ReadLine, Client!serverVars
    <2>2. Traces'
      BY <1>1, <1>2, TracesStay DEF ClientInv, Client!ReadLine, Client!serverVars
    <2>3. Matches'
      BY <1>1, <1>2 DEF ClientInv, Matches, Client!ReadLine
    <2> QED
      BY <2>1, <2>2, <2>3 DEF ClientInv
  <1>3. ASSUME stdout # <<>>, stdout' = Tail(stdout),
               pending' = pending \ {Head(stdout).id},
               reply' = IF Client!Awaited(Head(stdout)) THEN Head(stdout) ELSE reply,
               UNCHANGED reader
        PROVE  ClientInv'
    <2> DEFINE line == Head(stdout)
    <2>1. /\ stdout \in Seq(Reply) /\ Len(stdout) > 0 /\ line = stdout[1] /\ line \in Reply
          /\ stdout' \in Seq(Reply) /\ Len(stdout') = Len(stdout) - 1
          /\ \A i \in 1..Len(stdout') : stdout'[i] = stdout[i + 1]
      BY <1>3 DEF ClientInv, ClientShape
    <2>2. Sent(line)
      BY <2>1 DEF ClientInv, Traces
    <2>3. reply' = IF Client!Awaited(line) THEN line ELSE reply
      BY <1>3
    <2>4. pending' = pending \ {line.id}
      BY <1>3
    <2> HIDE DEF line
    <2>5. ClientShape'
      BY <1>3, <2>1, <2>3 DEF ClientInv, ClientShape, Client!ReadLine, Client!serverVars
    <2>6. \A i \in 1..Len(stdout') : i + 1 \in 1..Len(stdout)
      BY <2>1
    <2>7. Traces'
      <3>1. \A i \in 1..Len(stdout') : Sent(stdout'[i])
        BY <2>1, <2>6 DEF ClientInv, Traces
      <3>2. pending' \subseteq 1..id'
        BY <1>1, <2>4 DEF ClientInv, Traces
      <3> QED
        BY <1>1, <3>1, <3>2 DEF ClientInv, Traces, Trace, Sent, Client!ReadLine, Client!serverVars
    <2>8. CASE Client!Awaited(line)
      <3>1. Client!Busy /\ line.id = id /\ id > 0 /\ id \in Nat
        BY <2>8 DEF Client!Awaited, ClientInv, Traces, ClientShape
      <3>2. line # Client!None /\ line.id = id /\ line.of \in {0, Client!Call}
        BY <2>2, <3>1, NoneFields DEF Trace, Sent
      <3> QED
        BY <1>1, <2>3, <2>5, <2>7, <2>8, <3>2 DEF ClientInv, Matches, Client!ReadLine
    <2>9. CASE ~Client!Awaited(line)
      <3>1. reply' = reply
        BY <2>3, <2>9
      <3>2. Client!Busy /\ id \in pending => line.id # id
        BY <2>9 DEF Client!Awaited
      <3> QED
        BY <1>1, <2>4, <2>5, <2>7, <3>1, <3>2 DEF ClientInv, Matches, Client!ReadLine
    <2> QED
      BY <2>8, <2>9
  <1> QED
    BY <1>2, <1>3 DEF Client!ReadLine

\* What the server does changes no call.
LEMMA ServerLeaves ==
    ASSUME ClientInv, UNCHANGED <<phase, ready, id, pending, reply, returned, torn, reader>>,
           stdin' \in Seq(Asking), stdout' \in Seq(Reply), asked' \in SUBSET Asking,
           alive' \in BOOLEAN,
           \A i \in 1..Len(stdin') :
               Trace(stdin'[i]) /\ (stdin'[i] = Client!Junk \/ stdin'[i].id > 0),
           \A i \in 1..Len(stdout') : Sent(stdout'[i]),
           \A request \in asked' : Trace(request) /\ request.id > 0
    PROVE  ClientInv'
  <1>1. Client!Busy' = Client!Busy /\ Client!Call' = Client!Call /\ id' = id /\ Client!None' = Client!None
    BY DEF Client!Busy, Client!Call, Client!None, Client!Junk, Client!Answer
  <1>2. ClientShape'
    BY DEF ClientInv, ClientShape
  <1>3. Traces'
    BY <1>1 DEF ClientInv, Traces, Trace, Sent
  <1>4. Matches'
    BY <1>1 DEF ClientInv, Matches
  <1> QED
    BY <1>2, <1>3, <1>4 DEF ClientInv

\* One more line behind the others.
LEMMA MoreOutput ==
    ASSUME ClientInv, NEW x, x \in Reply, Sent(x), stdout' = Append(stdout, x)
    PROVE  stdout' \in Seq(Reply) /\ \A i \in 1..Len(stdout') : Sent(stdout'[i])
  <1>1. stdout \in Seq(Reply)
    BY DEF ClientInv, ClientShape
  <1>2. /\ stdout' \in Seq(Reply) /\ Len(stdout') = Len(stdout) + 1 /\ Len(stdout) \in Nat
        /\ \A i \in 1..Len(stdout) : stdout'[i] = stdout[i]
        /\ stdout'[Len(stdout) + 1] = x
    BY <1>1
  <1>3. \A i \in 1..Len(stdout') : i \in 1..Len(stdout) \/ i = Len(stdout) + 1
    BY <1>2
  <1> QED
    BY <1>2, <1>3 DEF ClientInv, Traces

LEMMA ServerReadsStep == ClientInv /\ Client!ServerReads => ClientInv'
  <1> SUFFICES ASSUME ClientInv, Client!ServerReads PROVE ClientInv'
    OBVIOUS
  <1>1. /\ stdin \in Seq(Asking) /\ stdin # <<>> /\ stdin' = Tail(stdin)
        /\ Head(stdin) = stdin[1] /\ Head(stdin) \in Asking /\ Len(stdin) > 0
        /\ stdin' \in Seq(Asking) /\ Len(stdin') = Len(stdin) - 1
        /\ \A i \in 1..Len(stdin') : stdin'[i] = stdin[i + 1]
    BY DEF ClientInv, ClientShape, Client!ServerReads
  <1>2. \A i \in 1..Len(stdin') :
            Trace(stdin'[i]) /\ (stdin'[i] = Client!Junk \/ stdin'[i].id > 0)
    <2>1. \A i \in 1..Len(stdin') : i + 1 \in 1..Len(stdin)
      BY <1>1
    <2> QED
      BY <1>1, <2>1 DEF ClientInv, Traces
  <1>3. Trace(Head(stdin)) /\ (Head(stdin) = Client!Junk \/ Head(stdin).id > 0)
    BY <1>1 DEF ClientInv, Traces
  <1>4. \A request \in asked' : request \in Asking /\ Trace(request) /\ request.id > 0
    BY <1>1, <1>3 DEF ClientInv, ClientShape, Traces, Client!ServerReads
  <1>5. \A i \in 1..Len(stdout') : Sent(stdout'[i])
    BY DEF ClientInv, Traces, Client!ServerReads
  <1>6. stdout' \in Seq(Reply) /\ alive' \in BOOLEAN
    BY DEF ClientInv, ClientShape, Client!ServerReads
  <1> QED
    BY <1>1, <1>2, <1>4, <1>5, <1>6, ServerLeaves DEF Client!ServerReads

\* An answer bears the number and the call of the request it answers.
LEMMA ServerAnswersStep ==
    ASSUME ClientInv, NEW request \in asked, NEW ok \in BOOLEAN, NEW again \in BOOLEAN,
           Client!ServerAnswers(request, ok, again)
    PROVE  ClientInv'
  <1>1. /\ Client!Answer(request, ok) \in Reply
        /\ Client!Answer(request, ok).id = request.id
        /\ Client!Answer(request, ok).of = request.of
    <2>1. request.id \in Nat /\ request.of \in Nat
      BY DEF ClientInv, ClientShape, Asking
    <2> QED
      BY <2>1, AnswerFields, Zenon
  <1>2. Sent(Client!Answer(request, ok))
    BY <1>1 DEF ClientInv, Traces, Trace, Sent
  <1>3. stdout' = Append(stdout, Client!Answer(request, ok))
    BY DEF Client!ServerAnswers
  <1>4. stdout' \in Seq(Reply) /\ \A i \in 1..Len(stdout') : Sent(stdout'[i])
    BY <1>1, <1>2, <1>3, MoreOutput
  <1>5. asked' \in SUBSET Asking /\ \A x \in asked' : Trace(x) /\ x.id > 0
    BY DEF ClientInv, ClientShape, Traces, Client!ServerAnswers
  <1>6. /\ stdin' \in Seq(Asking) /\ alive' \in BOOLEAN
        /\ \A i \in 1..Len(stdin') :
              Trace(stdin'[i]) /\ (stdin'[i] = Client!Junk \/ stdin'[i].id > 0)
    BY DEF ClientInv, ClientShape, Traces, Client!ServerAnswers
  <1> QED
    BY <1>4, <1>5, <1>6, ServerLeaves DEF Client!ServerAnswers

\* A line of the server's own may bear any number.
LEMMA ServerTalksStep ==
    ASSUME ClientInv, NEW n \in Nat, Client!ServerTalks(n)
    PROVE  ClientInv'
  <1>1. Client!Own(n) \in Reply /\ Sent(Client!Own(n))
    BY DEF Client!Own, Reply, Sent
  <1>2. stdout' = Append(stdout, Client!Own(n))
    BY DEF Client!ServerTalks
  <1>3. stdout' \in Seq(Reply) /\ \A i \in 1..Len(stdout') : Sent(stdout'[i])
    BY <1>1, <1>2, MoreOutput
  <1>4. /\ stdin' \in Seq(Asking) /\ asked' \in SUBSET Asking /\ alive' \in BOOLEAN
        /\ \A i \in 1..Len(stdin') :
              Trace(stdin'[i]) /\ (stdin'[i] = Client!Junk \/ stdin'[i].id > 0)
        /\ \A request \in asked' : Trace(request) /\ request.id > 0
    BY DEF ClientInv, ClientShape, Traces, Client!ServerTalks
  <1> QED
    BY <1>3, <1>4, ServerLeaves DEF Client!ServerTalks

LEMMA ServerDiesStep == ClientInv /\ Client!ServerDies => ClientInv'
  <1> SUFFICES ASSUME ClientInv, Client!ServerDies PROVE ClientInv'
    OBVIOUS
  <1>1. /\ stdin' \in Seq(Asking) /\ stdout' \in Seq(Reply) /\ asked' \in SUBSET Asking
        /\ alive' \in BOOLEAN
        /\ \A i \in 1..Len(stdin') :
              Trace(stdin'[i]) /\ (stdin'[i] = Client!Junk \/ stdin'[i].id > 0)
        /\ \A i \in 1..Len(stdout') : Sent(stdout'[i])
        /\ \A request \in asked' : Trace(request) /\ request.id > 0
    BY DEF ClientInv, ClientShape, Traces, Client!ServerDies
  <1> QED
    BY <1>1, ServerLeaves DEF Client!ServerDies

\* A step that changes nothing of the client.
LEMMA ClientRests == ClientInv /\ UNCHANGED clientVars => ClientInv'
  <1> SUFFICES ASSUME ClientInv, UNCHANGED clientVars PROVE ClientInv'
    OBVIOUS
  <1>1. Client!Busy' = Client!Busy /\ Client!Call' = Client!Call
    BY DEF clientVars, Client!Busy, Client!Call
  <1>2. ClientShape'
    BY DEF ClientInv, ClientShape, clientVars
  <1>3. Traces'
    BY <1>1, TracesStay DEF ClientInv, clientVars
  <1>4. Matches'
    BY <1>1 DEF ClientInv, Matches, clientVars, Client!None, Client!Junk, Client!Answer
  <1> QED
    BY <1>2, <1>3, <1>4 DEF ClientInv

\* The client's invariant is inductive.
LEMMA ClientInductive ==
    /\ Init => ClientInv
    /\ ClientInv /\ [Next]_vars => ClientInv'
  <1>1. Init => ClientInv
    BY ClientBegins DEF Init
  <1>2. ASSUME ClientInv, [Next]_vars PROVE ClientInv'
    <2>1. CASE part = "mcp" /\ Client!Next
      <3>1. CASE \/ Client!Begin \/ Client!Write \/ Client!Receive \/ Client!TimeOut
                 \/ Client!Abandon \/ Client!DropClient \/ Client!ReadLine
        BY <1>2, <3>1, BeginStep, WriteStep, ReceiveStep, GiveUpStep, DropStep, ReadStep
      <3>2. CASE Client!Server
        <4>1. ASSUME NEW n \in 0..MaxCalls, Client!ServerTalks(n) PROVE ClientInv'
          <5>1. n \in Nat
            BY DEF LibraryAssumption
          <5> QED
            BY <1>2, <4>1, <5>1, ServerTalksStep
        <4> QED
          BY <1>2, <3>2, <4>1, ServerReadsStep, ServerAnswersStep, ServerDiesStep
             DEF Client!Server
      <3> QED
        BY <2>1, <3>1, <3>2 DEF Client!Next
    <2>2. CASE UNCHANGED clientVars
      BY <1>2, <2>2, ClientRests
    <2> QED
      BY <1>2, <2>1, <2>2 DEF Next, Others, vars
  <1> QED
    BY <1>1, <1>2

\* The client's table, pipes and calls have the shapes of mcp.rs: every entry of
\* the table, and every request the server holds, bears a number already taken.
THEOREM ClientTypes == Spec => []Client!TypeOK
  BY ClientInductive, ClientInvImplies, PTL DEF Spec

\* No answer of an MCP server ever reaches another call than the one it answers,
\* whatever part is at work, for any number of calls that time out or are dropped
\* and a server that answers late or twice and sends requests of its own under any
\* numbers: the one thing else that a call may return is such a request, and the
\* answer of the call under way finds its entry in the table as long as neither has
\* come (run_reader, request).
THEOREM AnswersAreMatched == Spec => []AnswersMatch
  <1>1. ClientInv => AnswersMatch
    BY ClientInvImplies DEF AnswersMatch
  <1> QED
    BY <1>1, ClientInductive, PTL DEF Spec

-----------------------------------------------------------------------------
(* Hooks *)

\* A hook, and what one did.
HookConfig == [event : Event, matches : SUBSET Payload, can_block : BOOLEAN, handler : STRING]
Deed == [hook : Nat, did : Hook!Said \cup {"fails", "hangs"}]

\* The inductive invariant of the dispatcher: each result is what the hook that
\* took the turn came to.
HookInv ==
    /\ hooks \in Seq(HookConfig) /\ installed \in Seq(Plugin)
    /\ Hook!Whole
    /\ \A plugin \in ToSet(installed) : plugin.manifest = "ok" /\ plugin.context # "unreadable"
    /\ next \in Nat \ {0} /\ took \in Seq(Deed) /\ results \in Seq(Hook!Said)
    /\ Len(results) = Len(took)
    /\ event # "none" =>
         /\ {t.hook : t \in ToSet(took)} = {i \in 1..(next - 1) : Hook!Fires(hooks[i])}
         /\ \A i, j \in DOMAIN took : i < j => took[i].hook < took[j].hook
         /\ \A i \in DOMAIN took : results[i] = Hook!Outcome(hooks[took[i].hook], took[i].did)

\* Parts of a sequence that is joined with another, and the other.
LEMMA PartsOfJoined ==
    ASSUME NEW X, NEW a \in Seq(X), NEW b \in Seq(X)
    PROVE  /\ \A m \in Nat, n \in 0..Len(a) : SubSeq(a \o b, m + 1, n) = SubSeq(a, m + 1, n)
           /\ SubSeq(a \o b, Len(a) + 1, Len(a \o b)) = b
           /\ Len(a \o b) = Len(a) + Len(b) /\ Len(a) \in Nat /\ Len(b) \in Nat
  <1>1. /\ Len(a) \in Nat /\ Len(b) \in Nat /\ a \o b \in Seq(X)
        /\ Len(a \o b) = Len(a) + Len(b)
    OBVIOUS
  <1>2. \A k \in 1..Len(a) : (a \o b)[k] = a[k]
    OBVIOUS
  <1>3. \A k \in 1..Len(b) : (a \o b)[Len(a) + k] = b[k]
    OBVIOUS
  <1>4. ASSUME NEW m \in Nat, NEW n \in 0..Len(a)
        PROVE  SubSeq(a \o b, m + 1, n) = SubSeq(a, m + 1, n)
    <2>1. SubSeq(a \o b, m + 1, n) = [k \in 1..(n - (m + 1) + 1) |-> (a \o b)[k + (m + 1) - 1]]
      BY DEF SubSeq
    <2>2. SubSeq(a, m + 1, n) = [k \in 1..(n - (m + 1) + 1) |-> a[k + (m + 1) - 1]]
      BY DEF SubSeq
    <2>3. \A k \in 1..(n - (m + 1) + 1) : k + (m + 1) - 1 \in 1..Len(a)
      BY <1>1
    <2> QED
      BY <1>2, <2>1, <2>2, <2>3
  <1>5. SubSeq(a \o b, Len(a) + 1, Len(a \o b)) = b
    <2>1. SubSeq(a \o b, Len(a) + 1, Len(a) + Len(b))
            = [k \in 1..((Len(a) + Len(b)) - (Len(a) + 1) + 1) |-> (a \o b)[k + (Len(a) + 1) - 1]]
      BY DEF SubSeq
    <2>2. (Len(a) + Len(b)) - (Len(a) + 1) + 1 = Len(b)
      BY <1>1
    <2>3. \A k \in 1..Len(b) : k + (Len(a) + 1) - 1 = Len(a) + k
      BY <1>1
    <2>4. b = [k \in 1..Len(b) |-> b[k]]
      OBVIOUS
    <2>5. \A k \in 1..Len(b) : (a \o b)[k + (Len(a) + 1) - 1] = b[k]
      BY <1>3, <2>3
    <2> QED
      BY <1>1, <2>1, <2>2, <2>4, <2>5
  <1> QED
    BY <1>1, <1>4, <1>5

\* A plugin's hooks are added whole, behind the others'.
LEMMA InstallStep ==
    ASSUME HookInv, NEW plugin \in Plugin, plugin.hooks \in Seq(HookConfig),
           Hook!Install(plugin)
    PROVE  HookInv'
  <1> DEFINE new == Hook!Brought(plugin)
             n == Len(installed)
  <1>1. /\ event = "none" /\ UNCHANGED <<event, next, results, took>>
        /\ \/ /\ plugin.manifest = "ok" /\ plugin.context # "unreadable"
              /\ hooks' = hooks \o new /\ installed' = Append(installed, plugin)
           \/ UNCHANGED <<hooks, installed>>
    BY DEF Hook!Install, Hook!Installs
  <1>2. hooks \in Seq(HookConfig) /\ installed \in Seq(Plugin) /\ n \in Nat
    BY DEF HookInv
  <1>3. CASE UNCHANGED <<hooks, installed>>
    <2>1. hooks' = hooks /\ installed' = installed
      BY <1>3
    <2>2. Hook!Whole' /\ ToSet(installed)' = ToSet(installed)
      BY <2>1, Zenon DEF HookInv, Hook!Whole, ToSet
    <2> QED
      BY <1>1, <2>1, <2>2, Zenon DEF HookInv
  <1>4. CASE /\ plugin.manifest = "ok" /\ plugin.context # "unreadable"
             /\ hooks' = hooks \o new /\ installed' = Append(installed, plugin)
    <2>1. new \in Seq(HookConfig)
      <3> HIDE DEF HookConfig
      <3> QED
        BY DEF Hook!Brought
    <2>0. n \in Nat /\ DOMAIN installed = 1..n
      BY <1>2
    <2> HIDE DEF new, HookConfig
    <2>2. /\ hooks' \in Seq(HookConfig) /\ installed' \in Seq(Plugin)
          /\ Len(installed') = n + 1
          /\ \A k \in 1..n : installed'[k] = installed[k]
          /\ installed'[n + 1] = plugin
      BY <1>2, <1>4, <2>1
    <2>3. Hook!Whole'
      <3>0. /\ \A k \in 0..n : k \in 0..(n + 1) /\ k # n + 1
            /\ \A k \in 0..(n + 1) : k = n + 1 \/ k \in 0..n
            /\ \A k \in 1..n : k - 1 \in 0..n /\ k \in 0..n
            /\ \A k \in 1..(n + 1) : k \in 1..n \/ k = n + 1
            /\ 0 \in 0..n /\ n \in 0..n /\ n + 1 \in 0..(n + 1) /\ (n + 1) - 1 = n
        BY <2>0
      <3>1. PICK upto \in [0..n -> 0..Len(hooks)] :
              /\ upto[0] = 0 /\ upto[n] = Len(hooks)
              /\ \A k \in 1..n : /\ upto[k - 1] <= upto[k]
                                 /\ SubSeq(hooks, upto[k - 1] + 1, upto[k]) = Hook!Brought(installed[k])
        BY DEF HookInv, Hook!Whole
      <3> DEFINE to == [k \in 0..(n + 1) |-> IF k = n + 1 THEN Len(hooks') ELSE upto[k]]
      <3>2. /\ Len(hooks') = Len(hooks) + Len(new) /\ Len(hooks) \in Nat /\ Len(new) \in Nat
            /\ \A l \in Nat, m \in 0..Len(hooks) : SubSeq(hooks', l + 1, m) = SubSeq(hooks, l + 1, m)
            /\ SubSeq(hooks', Len(hooks) + 1, Len(hooks')) = new
        BY <1>2, <1>4, <2>1, PartsOfJoined
      <3>4. /\ \A k \in 0..n : to[k] = upto[k] /\ upto[k] \in 0..Len(hooks)
            /\ to[n + 1] = Len(hooks')
        BY <3>0
      <3>5. to \in [0..(n + 1) -> 0..Len(hooks')]
        <4>2. 0..Len(hooks) \in SUBSET (0..Len(hooks')) /\ Len(hooks') \in 0..Len(hooks')
          BY <3>2
        <4> HIDE DEF to
        <4>3. \A k \in 0..(n + 1) : to[k] \in 0..Len(hooks')
          BY <3>0, <3>4, <4>2
        <4> QED
          BY <4>3 DEF to
      <3> HIDE DEF to
      <3>6. to[0] = 0 /\ to[n + 1] = Len(hooks')
        BY <3>0, <3>1, <3>4
      <3>7. ASSUME NEW k \in 1..(n + 1)
            PROVE  /\ to[k - 1] <= to[k]
                   /\ SubSeq(hooks', to[k - 1] + 1, to[k]) = Hook!Brought(installed'[k])
        <4>1. CASE k \in 1..n
          <5>1. k - 1 \in 0..n /\ k \in 0..n
            BY <3>0, <4>1
          <5>2. to[k - 1] = upto[k - 1] /\ to[k] = upto[k] /\ upto[k - 1] \in Nat /\ upto[k] \in 0..Len(hooks)
            BY <3>4, <5>1
          <5>3. SubSeq(hooks', upto[k - 1] + 1, upto[k]) = SubSeq(hooks, upto[k - 1] + 1, upto[k])
            BY <3>2, <5>2
          <5> QED
            BY <2>2, <3>1, <4>1, <5>2, <5>3
        <4>2. CASE k = n + 1
          <5>1. to[k - 1] = Len(hooks) /\ to[k] = Len(hooks')
            <6>1. k - 1 = n /\ n \in 0..n
              BY <3>0, <4>2
            <6> QED
              BY <3>1, <3>4, <4>2, <6>1
          <5>2. Len(hooks) <= Len(hooks')
            BY <3>2
          <5>3. installed'[k] = plugin
            BY <2>2, <4>2
          <5> QED
            BY <3>2, <5>1, <5>2, <5>3 DEF new
        <4> QED
          BY <3>0, <4>1, <4>2
      <3> QED
        BY <2>2, <3>5, <3>6, <3>7 DEF Hook!Whole
    <2>4. \A p \in ToSet(installed)' : p.manifest = "ok" /\ p.context # "unreadable"
      <3>1. \A x : x \in ToSet(Append(installed, plugin)) <=> x \in ToSet(installed) \/ x = plugin
        BY <1>2, Appended
      <3>2. ToSet(installed)' = ToSet(Append(installed, plugin))
        BY <1>4 DEF ToSet
      <3> QED
        BY <1>4, <3>1, <3>2 DEF HookInv
    <2> QED
      BY <1>1, <2>2, <2>3, <2>4, Zenon DEF HookInv
  <1> QED
    BY <1>1, <1>3, <1>4

\* A hook that fires answers with what it came to; no other answers.
LEMMA RunHookStep ==
    ASSUME HookInv, NEW what \in Hook!Said \cup {"fails", "hangs"}, Hook!RunHook(what)
    PROVE  HookInv'
  <1> DEFINE hook == hooks[next]
             deed == [hook |-> next, did |-> what]
             result == Hook!Outcome(hook, what)
  <1>1. /\ event # "none" /\ next <= Len(hooks) /\ next' = next + 1
        /\ UNCHANGED <<hooks, installed, event, payload>>
        /\ \/ /\ Hook!Fires(hook)
              /\ results' = Append(results, result) /\ took' = Append(took, deed)
           \/ /\ ~Hook!Fires(hook)
              /\ UNCHANGED <<results, took>>
    BY DEF Hook!RunHook
  <1>2. hooks' = hooks /\ installed' = installed /\ event' = event
    BY <1>1
  <1>3. /\ Hook!Whole' /\ ToSet(installed)' = ToSet(installed)
        /\ \A i : Hook!Fires(hooks[i])' <=> Hook!Fires(hooks[i])
    BY <1>1, Zenon DEF HookInv, Hook!Whole, ToSet, Hook!Fires
  <1>4. /\ next \in Nat \ {0} /\ took \in Seq(Deed) /\ results \in Seq(Hook!Said)
        /\ Len(results) = Len(took)
        /\ {t.hook : t \in ToSet(took)} = {i \in 1..(next - 1) : Hook!Fires(hooks[i])}
        /\ \A i, j \in DOMAIN took : i < j => took[i].hook < took[j].hook
        /\ \A i \in DOMAIN took : results[i] = Hook!Outcome(hooks[took[i].hook], took[i].did)
    BY <1>1 DEF HookInv
  <1>5. /\ next' \in Nat \ {0} /\ next' - 1 = next /\ next \in DOMAIN hooks
        /\ \A i : i \in 1..next <=> i \in 1..(next - 1) \/ i = next
    <2>1. hooks \in Seq(HookConfig)
      BY DEF HookInv
    <2>2. Len(hooks) \in Nat /\ DOMAIN hooks = 1..Len(hooks)
      BY <2>1
    <2>3. next \in Nat \ {0} /\ next <= Len(hooks) /\ next' = next + 1
      BY <1>1, <1>4
    <2> QED
      BY <2>2, <2>3
  <1>6. CASE ~Hook!Fires(hook) /\ UNCHANGED <<results, took>>
    <2>1. results' = results /\ took' = took
      BY <1>6
    <2>2. {i \in 1..(next' - 1) : Hook!Fires(hooks[i])'} = {i \in 1..(next - 1) : Hook!Fires(hooks[i])}
      BY <1>2, <1>3, <1>5, <1>6
    <2>3. ToSet(took)' = ToSet(took)
      BY <2>1 DEF ToSet
    <2>4. {t.hook : t \in ToSet(took)'} = {i \in 1..(next' - 1) : Hook!Fires(hooks[i])'}
      BY <1>4, <2>2, <2>3
    <2> QED
      BY <1>2, <1>3, <1>4, <1>5, <2>1, <2>4, Zenon DEF HookInv
  <1>7. CASE /\ Hook!Fires(hook)
             /\ results' = Append(results, result) /\ took' = Append(took, deed)
    <2>1. result \in Hook!Said
      <3>1. CASE what \in Hook!Said
        BY <3>1 DEF Hook!Outcome
      <3>2. CASE what \notin Hook!Said
        <4>1. "Deny" \in Hook!Said /\ "Continue" \in Hook!Said
          BY DEF Hook!Said
        <4>2. CASE hook.can_block
          BY <3>2, <4>1, <4>2 DEF Hook!Outcome
        <4>3. CASE ~hook.can_block
          BY <3>2, <4>1, <4>3 DEF Hook!Outcome
        <4> QED
          BY <4>2, <4>3
      <3> QED
        BY <3>1, <3>2
    <2>2. deed \in Deed /\ deed.hook = next /\ deed.did = what
      BY <1>4 DEF Deed
    <2> HIDE DEF deed, result, hook, Deed
    <2>3. /\ took' \in Seq(Deed) /\ results' \in Seq(Hook!Said)
          /\ Len(took) \in Nat /\ DOMAIN took = 1..Len(took) /\ DOMAIN took' = 1..(Len(took) + 1)
          /\ Len(results') = Len(took) + 1 /\ Len(took') = Len(took) + 1
          /\ \A i \in 1..Len(took) : took'[i] = took[i] /\ results'[i] = results[i]
          /\ took'[Len(took) + 1] = deed /\ results'[Len(took) + 1] = result
      <3>1. /\ took \in Seq(Deed) /\ results \in Seq(Hook!Said) /\ Len(results) = Len(took)
            /\ took' = Append(took, deed) /\ results' = Append(results, result)
        BY <1>4, <1>7
      <3> QED
        BY <2>1, <2>2, <3>1
    <2>4. {t.hook : t \in ToSet(took)'} = {i \in 1..(next' - 1) : Hook!Fires(hooks[i])'}
      <3>1. ToSet(took)' = ToSet(Append(took, deed))
        BY <1>7 DEF ToSet
      <3>2. \A t : t \in ToSet(took)' <=> t \in ToSet(took) \/ t = deed
        BY <1>4, <2>2, <3>1, Appended
      <3>3. \A i : (\E t \in ToSet(took)' : t.hook = i) <=> (\E t \in ToSet(took) : t.hook = i) \/ i = next
        BY <2>2, <3>2
      <3>4. \A i : (\E t \in ToSet(took) : t.hook = i) <=> i \in 1..(next - 1) /\ Hook!Fires(hooks[i])
        BY <1>4
      <3>5. \A i : (\E t \in ToSet(took)' : t.hook = i) <=> i \in 1..next /\ Hook!Fires(hooks[i])
        BY <1>5, <1>7, <3>3, <3>4 DEF hook
      <3>6. \A i : (\E t \in ToSet(took)' : t.hook = i)
                      <=> i \in 1..(next' - 1) /\ Hook!Fires(hooks[i])'
        BY <1>2, <1>3, <1>5, <3>5
      <3> QED
        BY <3>6
    <2>5. \A i, j \in DOMAIN took' : i < j => took'[i].hook < took'[j].hook
      <3>1. \A n \in Nat : \A a, b \in 1..(n + 1) : a < b => a \in 1..n /\ (b \in 1..n \/ b = n + 1)
        OBVIOUS
      <3>2. \A i \in 1..Len(took) : took[i].hook < next
        <4>1. ASSUME NEW i \in DOMAIN took PROVE took[i].hook < next
          <5>1. took[i] \in ToSet(took)
            BY DEF ToSet
          <5>2. took[i].hook \in 1..(next - 1)
            BY <1>4, <5>1
          <5> QED
            BY <1>4, <5>2
        <4> QED
          BY <2>3, <4>1
      <3> SUFFICES ASSUME NEW i \in DOMAIN took', NEW j \in DOMAIN took', i < j
                   PROVE  took'[i].hook < took'[j].hook
        OBVIOUS
      <3>3. i \in 1..Len(took) /\ (j \in 1..Len(took) \/ j = Len(took) + 1)
        BY <2>3, <3>1
      <3> QED
        BY <1>4, <2>2, <2>3, <3>2, <3>3
    <2>6. \A i \in DOMAIN took' : results'[i] = Hook!Outcome(hooks'[took'[i].hook], took'[i].did)
      <3>1. \A i : i \in 1..(Len(took) + 1) <=> i \in 1..Len(took) \/ i = Len(took) + 1
        BY <2>3
      <3>2. result = Hook!Outcome(hooks[deed.hook], deed.did)
        BY <2>2 DEF result, hook
      <3> QED
        BY <1>2, <1>4, <2>3, <3>1, <3>2
    <2> QED
      BY <1>2, <1>3, <1>4, <1>5, <2>3, <2>4, <2>5, <2>6, Zenon DEF HookInv
  <1> QED
    BY <1>1, <1>6, <1>7

\* The dispatcher's invariant is inductive, whatever part is at work.
LEMMA HookInductive ==
    /\ Init => HookInv
    /\ LibraryAssumption /\ HookInv /\ [Next]_vars => HookInv'
  <1>1. Init => HookInv
    <2> SUFFICES ASSUME Init PROVE HookInv
      OBVIOUS
    <2>1. /\ hooks = <<>> /\ installed = <<>> /\ next = 1 /\ event = "none"
          /\ took = <<>> /\ results = <<>>
      BY DEF Init, Hook!Init
    <2>2. Hook!Whole
      <3> DEFINE upto == [k \in 0..0 |-> 0]
      <3>1. Len(installed) = 0 /\ Len(hooks) = 0
        BY <2>1
      <3>2. upto \in [0..Len(installed) -> 0..Len(hooks)] /\ upto[0] = 0
        BY <3>1
      <3>3. 1..Len(installed) = {}
        BY <3>1
      <3> HIDE DEF upto
      <3> QED
        BY <3>1, <3>2, <3>3 DEF Hook!Whole
    <2>3. ToSet(installed) = {}
      BY <2>1 DEF ToSet
    <2> QED
      BY <2>1, <2>2, <2>3 DEF HookInv
  <1>2. ASSUME LibraryAssumption, HookInv, [Next]_vars PROVE HookInv'
    <2>1. CASE part = "hooks" /\ Hook!Next
      <3>1. ASSUME NEW plugin \in Plugin, Hook!Install(plugin) PROVE HookInv'
        <4>1. plugin.hooks \in Seq(HookConfig)
          BY <1>2, Zenon DEF LibraryAssumption, HookConfig
        <4> QED
          BY <1>2, <3>1, <4>1, InstallStep
      <3>2. ASSUME NEW e \in Event, NEW p \in Payload, Hook!Dispatch(e, p) PROVE HookInv'
        <4>1. /\ UNCHANGED <<hooks, installed>>
              /\ next' = 1 /\ results' = <<>> /\ took' = <<>>
          BY <3>2 DEF Hook!Dispatch
        <4>2. hooks' = hooks /\ installed' = installed
          BY <4>1
        <4>3. Hook!Whole' /\ ToSet(installed)' = ToSet(installed)
          BY <1>2, <4>2, Zenon DEF HookInv, Hook!Whole, ToSet
        <4>4. {t.hook : t \in ToSet(took)'} = {i \in 1..(next' - 1) : Hook!Fires(hooks[i])'}
          <5>1. ToSet(took)' = {} /\ 1..(next' - 1) = {}
            BY <4>1 DEF ToSet
          <5> QED
            BY <5>1
        <4>5. /\ next' \in Nat \ {0} /\ took' \in Seq(Deed) /\ results' \in Seq(Hook!Said)
              /\ Len(results') = Len(took') /\ DOMAIN took' = {}
          BY <4>1
        <4>6. /\ hooks \in Seq(HookConfig) /\ installed \in Seq(Plugin)
              /\ \A plugin \in ToSet(installed) :
                    plugin.manifest = "ok" /\ plugin.context # "unreadable"
          BY <1>2 DEF HookInv
        <4> QED
          BY <4>2, <4>3, <4>4, <4>5, <4>6, Zenon DEF HookInv
      <3>3. ASSUME NEW what \in Hook!Said \cup {"fails", "hangs"}, Hook!RunHook(what) PROVE HookInv'
        BY <1>2, <3>3, RunHookStep
      <3>4. CASE Hook!Finish
        <4>1. event' = "none" /\ UNCHANGED <<hooks, installed, next, results, took>>
          BY <3>4 DEF Hook!Finish
        <4>2. /\ hooks' = hooks /\ installed' = installed /\ next' = next
              /\ results' = results /\ took' = took
          BY <4>1
        <4>3. Hook!Whole' /\ ToSet(installed)' = ToSet(installed)
          BY <1>2, <4>2, Zenon DEF HookInv, Hook!Whole, ToSet
        <4> QED
          BY <1>2, <4>1, <4>2, <4>3, Zenon DEF HookInv
      <3> QED
        BY <2>1, <3>1, <3>2, <3>3, <3>4 DEF Hook!Next
    <2>2. CASE UNCHANGED hookVars
      <3>1. /\ hooks' = hooks /\ installed' = installed /\ next' = next /\ event' = event
            /\ payload' = payload /\ results' = results /\ took' = took
        BY <2>2 DEF hookVars
      <3>2. Hook!Whole' /\ ToSet(installed)' = ToSet(installed) /\ ToSet(took)' = ToSet(took)
            /\ \A i : Hook!Fires(hooks[i])' <=> Hook!Fires(hooks[i])
        BY <1>2, <3>1, Zenon DEF HookInv, Hook!Whole, ToSet, Hook!Fires
      <3>3. {i \in 1..(next' - 1) : Hook!Fires(hooks[i])'} = {i \in 1..(next - 1) : Hook!Fires(hooks[i])}
        BY <3>1, <3>2
      <3> QED
        BY <1>2, <3>1, <3>2, <3>3, Zenon DEF HookInv
    <2> QED
      BY <1>2, <2>1, <2>2 DEF Next, Others, vars
  <1> QED
    BY <1>1, <1>2

\* Whatever plugins are installed, or fail to be, and whatever their hooks say,
\* fail at or hang in: the dispatcher holds the installed ones' hooks whole and
\* in order, every hook that fires has one result, in the order of the hooks, and
\* only a hook that says so or may block stops anything (install_plugin_with,
\* HookDispatcher::dispatch).
THEOREM HooksAreAnswered == Spec => []HooksAnswer
  <1>1. HookInv => HooksAnswer
    <2> SUFFICES ASSUME HookInv PROVE HooksAnswer
      OBVIOUS
    <2>1. ASSUME event # "none", Hook!Denied
          PROVE  \E t \in ToSet(took) : t.did = "Deny" \/
                    (t.did \in {"fails", "hangs"} /\ hooks[t.hook].can_block)
      <3>1. results \in Seq(Hook!Said) /\ took \in Seq(Deed) /\ Len(results) = Len(took)
        BY DEF HookInv
      <3>2. DOMAIN results = DOMAIN took
        BY <3>1
      <3>3. PICK i \in DOMAIN took : results[i] = "Deny"
        BY <2>1, <3>2 DEF Hook!Denied, Hook!ToSet
      <3>4. took[i] \in ToSet(took) /\ took[i].did \in Hook!Said \cup {"fails", "hangs"}
        <4>1. \A d \in Deed : d.did \in Hook!Said \cup {"fails", "hangs"}
          BY DEF Deed
        <4> HIDE DEF Deed
        <4> QED
          BY <3>1, <4>1, Members DEF ToSet
      <3> DEFINE t == took[i]
                 h == hooks[took[i].hook]
      <3>5. Hook!Outcome(h, t.did) = "Deny"
        BY <2>1, <3>3 DEF HookInv
      <3>6. CASE t.did \in Hook!Said
        BY <3>4, <3>5, <3>6 DEF Hook!Outcome
      <3>7. CASE t.did \notin Hook!Said
        <4>1. CASE h.can_block
          BY <3>4, <3>7, <4>1
        <4>2. CASE ~h.can_block
          BY <3>5, <3>7, <4>2 DEF Hook!Outcome
        <4> QED
          BY <4>1, <4>2
      <3> QED
        BY <3>6, <3>7
    <2> QED
      BY <2>1, Zenon DEF HookInv, HooksAnswer, Hook!HooksAnswer, Hook!ToSet, ToSet
  <1> QED
    BY <1>1, HookInductive, LibraryAssumption, PTL DEF Spec

-----------------------------------------------------------------------------
(* AGENTS.md *)

\* The files that were begun, and those that are being read.
Begun == ToSet(visited)
BeingRead(f) == \E a \in 1..Len(stack) : stack[a].file = f

\* Of every file begun, ln says how far it was read, and at how long the text was
\* when each line was reached, or is if it has only been reached.

\* Each file on the stack imports the next.
FramesInv(at, ln) ==
    /\ \A a \in 1..Len(stack) :
          /\ stack[a].file \in Begun /\ stack[a].line = ln[stack[a].file]
          /\ at[stack[a].file][ln[stack[a].file]] = Len(out)
          /\ a = 1 => stack[a].file = visited[1]
          /\ a < Len(stack) => /\ ln[stack[a].file] > 1
                               /\ lines[stack[a].file][ln[stack[a].file] - 1] = stack[a + 1].file
                               /\ lines[stack[a].file][ln[stack[a].file] - 1] # Agents!Text
    /\ \A a, b \in 1..Len(stack) : stack[a].file = stack[b].file => a = b

\* What is not being read any more was read to its end.
FilesInv(at, ln) ==
    \A f \in Begun :
       /\ f \in present /\ ln[f] \in 1..(Len(lines[f]) + 1)
       /\ ~BeingRead(f) => ln[f] = Len(lines[f]) + 1
       /\ \A i \in 1..ln[f] : at[f][i] <= Len(out) /\ \A j \in i..ln[f] : at[f][i] <= at[f][j]

\* A line of text is one more line, an import all that the file is so far.
LinesInv(at, ln) ==
    \A f \in Begun : \A j \in 1..(ln[f] - 1) :
       /\ lines[f][j] = Agents!Text =>
             at[f][j + 1] = at[f][j] + 1 /\ out[at[f][j] + 1] = <<f, j>>
       /\ lines[f][j] # Agents!Text =>
             /\ lines[f][j] \in Begun /\ lines[f][j] # visited[1]
             /\ at[lines[f][j]][1] = at[f][j]
             /\ at[lines[f][j]][ln[lines[f][j]]] = at[f][j + 1]

\* The files begun are those asked for, each once.
AsksInv(ln) ==
    /\ \A f, g \in Begun : \A i \in 1..(ln[f] - 1), j \in 1..(ln[g] - 1) :
          lines[f][i] = lines[g][j] /\ lines[f][i] # Agents!Text => f = g /\ i = j
    /\ \A g \in Begun : g # visited[1] =>
          \E f \in Begun : \E j \in 1..(ln[f] - 1) : lines[f][j] = g /\ lines[f][j] # Agents!Text

\* The text is made of lines of text.
TextInv(at, ln) ==
    \A p \in 1..Len(out) : \E f \in Begun : \E j \in 1..(ln[f] - 1) :
       lines[f][j] = Agents!Text /\ out[p] = <<f, j>> /\ at[f][j] + 1 = p

LoadTypes(at, ln) ==
    /\ at \in [File -> [Nat -> Nat]] /\ ln \in [File -> Nat]
    /\ visited \in Seq(File) /\ visited # <<>> /\ out \in Seq(File \X Nat)
    /\ stack \in Seq([file : File, line : Nat])
    /\ lines \in [File -> Seq(File \cup {Agents!Text})]

ReadingInv(at, ln) ==
    /\ LoadTypes(at, ln) /\ FramesInv(at, ln) /\ FilesInv(at, ln) /\ LinesInv(at, ln)
    /\ AsksInv(ln) /\ TextInv(at, ln)

\* The inductive invariant of loading an AGENTS.md.
LoadInv ==
    /\ loaded \in {"no", "loading", "none", "ok", "error"}
    /\ loaded \in {"loading", "ok"} => \E at, ln : ReadingInv(at, ln)
    /\ loaded = "loading" <=> stack # <<>>
    /\ loaded = "error" => ~Agents!EachOnce
    /\ loaded = "no" => out = <<>>

\* A sequence with another thing in one place.
LEMMA Replaced ==
    ASSUME NEW X, NEW s \in Seq(X), NEW k \in 1..Len(s), NEW x \in X
    PROVE  /\ [s EXCEPT ![k] = x] \in Seq(X) /\ Len([s EXCEPT ![k] = x]) = Len(s)
           /\ \A i \in 1..Len(s) : i # k => [s EXCEPT ![k] = x][i] = s[i]
           /\ [s EXCEPT ![k] = x][k] = x
  OBVIOUS

\* The file being read, and its next line.
LEMMA TopOfStack ==
    ASSUME NEW at, NEW ln, ReadingInv(at, ln), stack # <<>>
    PROVE  LET n == Len(stack)
               f == stack[n].file
               l == stack[n].line
           IN  /\ n \in Nat /\ n \in 1..n /\ Agents!Top = stack[n]
               /\ f \in Begun /\ f \in File /\ l = ln[f] /\ l \in Nat /\ l \in 1..(Len(lines[f]) + 1)
               /\ at[f][l] = Len(out) /\ Len(out) \in Nat /\ Len(lines[f]) \in Nat
               /\ BeingRead(f)
  <1> DEFINE n == Len(stack)
             f == stack[n].file
             l == stack[n].line
  <1>1. LoadTypes(at, ln) /\ FramesInv(at, ln) /\ FilesInv(at, ln)
    BY DEF ReadingInv
  <1>0. stack \in Seq([file : File, line : Nat]) /\ out \in Seq(File \X Nat)
    BY <1>1, Zenon DEF LoadTypes
  <1>2. n \in Nat /\ n \in 1..n /\ stack[n] \in [file : File, line : Nat]
    <2>1. n \in Nat /\ n # 0
      BY <1>0
    <2>2. n \in 1..n
      BY <2>1
    <2>3. \A X : \A s \in Seq(X) : \A i \in 1..Len(s) : s[i] \in X
      OBVIOUS
    <2>4. stack[n] \in [file : File, line : Nat]
      BY <1>0, <2>2, <2>3, Zenon
    <2> QED
      BY <2>1, <2>2, <2>4
  <1>3. f \in Begun /\ l = ln[f] /\ at[f][l] = Len(out)
    BY <1>1, <1>2 DEF FramesInv
  <1>4. l \in 1..(Len(lines[f]) + 1)
    BY <1>1, <1>3 DEF FilesInv
  <1>5. Len(out) \in Nat /\ Len(lines[f]) \in Nat
    <2>1. lines \in [File -> Seq(File \cup {Agents!Text})]
      BY <1>1, Zenon DEF LoadTypes
    <2>2. f \in File
      BY <1>2
    <2>3. lines[f] \in Seq(File \cup {Agents!Text})
      BY <2>1, <2>2, Zenon
    <2> QED
      BY <1>0, <2>3
  <1>6. Agents!Top = stack[n] /\ BeingRead(f)
    BY <1>2 DEF Agents!Top, Agents!Last, BeingRead
  <1> QED
    BY <1>2, <1>3, <1>4, <1>5, <1>6

\* The files begun are files.
LEMMA BegunFiles ==
    ASSUME visited \in Seq(File)
    PROVE  \A f \in Begun : f \in File
  BY Members DEF Begun

\* One line of text more.
LEMMA ReadTextStep ==
    ASSUME NEW at, NEW ln, ReadingInv(at, ln), stack # <<>>, Agents!ReadText
    PROVE  stack' # <<>> /\ \E b, m : ReadingInv(b, m)'
  <1>1. PICK n, f, l : n = Len(stack) /\ f = stack[n].file /\ l = stack[n].line
    OBVIOUS
  <1>2. LoadTypes(at, ln) /\ FramesInv(at, ln) /\ FilesInv(at, ln) /\ LinesInv(at, ln)
        /\ AsksInv(ln) /\ TextInv(at, ln)
    BY DEF ReadingInv
  <1>3. /\ n \in Nat /\ n \in 1..n /\ Agents!Top = stack[n] /\ f \in Begun /\ f \in File
        /\ l = ln[f] /\ l \in Nat /\ l \in 1..(Len(lines[f]) + 1) /\ at[f][l] = Len(out)
        /\ Len(out) \in Nat /\ Len(lines[f]) \in Nat /\ BeingRead(f)
    BY <1>1, TopOfStack
  <1>4. /\ l <= Len(lines[f]) /\ lines[f][l] = Agents!Text
        /\ out' = Append(out, <<f, l>>) /\ stack' = [stack EXCEPT ![n].line = @ + 1]
        /\ present' = present /\ lines' = lines /\ visited' = visited /\ loaded' = loaded
    BY <1>1, <1>3 DEF Agents!ReadText, Agents!AtEnd, Agents!Line, Agents!Past
  <1>5. /\ out' \in Seq(File \X Nat) /\ Len(out') = Len(out) + 1
        /\ \A p \in 1..Len(out) : out'[p] = out[p]
        /\ out'[Len(out) + 1] = <<f, l>>
    <2>1. out \in Seq(File \X Nat) /\ <<f, l>> \in File \X Nat
      BY <1>2, <1>3, Zenon DEF LoadTypes
    <2> QED
      BY ONLY <1>4, <2>1
  <1>6. /\ stack' \in Seq([file : File, line : Nat]) /\ Len(stack') = n /\ stack' # <<>>
        /\ \A a \in 1..n : stack'[a].file = stack[a].file
        /\ \A a \in 1..n : a # n => stack'[a].line = stack[a].line
        /\ stack'[n].line = l + 1
    <2>1. stack \in Seq([file : File, line : Nat]) /\ n = Len(stack) /\ n \in 1..n /\ n \in Nat
          /\ stack[n].line = l
      BY <1>1, <1>2, <1>3, Zenon DEF LoadTypes
    <2>2. stack' = [stack EXCEPT ![n].line = @ + 1]
      BY <1>4
    <2>3. \A X : \A s \in Seq(X) : \A i \in 1..Len(s) : s[i] \in X
      OBVIOUS
    <2>10. stack[n] \in [file : File, line : Nat]
      BY <2>1, <2>3, Zenon
    <2>4. stack[n] \in [file : File, line : Nat] /\ l + 1 \in Nat
      BY <1>3, <2>10
    <2>5. PICK x : x = [stack[n] EXCEPT !.line = @ + 1]
      OBVIOUS
    <2>6. x \in [file : File, line : Nat] /\ x.file = stack[n].file /\ x.line = l + 1
      BY ONLY <2>1, <2>4, <2>5
    <2>7. stack' = [stack EXCEPT ![n] = x]
      BY <2>2, <2>5, Zenon
    <2>8. /\ stack' \in Seq([file : File, line : Nat]) /\ Len(stack') = Len(stack)
          /\ \A a \in 1..Len(stack) : a # n => stack'[a] = stack[a]
          /\ stack'[n] = x
      BY ONLY <2>1, <2>6, <2>7, Replaced
    <2>9. stack' # <<>>
      BY ONLY <2>1, <2>8
    <2> QED
      BY ONLY <2>1, <2>6, <2>8, <2>9
  <1>7. PICK m : m = [ln EXCEPT ![f] = l + 1]
    OBVIOUS
  <1>8. /\ m \in [File -> Nat] /\ m[f] = l + 1 /\ ln[f] = l /\ \A g \in File : g # f => m[g] = ln[g]
        /\ \A g \in File : ln[g] \in Nat
    <2>1. ln \in [File -> Nat]
      BY <1>2, Zenon DEF LoadTypes
    <2>2. f \in File /\ l \in Nat /\ l = ln[f]
      BY <1>3
    <2> QED
      BY ONLY <2>1, <2>2, <1>7
  <1>9. PICK b : b = [g \in File |-> [i \in Nat |-> IF BeingRead(g) /\ i = m[g] THEN Len(out) + 1
                                                      ELSE at[g][i]]]
    OBVIOUS
  <1>10. /\ b \in [File -> [Nat -> Nat]]
         /\ \A g \in File : \A i \in Nat : BeingRead(g) /\ i = m[g] => b[g][i] = Len(out) + 1
         /\ \A g \in File : \A i \in Nat : ~(BeingRead(g) /\ i = m[g]) => b[g][i] = at[g][i]
         /\ \A g \in File : \A i \in Nat : at[g][i] \in Nat
    <2>1. at \in [File -> [Nat -> Nat]] 
      BY <1>2, Zenon DEF LoadTypes
    <2>3. Len(out) + 1 \in Nat
      BY <1>3
    <2>2. \A g \in File : at[g] \in [Nat -> Nat] /\ \A i \in Nat : at[g][i] \in Nat
      BY <2>1, Zenon
    <2> QED
      BY ONLY <2>1, <2>2, <2>3, <1>9
  <1>11. Begun' = Begun /\ \A g : BeingRead(g)' <=> BeingRead(g)
    <2>1. Len(stack') = Len(stack) /\ \A a \in 1..Len(stack) : stack'[a].file = stack[a].file
      BY <1>1, <1>6
    <2> QED
      BY <1>4, <2>1 DEF Begun, BeingRead
  <1>12. \A g \in Begun : g \in File
    BY <1>2, BegunFiles DEF LoadTypes
  \* Only the top of the stack may be at its first line, and only the top has moved.
  <1>13. \A g \in File : BeingRead(g) => m[g] > 1
    <2> SUFFICES ASSUME NEW a \in 1..n PROVE m[stack[a].file] > 1
      BY <1>1 DEF BeingRead
    <2>1. CASE a = n
      BY <1>1, <1>3, <1>8, <2>1
    <2>2. CASE a # n
      <3>1. a < Len(stack) /\ a \in 1..Len(stack) /\ n \in 1..Len(stack)
        BY <1>1, <1>3, <2>2
      <3>2. ln[stack[a].file] > 1 /\ stack[a].file # f /\ stack[a].file \in Begun
        BY <1>1, <1>2, <2>2, <3>1 DEF FramesInv
      <3> QED
        BY <1>8, <1>12, <3>2
    <2> QED
      BY <2>1, <2>2
  <1>14. LoadTypes(b, m)'
    BY <1>2, <1>4, <1>5, <1>6, <1>8, <1>10 DEF LoadTypes
  <1>15. FramesInv(b, m)'
    <2>1. ASSUME NEW a \in 1..n
          PROVE  /\ stack'[a].file \in Begun' /\ stack'[a].line = m[stack'[a].file]
                 /\ b[stack'[a].file][m[stack'[a].file]] = Len(out')
                 /\ a = 1 => stack'[a].file = visited'[1]
                 /\ a < n => /\ m[stack'[a].file] > 1
                             /\ lines'[stack'[a].file][m[stack'[a].file] - 1] = stack'[a + 1].file
                             /\ lines'[stack'[a].file][m[stack'[a].file] - 1] # Agents!Text
      <3>1. PICK h : h = stack[a].file
        OBVIOUS
      <3>2. h \in Begun /\ h \in File /\ BeingRead(h) /\ stack'[a].file = h /\ (a = 1 => h = visited[1])
        BY <1>1, <1>2, <1>6, <1>12, <3>1 DEF FramesInv, BeingRead
      <3>3. stack'[a].line = m[h]
        <4>1. CASE a = n
          BY <1>1, <1>6, <1>8, <3>1, <4>1
        <4>2. CASE a # n
          <5>1. h # f /\ stack[a].line = ln[h]
            BY <1>1, <1>2, <1>3, <3>1, <4>2 DEF FramesInv
          <5> QED
            BY <1>6, <1>8, <3>2, <4>2, <5>1
        <4> QED
          BY <4>1, <4>2
      <3>4. b[h][m[h]] = Len(out')
        <4>1. m[h] \in Nat
          BY <1>8, <3>2
        <4> QED
          BY <1>5, <1>10, <3>2, <4>1
      <3>5. ASSUME a < n
            PROVE  /\ m[h] > 1 /\ lines'[h][m[h] - 1] = stack'[a + 1].file
                   /\ lines'[h][m[h] - 1] # Agents!Text
        <4>1. a \in 1..Len(stack) /\ a < Len(stack) /\ a # n /\ a + 1 \in 1..n
          BY <1>1, <1>3, <3>5
        <4>2. h # f /\ ln[h] > 1 /\ lines[h][ln[h] - 1] = stack[a + 1].file
              /\ lines[h][ln[h] - 1] # Agents!Text
          BY <1>1, <1>2, <1>3, <3>1, <4>1 DEF FramesInv
        <4>3. m[h] = ln[h]
          BY <1>8, <3>2, <4>2
        <4> QED
          BY <1>4, <1>6, <4>1, <4>2, <4>3
      <3> QED
        BY <1>4, <1>11, <3>2, <3>3, <3>4, <3>5
    <2>2. \A a, c \in 1..n : stack'[a].file = stack'[c].file => a = c
      BY <1>1, <1>2, <1>6 DEF FramesInv
    <2> QED
      BY <1>6, <2>1, <2>2 DEF FramesInv
  <1>16. FilesInv(b, m)'
    <2>1. ASSUME NEW g \in Begun
          PROVE  /\ g \in present' /\ m[g] \in 1..(Len(lines'[g]) + 1)
                 /\ ~BeingRead(g) => m[g] = Len(lines'[g]) + 1
                 /\ \A i \in 1..m[g] : b[g][i] <= Len(out') /\ \A j \in i..m[g] : b[g][i] <= b[g][j]
      <3>1. /\ g \in present /\ ln[g] \in 1..(Len(lines[g]) + 1)
            /\ ~BeingRead(g) => ln[g] = Len(lines[g]) + 1
            /\ \A i \in 1..ln[g] : at[g][i] <= Len(out) /\ \A j \in i..ln[g] : at[g][i] <= at[g][j]
        BY <1>2 DEF FilesInv
      <3>2. g \in present' /\ m[g] \in 1..(Len(lines'[g]) + 1)
            /\ (~BeingRead(g) => m[g] = Len(lines'[g]) + 1)
        BY <1>3, <1>4, <1>8, <1>12, <3>1
      <3>3. g \in File /\ m[g] \in Nat /\ ln[g] \in Nat
        BY <1>8, <1>12
      <3>4. \A i \in 1..m[g] : i \in Nat /\ (i # m[g] \/ g # f => i \in 1..ln[g])
                               /\ \A j \in i..m[g] : j \in 1..m[g] /\ j \in Nat /\ (j # m[g] => i # m[g])
        BY <1>3, <1>8, <3>3
      <3>5. ASSUME NEW i \in 1..m[g]
            PROVE  b[g][i] <= Len(out) + 1
        <4>1. CASE BeingRead(g) /\ i = m[g]
          <5>1. b[g][i] = Len(out) + 1
            BY <1>10, <3>3, <4>1
          <5> QED
            BY <1>3, <5>1
        <4>2. CASE ~(BeingRead(g) /\ i = m[g])
          <5>1. i \in 1..ln[g] /\ b[g][i] = at[g][i] /\ at[g][i] \in Nat
            BY <1>3, <1>10, <3>3, <3>4, <4>2
          <5>2. at[g][i] <= Len(out)
            BY <3>1, <5>1
          <5> QED
            BY <1>3, <5>1, <5>2
        <4> QED
          BY <4>1, <4>2
      <3>6. ASSUME NEW i \in 1..m[g], NEW j \in i..m[g]
            PROVE  b[g][i] <= b[g][j]
        <4>1. CASE BeingRead(g) /\ j = m[g]
          <5>1. b[g][j] = Len(out) + 1
            BY <1>10, <3>3, <4>1
          <5> QED
            BY <3>5, <5>1
        <4>2. CASE ~(BeingRead(g) /\ j = m[g])
          <5>1. j \in Nat /\ i \in Nat /\ ~(BeingRead(g) /\ i = m[g]) /\ j \in 1..m[g]
            BY <3>4, <4>2
          <5>2. b[g][j] = at[g][j] /\ b[g][i] = at[g][i]
            BY <1>10, <3>3, <4>2, <5>1
          <5>3. i \in 1..ln[g] /\ j \in i..ln[g]
            <6>1. i \in 1..ln[g] /\ j \in 1..ln[g]
              BY <1>3, <3>4, <4>2, <5>1
            <6> QED
              BY <3>3, <6>1
          <5> QED
            BY <3>1, <5>2, <5>3
        <4> QED
          BY <4>1, <4>2
      <3> QED
        BY <1>5, <3>2, <3>5, <3>6
    <2> QED
      BY <1>11, <2>1, Zenon DEF FilesInv
  <1>17. LinesInv(b, m)'
    <2>1. ASSUME NEW g \in Begun, NEW j \in 1..(m[g] - 1)
          PROVE  /\ lines[g][j] = Agents!Text =>
                       b[g][j + 1] = b[g][j] + 1 /\ out'[b[g][j] + 1] = <<g, j>>
                 /\ lines[g][j] # Agents!Text =>
                       /\ lines[g][j] \in Begun /\ lines[g][j] # visited[1]
                       /\ b[lines[g][j]][1] = b[g][j]
                       /\ b[lines[g][j]][m[lines[g][j]]] = b[g][j + 1]
      <3>1. g \in File /\ m[g] \in Nat /\ ln[g] \in Nat /\ j \in Nat /\ j + 1 \in Nat /\ j < m[g]
        BY <1>8, <1>12
      <3>2. b[g][j] = at[g][j] /\ at[g][j] \in Nat
        BY <1>10, <3>1
      <3>3. CASE g = f /\ j = l
        <4>1. b[g][j + 1] = Len(out) + 1
          BY <1>3, <1>8, <1>10, <3>1, <3>3
        <4> QED
          BY <1>3, <1>4, <1>5, <3>2, <3>3, <4>1
      <3>4. CASE ~(g = f /\ j = l)
        <4>1. j \in 1..(ln[g] - 1) /\ j \in 1..ln[g] /\ j + 1 \in 1..ln[g]
          BY <1>3, <1>8, <3>1, <3>4
        <4>2. /\ lines[g][j] = Agents!Text =>
                   at[g][j + 1] = at[g][j] + 1 /\ out[at[g][j] + 1] = <<g, j>>
              /\ lines[g][j] # Agents!Text =>
                   /\ lines[g][j] \in Begun /\ lines[g][j] # visited[1]
                   /\ at[lines[g][j]][1] = at[g][j]
                   /\ at[lines[g][j]][ln[lines[g][j]]] = at[g][j + 1]
          BY <1>2, <4>1 DEF LinesInv
        \* The line behind is where the reading is only if it is an import's.
        <4>3. ASSUME BeingRead(g), j + 1 = m[g]
              PROVE  lines[g][j] # Agents!Text /\ BeingRead(lines[g][j])
          <5>1. PICK a \in 1..n : stack[a].file = g
            BY <1>1, <4>3 DEF BeingRead
          <5>2. a # n
            BY <1>1, <1>8, <3>4, <4>3, <5>1, <1>3, <3>1
          <5>3. a \in 1..Len(stack) /\ a < Len(stack) /\ a + 1 \in 1..Len(stack) /\ n \in 1..Len(stack)
            BY <1>1, <1>3, <5>2
          <5>4. /\ lines[g][ln[g] - 1] = stack[a + 1].file /\ lines[g][ln[g] - 1] # Agents!Text
                /\ g # f
            BY <1>1, <1>2, <5>1, <5>2, <5>3 DEF FramesInv
          <5>5. ln[g] - 1 = j
            BY <1>8, <3>1, <4>3, <5>4
          <5> QED
            BY <5>3, <5>4, <5>5 DEF BeingRead
        <4>4. CASE lines[g][j] = Agents!Text
          <5>1. b[g][j + 1] = at[g][j + 1]
            BY <1>10, <3>1, <4>3, <4>4
          <5>2. at[g][j] + 1 \in 1..Len(out)
            <6>1. at[g][j + 1] <= Len(out)
              BY <1>2, <4>1 DEF FilesInv
            <6> QED
              BY <1>3, <3>2, <4>2, <4>4, <6>1
          <5> QED
            BY <1>5, <3>2, <4>2, <4>4, <5>1, <5>2
        <4>5. CASE lines[g][j] # Agents!Text
          <5>1. PICK k : k = lines[g][j]
            OBVIOUS
          <5>2. k \in Begun /\ k # visited[1] /\ k \in File /\ m[k] \in Nat /\ ln[k] \in Nat
                /\ at[k][1] = at[g][j] /\ at[k][ln[k]] = at[g][j + 1]
            BY <1>8, <1>12, <4>2, <4>5, <5>1
          <5>3. b[k][1] = at[k][1]
            <6>1. BeingRead(k) => m[k] # 1
              BY <1>13, <5>2
            <6> QED
              BY <1>10, <5>2, <6>1
          <5>4. CASE BeingRead(k)
            <6>1. PICK a \in 1..n : stack[a].file = k
              BY <1>1, <5>4 DEF BeingRead
            <6>2. a \in 1..Len(stack) /\ a # 1
              BY <1>1, <1>2, <5>2, <6>1 DEF FramesInv
            <6>3. a - 1 \in 1..Len(stack) /\ a - 1 < Len(stack) /\ (a - 1) + 1 = a
                  /\ n \in 1..Len(stack) /\ a - 1 # n
              BY <1>1, <1>3, <6>2
            <6>4. PICK h : h = stack[a - 1].file
              OBVIOUS
            <6>5. /\ h \in Begun /\ h # f /\ ln[h] > 1
                  /\ lines[h][ln[h] - 1] = k
              BY <1>1, <1>2, <6>1, <6>3, <6>4 DEF FramesInv
            <6>6. ln[h] - 1 \in 1..(ln[h] - 1) /\ h \in File /\ ln[h] \in Nat
              BY <1>8, <1>12, <6>5
            <6>7. h = g /\ ln[h] - 1 = j
              BY <1>2, <4>1, <4>5, <5>1, <6>5, <6>6 DEF AsksInv
            <6>8. BeingRead(g) /\ m[g] = ln[g] /\ j + 1 = m[g]
              <7>1. BeingRead(h)
                BY <6>3, <6>4 DEF BeingRead
              <7>2. m[h] = ln[h] /\ (ln[h] - 1) + 1 = ln[h]
                BY <1>8, <6>5, <6>6
              <7> QED
                BY <6>7, <7>1, <7>2
            <6>9. b[g][j + 1] = Len(out) + 1
              BY <1>10, <3>1, <6>8
            <6>10. b[k][m[k]] = Len(out) + 1
              BY <1>10, <5>2, <5>4
            <6> QED
              BY <3>2, <4>5, <5>1, <5>2, <5>3, <6>9, <6>10
          <5>5. CASE ~BeingRead(k)
            <6>1. b[g][j + 1] = at[g][j + 1]
              BY <1>10, <3>1, <4>3, <5>1, <5>5
            <6>2. k # f
              BY <1>3, <5>5
            <6>3. m[k] = ln[k]
              BY <1>8, <5>2, <6>2
            <6>4. b[k][m[k]] = at[k][ln[k]]
              BY <1>10, <5>2, <5>5, <6>3
            <6> QED
              BY <3>2, <4>5, <5>1, <5>2, <5>3, <6>1, <6>4
          <5> QED
            BY <5>4, <5>5
        <4> QED
          BY <4>4, <4>5
      <3> QED
        BY <3>3, <3>4
    <2> QED
      BY <1>4, <1>11, <2>1, Zenon DEF LinesInv
  <1>18. \A g \in Begun : \A j \in 1..(m[g] - 1) : j \in 1..(ln[g] - 1) \/ (g = f /\ j = l)
    <2> SUFFICES ASSUME NEW g \in Begun, NEW j \in 1..(m[g] - 1)
                 PROVE  j \in 1..(ln[g] - 1) \/ (g = f /\ j = l)
      OBVIOUS
    <2>1. g \in File /\ m[g] \in Nat /\ ln[g] \in Nat
      BY <1>8, <1>12
    <2> QED
      BY <1>3, <1>8, <2>1
  <1>19. \A g \in Begun : \A j \in 1..(ln[g] - 1) : j \in 1..(m[g] - 1)
    <2> SUFFICES ASSUME NEW g \in Begun, NEW j \in 1..(ln[g] - 1) PROVE j \in 1..(m[g] - 1)
      OBVIOUS
    <2>1. g \in File /\ m[g] \in Nat /\ ln[g] \in Nat
      BY <1>8, <1>12
    <2> QED
      BY <1>3, <1>8, <2>1
  <1>20. AsksInv(m)'
    <2>1. \A g, h \in Begun : \A i \in 1..(m[g] - 1), j \in 1..(m[h] - 1) :
             lines[g][i] = lines[h][j] /\ lines[g][i] # Agents!Text => g = h /\ i = j
      BY <1>2, <1>4, <1>18 DEF AsksInv
    <2>2. \A g \in Begun : g # visited[1] =>
             \E h \in Begun : \E j \in 1..(m[h] - 1) : lines[h][j] = g /\ lines[h][j] # Agents!Text
      BY <1>2, <1>19 DEF AsksInv
    <2> QED
      <3>1. lines' = lines /\ visited' = visited /\ Begun' = Begun
        BY <1>4, <1>11
      <3> QED
        BY <2>1, <2>2, <3>1 DEF AsksInv
  <1>21. TextInv(b, m)'
    <2>1. ASSUME NEW p \in 1..(Len(out) + 1)
          PROVE  \E g \in Begun : \E j \in 1..(m[g] - 1) :
                    lines[g][j] = Agents!Text /\ out'[p] = <<g, j>> /\ b[g][j] + 1 = p
      <3>1. CASE p = Len(out) + 1
        <4>1. l \in 1..(m[f] - 1) /\ b[f][l] = at[f][l]
          <5>1. l \in 1..(m[f] - 1) /\ l # m[f] /\ l \in Nat
            BY <1>3, <1>8
          <5> QED
            BY <1>3, <1>10, <5>1
        <4> QED
          BY <1>3, <1>4, <1>5, <3>1, <4>1
      <3>2. CASE p # Len(out) + 1
        <4>1. p \in 1..Len(out)
          BY <1>3, <3>2
        <4>2. PICK g \in Begun : \E j \in 1..(ln[g] - 1) :
                 lines[g][j] = Agents!Text /\ out[p] = <<g, j>> /\ at[g][j] + 1 = p
          BY <1>2, <4>1 DEF TextInv
        <4>3. PICK j \in 1..(ln[g] - 1) :
                 lines[g][j] = Agents!Text /\ out[p] = <<g, j>> /\ at[g][j] + 1 = p
          BY <4>2
        <4>4. j \in 1..(m[g] - 1)
          BY <1>19
        <4>5. b[g][j] = at[g][j]
          <5>1. g \in File /\ m[g] \in Nat /\ j \in Nat /\ j # m[g]
            BY <1>8, <1>12, <4>4
          <5> QED
            BY <1>10, <5>1
        <4> QED
          BY <1>5, <4>1, <4>3, <4>4, <4>5
      <3> QED
        BY <3>1, <3>2
    <2> QED
      BY <1>4, <1>5, <1>11, <2>1, Zenon DEF TextInv
  <1>22. ReadingInv(b, m)'
    BY <1>14, <1>15, <1>16, <1>17, <1>20, <1>21, Zenon DEF ReadingInv
  <1> QED
    BY <1>6, <1>22, Zenon

\* A file that was read to its end is left.
LEMMA LeaveStep ==
    ASSUME NEW at, NEW ln, ReadingInv(at, ln), stack # <<>>, Agents!Leave
    PROVE  ReadingInv(at, ln)'
  <1>1. PICK n, f, l : n = Len(stack) /\ f = stack[n].file /\ l = stack[n].line
    OBVIOUS
  <1>2. LoadTypes(at, ln) /\ FramesInv(at, ln) /\ FilesInv(at, ln) /\ LinesInv(at, ln)
        /\ AsksInv(ln) /\ TextInv(at, ln)
    BY DEF ReadingInv
  <1>3. /\ n \in Nat /\ n \in 1..n /\ Agents!Top = stack[n] /\ f \in Begun /\ f \in File
        /\ l = ln[f] /\ l \in Nat /\ l \in 1..(Len(lines[f]) + 1) /\ Len(lines[f]) \in Nat
    BY <1>1, TopOfStack
  <1>4. /\ l > Len(lines[f]) /\ stack' = Agents!Front(stack)
        /\ present' = present /\ lines' = lines /\ visited' = visited /\ out' = out
    BY <1>1, <1>3 DEF Agents!Leave, Agents!AtEnd
  <1>5. stack \in Seq([file : File, line : Nat])
    BY <1>2, Zenon DEF LoadTypes
  <1>6. /\ stack' \in Seq([file : File, line : Nat]) /\ Len(stack') = n - 1
        /\ \A a \in 1..(n - 1) : stack'[a] = stack[a]
    <2>1. stack' = SubSeq(stack, 1, n - 1)
      BY <1>1, <1>4 DEF Agents!Front
    <2>2. \A i \in 1..(n - 1) : i \in 1..n
      BY <1>3
    <2>3. \A i \in 1..n : stack[i] \in [file : File, line : Nat]
      <3>1. \A X : \A s \in Seq(X) : \A i \in 1..Len(s) : s[i] \in X
        OBVIOUS
      <3> QED
        BY <1>1, <1>5, <3>1, Zenon
    <2>4. \A i \in 1..(n - 1) : stack[i] \in [file : File, line : Nat]
      BY <2>2, <2>3
    <2>5. 1 \in Int /\ n - 1 \in Int /\ (IF 1 <= n - 1 THEN (n - 1) - 1 + 1 ELSE 0) = n - 1
          /\ (n - 1) - 1 + 1 = n - 1 /\ \A i \in 1..(n - 1) : 1 + i - 1 = i
      BY <1>3
    <2>6. /\ SubSeq(stack, 1, n - 1) \in Seq([file : File, line : Nat])
          /\ Len(SubSeq(stack, 1, n - 1)) = IF 1 <= n - 1 THEN (n - 1) - 1 + 1 ELSE 0
          /\ \A i \in 1..((n - 1) - 1 + 1) : SubSeq(stack, 1, n - 1)[i] = stack[1 + i - 1]
      BY ONLY <2>4, <2>5, SubSeqProperties
    <2> QED
      BY <2>1, <2>5, <2>6
  <1>7. \A a \in 1..(n - 1) : a \in 1..n /\ a < n
    BY <1>3
  <1>8. Begun' = Begun
    BY <1>4 DEF Begun
  <1>9. LoadTypes(at, ln)'
    <2>1. /\ at \in [File -> [Nat -> Nat]] /\ ln \in [File -> Nat]
          /\ visited \in Seq(File) /\ visited # <<>> /\ out \in Seq(File \X Nat)
          /\ lines \in [File -> Seq(File \cup {Agents!Text})]
      BY <1>2, Zenon DEF LoadTypes
    <2> QED
      BY <1>4, <1>6, <2>1, Zenon DEF LoadTypes
  <1>10. FramesInv(at, ln)'
    <2>1. ASSUME NEW a \in 1..(n - 1)
          PROVE  /\ stack'[a].file \in Begun' /\ stack'[a].line = ln[stack'[a].file]
                 /\ at[stack'[a].file][ln[stack'[a].file]] = Len(out')
                 /\ a = 1 => stack'[a].file = visited'[1]
                 /\ a < n - 1 => /\ ln[stack'[a].file] > 1
                                 /\ lines'[stack'[a].file][ln[stack'[a].file] - 1] = stack'[a + 1].file
                                 /\ lines'[stack'[a].file][ln[stack'[a].file] - 1] # Agents!Text
      <3>1. a \in 1..Len(stack) /\ a < Len(stack)
        BY <1>1, <1>7
      <3>2. a < n - 1 => a + 1 \in 1..(n - 1)
        BY <1>3
      <3>3. /\ stack[a].file \in Begun /\ stack[a].line = ln[stack[a].file]
            /\ at[stack[a].file][ln[stack[a].file]] = Len(out)
            /\ a = 1 => stack[a].file = visited[1]
            /\ ln[stack[a].file] > 1
            /\ lines[stack[a].file][ln[stack[a].file] - 1] = stack[a + 1].file
            /\ lines[stack[a].file][ln[stack[a].file] - 1] # Agents!Text
        BY <1>2, <3>1 DEF FramesInv
      <3>4. stack'[a] = stack[a] /\ (a < n - 1 => stack'[a + 1] = stack[a + 1])
        BY <1>6, <3>2
      <3> QED
        BY <1>4, <1>8, <3>3, <3>4
    <2>2. \A a, c \in 1..(n - 1) : stack'[a].file = stack'[c].file => a = c
      <3>1. \A a, c \in 1..n : stack[a].file = stack[c].file => a = c
        BY <1>1, <1>2 DEF FramesInv
      <3> QED
        BY <1>6, <1>7, <3>1
    <2> QED
      BY <1>6, <2>1, <2>2 DEF FramesInv
  <1>11. FilesInv(at, ln)'
    <2>1. ASSUME NEW g \in Begun, ~BeingRead(g)'
          PROVE  ln[g] = Len(lines[g]) + 1
      <3>1. CASE g = f
        BY <1>3, <1>4, <3>1
      <3>2. CASE g # f
        <4>1. ~BeingRead(g)
          <5> SUFFICES ASSUME NEW a \in 1..n, stack[a].file = g PROVE FALSE
            BY <1>1 DEF BeingRead
          <5>1. a \in 1..(n - 1)
            BY <1>1, <1>3, <3>2
          <5>2. stack'[a].file = g /\ a \in 1..Len(stack')
            BY <1>6, <5>1
          <5> QED
            BY <2>1, <5>2 DEF BeingRead
        <4> QED
          BY <1>2, <4>1 DEF FilesInv
      <3> QED
        BY <3>1, <3>2
    <2>2. \A g \in Begun :
             /\ g \in present /\ ln[g] \in 1..(Len(lines[g]) + 1)
             /\ \A i \in 1..ln[g] : at[g][i] <= Len(out) /\ \A j \in i..ln[g] : at[g][i] <= at[g][j]
      BY <1>2, Zenon DEF FilesInv
    <2> QED
      BY <1>4, <1>8, <2>1, <2>2, Zenon DEF FilesInv
  <1>12. LinesInv(at, ln)'
    BY <1>2, <1>4, <1>8, Zenon DEF LinesInv
  <1>13. AsksInv(ln)'
    BY <1>2, <1>4, <1>8 DEF AsksInv
  <1>14. TextInv(at, ln)'
    BY <1>2, <1>4, <1>8, Zenon DEF TextInv
  <1> QED
    BY <1>9, <1>10, <1>11, <1>12, <1>13, <1>14, Zenon DEF ReadingInv

\* A file that is imported goes on the stack.
LEMMA ImportStep ==
    ASSUME NEW at, NEW ln, ReadingInv(at, ln), stack # <<>>, Agents!Import, loaded' = "loading"
    PROVE  stack' # <<>> /\ \E b, m : ReadingInv(b, m)'
  <1>1. PICK n, f, l : n = Len(stack) /\ f = stack[n].file /\ l = stack[n].line
    OBVIOUS
  <1>2. LoadTypes(at, ln) /\ FramesInv(at, ln) /\ FilesInv(at, ln) /\ LinesInv(at, ln)
        /\ AsksInv(ln) /\ TextInv(at, ln)
    BY DEF ReadingInv
  <1>3. /\ n \in Nat /\ n \in 1..n /\ Agents!Top = stack[n] /\ f \in Begun /\ f \in File
        /\ l = ln[f] /\ l \in Nat /\ l \in 1..(Len(lines[f]) + 1) /\ at[f][l] = Len(out)
        /\ Len(out) \in Nat /\ Len(lines[f]) \in Nat /\ BeingRead(f)
    BY <1>1, TopOfStack
  <1>4. PICK g : g = lines[f][l]
    OBVIOUS
  <1>5. /\ l <= Len(lines[f]) /\ g # Agents!Text /\ g \notin Begun /\ g \in present
        /\ visited' = Append(visited, g)
        /\ stack' = Append([stack EXCEPT ![n].line = @ + 1], [file |-> g, line |-> 1])
        /\ present' = present /\ lines' = lines /\ out' = out
    <2>1. Agents!Line = g /\ Agents!Past = [stack EXCEPT ![n].line = @ + 1]
          /\ (Agents!AtEnd <=> l > Len(lines[f])) /\ (Agents!Visited(g) <=> g \in Begun)
      BY <1>1, <1>3, <1>4 DEF Agents!Line, Agents!Past, Agents!AtEnd, Agents!Visited, Begun,
         Agents!ToSet, ToSet
    <2>2. ~(Agents!Visited(g) \/ g \notin present)
      BY <2>1 DEF Agents!Import
    <2> QED
      BY <1>3, <2>1, <2>2 DEF Agents!Import
  <1>6. g \in File
    <2>1. lines[f] \in Seq(File \cup {Agents!Text})
      BY <1>2, <1>3, Zenon DEF LoadTypes
    <2>2. lines[f][l] \in File \cup {Agents!Text}
      <3>1. l \in 1..Len(lines[f])
        BY <1>3, <1>5
      <3>2. \A X : \A s \in Seq(X) : \A i \in 1..Len(s) : s[i] \in X
        OBVIOUS
      <3> QED
        BY <2>1, <3>1, <3>2, Zenon
    <2> QED
      BY <1>4, <1>5, <2>2
  <1>7. visited \in Seq(File) /\ visited # <<>>
    BY <1>2, Zenon DEF LoadTypes
  <1>8. /\ visited' \in Seq(File) /\ visited' # <<>> /\ visited'[1] = visited[1]
        /\ visited[1] \in Begun
        /\ \A h : h \in Begun' <=> h \in Begun \/ h = g
    <2>1. visited' \in Seq(File) /\ \A h : h \in ToSet(visited') <=> h \in ToSet(visited) \/ h = g
      BY <1>5, <1>6, <1>7, Appended
    <2>2. visited' # <<>> /\ visited'[1] = visited[1]
      BY <1>5, <1>6, <1>7
    <2>3. visited[1] \in ToSet(visited)
      BY <1>7 DEF ToSet
    <2> QED
      BY <2>1, <2>2, <2>3 DEF Begun
  <1>9. \A h \in Begun : h \in File /\ h # g
    BY <1>5, <1>7, BegunFiles
  <1>10. /\ stack' \in Seq([file : File, line : Nat]) /\ Len(stack') = n + 1 /\ stack' # <<>>
         /\ \A a \in 1..n : stack'[a].file = stack[a].file
         /\ \A a \in 1..n : a # n => stack'[a].line = stack[a].line
         /\ stack'[n].line = l + 1
         /\ stack'[n + 1].file = g /\ stack'[n + 1].line = 1
    <2>1. stack \in Seq([file : File, line : Nat]) /\ n = Len(stack) /\ n \in 1..n /\ n \in Nat
          /\ stack[n].line = l
      BY <1>1, <1>2, <1>3, Zenon DEF LoadTypes
    <2>2. \A X : \A s \in Seq(X) : \A i \in 1..Len(s) : s[i] \in X
      OBVIOUS
    <2>3. stack[n] \in [file : File, line : Nat]
      BY <2>1, <2>2, Zenon
    <2>4. l + 1 \in Nat
      BY <1>3
    <2>5. PICK x, s, y : /\ x = [stack[n] EXCEPT !.line = @ + 1] /\ s = [stack EXCEPT ![n] = x]
                         /\ y = [file |-> g, line |-> 1]
      OBVIOUS
    <2>6. x \in [file : File, line : Nat] /\ x.file = stack[n].file /\ x.line = l + 1
      BY ONLY <2>1, <2>3, <2>4, <2>5
    <2>7. stack' = Append(s, y)
      BY <1>5, <2>5, Zenon
    <2>8. /\ s \in Seq([file : File, line : Nat]) /\ Len(s) = Len(stack)
          /\ \A a \in 1..Len(stack) : a # n => s[a] = stack[a]
          /\ s[n] = x
      BY ONLY <2>1, <2>5, <2>6, Replaced
    <2>9. y \in [file : File, line : Nat] /\ y.file = g /\ y.line = 1
      BY <1>6, <2>5
    <2>10. \A X : \A t \in Seq(X) : \A z \in X :
              /\ Append(t, z) \in Seq(X) /\ Len(Append(t, z)) = Len(t) + 1 /\ Append(t, z) # <<>>
              /\ \A a \in 1..Len(t) : Append(t, z)[a] = t[a]
              /\ Append(t, z)[Len(t) + 1] = z
      OBVIOUS
    <2>11. /\ stack' \in Seq([file : File, line : Nat]) /\ Len(stack') = n + 1 /\ stack' # <<>>
           /\ \A a \in 1..n : stack'[a] = s[a]
           /\ stack'[n + 1] = y
      <3>1. PICK X : X = [file : File, line : Nat]
        OBVIOUS
      <3>2. s \in Seq(X) /\ y \in X
        BY <2>8, <2>9, <3>1
      <3>3. /\ Append(s, y) \in Seq(X) /\ Len(Append(s, y)) = Len(s) + 1 /\ Append(s, y) # <<>>
            /\ \A a \in 1..Len(s) : Append(s, y)[a] = s[a]
            /\ Append(s, y)[Len(s) + 1] = y
        BY ONLY <3>2, <2>10
      <3>4. Len(s) = n
        BY ONLY <2>1, <2>8
      <3> QED
        BY ONLY <2>7, <3>1, <3>3, <3>4
    <2> QED
      BY ONLY <2>1, <2>6, <2>8, <2>9, <2>11
  <1>11. PICK m : m = [ln EXCEPT ![f] = l + 1, ![g] = 1]
    OBVIOUS
  <1>12. /\ m \in [File -> Nat] /\ m[f] = l + 1 /\ m[g] = 1
         /\ \A h \in File : h # f /\ h # g => m[h] = ln[h]
         /\ \A h \in File : ln[h] \in Nat
    <2>1. ln \in [File -> Nat]
      BY <1>2, Zenon DEF LoadTypes
    <2>2. f \in File /\ g \in File /\ f # g /\ l \in Nat
      BY <1>3, <1>6, <1>9
    <2> QED
      BY ONLY <2>1, <2>2, <1>11
  <1>13. PICK b : b = [h \in File |-> [i \in Nat |-> IF (h = f /\ i = l + 1) \/ h = g THEN Len(out)
                                                       ELSE at[h][i]]]
    OBVIOUS
  <1>14. /\ b \in [File -> [Nat -> Nat]]
         /\ b[f][l + 1] = Len(out) /\ \A i \in Nat : b[g][i] = Len(out)
         /\ \A h \in Begun : \A i \in Nat : ~(h = f /\ i = l + 1) => b[h][i] = at[h][i]
         /\ \A h \in File : \A i \in Nat : at[h][i] \in Nat
    <2>1. at \in [File -> [Nat -> Nat]]
      BY <1>2, Zenon DEF LoadTypes
    <2>2. \A h \in File : at[h] \in [Nat -> Nat] /\ \A i \in Nat : at[h][i] \in Nat
      BY <2>1, Zenon
    <2>3. Len(out) \in Nat /\ f \in File /\ g \in File /\ f # g /\ l + 1 \in Nat
      BY <1>3, <1>6, <1>9
    <2>4. \A h \in Begun : h \in File /\ h # g
      BY <1>9
    <2> QED
      BY ONLY <2>1, <2>2, <2>3, <2>4, <1>13
  <1>15. \A h \in Begun : \A j \in 1..(ln[h] - 1) :
            /\ j \in 1..(m[h] - 1) /\ j \in Nat /\ j + 1 \in Nat
            /\ b[h][j] = at[h][j] /\ b[h][j + 1] = at[h][j + 1]
    <2> SUFFICES ASSUME NEW h \in Begun, NEW j \in 1..(ln[h] - 1)
                 PROVE  /\ j \in 1..(m[h] - 1) /\ j \in Nat /\ j + 1 \in Nat
                        /\ b[h][j] = at[h][j] /\ b[h][j + 1] = at[h][j + 1]
      OBVIOUS
    <2>1. h \in File /\ h # g /\ ln[h] \in Nat
      BY <1>9, <1>12
    <2>2. j \in Nat /\ j + 1 \in Nat /\ j + 1 <= ln[h]
      BY <2>1
    <2>3. j \in 1..(m[h] - 1)
      BY <1>3, <1>12, <2>1
    <2>4. ~(h = f /\ j = l + 1) /\ ~(h = f /\ j + 1 = l + 1)
      BY <1>3, <2>2
    <2> QED
      BY <1>14, <2>2, <2>3, <2>4
  <1>16. \A h \in Begun : \A j \in 1..(m[h] - 1) : j \in 1..(ln[h] - 1) \/ (h = f /\ j = l)
    <2> SUFFICES ASSUME NEW h \in Begun, NEW j \in 1..(m[h] - 1)
                 PROVE  j \in 1..(ln[h] - 1) \/ (h = f /\ j = l)
      OBVIOUS
    <2>1. h \in File /\ h # g /\ ln[h] \in Nat
      BY <1>9, <1>12
    <2> QED
      BY <1>3, <1>12, <2>1
  <1>17. \A j : j \notin 1..(m[g] - 1)
    BY <1>12
  <1>18. l \in 1..(m[f] - 1)
    BY <1>3, <1>12
  <1>19. LoadTypes(b, m)'
    <2>1. out \in Seq(File \X Nat) /\ lines \in [File -> Seq(File \cup {Agents!Text})]
      BY <1>2, Zenon DEF LoadTypes
    <2> QED
      BY <1>5, <1>8, <1>10, <1>12, <1>14, <2>1, Zenon DEF LoadTypes
  <1>20. FramesInv(b, m)'
    <2>1. ASSUME NEW a \in 1..n
          PROVE  /\ stack'[a].file \in Begun' /\ stack'[a].line = m[stack'[a].file]
                 /\ b[stack'[a].file][m[stack'[a].file]] = Len(out')
                 /\ a = 1 => stack'[a].file = visited'[1]
                 /\ m[stack'[a].file] > 1
                 /\ lines'[stack'[a].file][m[stack'[a].file] - 1] = stack'[a + 1].file
                 /\ lines'[stack'[a].file][m[stack'[a].file] - 1] # Agents!Text
      <3>1. PICK h : h = stack[a].file
        OBVIOUS
      <3>2. h \in Begun /\ h \in File /\ stack'[a].file = h /\ (a = 1 => h = visited[1]) /\ h # g
        BY <1>1, <1>2, <1>9, <1>10, <3>1 DEF FramesInv
      <3>3. CASE a = n
        <4>1. h = f /\ stack'[a].line = l + 1 /\ stack'[a + 1].file = g
          BY <1>1, <1>10, <3>1, <3>3
        <4>2. m[h] = l + 1 /\ m[h] > 1 /\ m[h] - 1 = l
          BY <1>3, <1>12, <4>1
        <4> QED
          BY <1>4, <1>5, <1>8, <1>14, <3>2, <4>1, <4>2
      <3>4. CASE a # n
        <4>1. a \in 1..Len(stack) /\ a < Len(stack) /\ a + 1 \in 1..n /\ n \in 1..Len(stack)
          BY <1>1, <1>3, <3>4
        <4>2. /\ h # f /\ stack[a].line = ln[h] /\ at[h][ln[h]] = Len(out)
              /\ ln[h] > 1 /\ lines[h][ln[h] - 1] = stack[a + 1].file
              /\ lines[h][ln[h] - 1] # Agents!Text
          BY <1>1, <1>2, <3>1, <3>4, <4>1 DEF FramesInv
        <4>3. m[h] = ln[h] /\ m[h] \in Nat
          BY <1>12, <3>2, <4>2
        <4>4. b[h][m[h]] = Len(out)
          <5>1. ~(h = f /\ m[h] = l + 1) /\ m[h] \in Nat
            BY <4>2, <4>3
          <5>2. b[h][m[h]] = at[h][m[h]]
            BY <1>14, <3>2, <5>1
          <5> QED
            BY <4>2, <4>3, <5>2
        <4> QED
          BY <1>5, <1>8, <1>10, <3>2, <3>4, <4>1, <4>2, <4>3, <4>4
      <3> QED
        BY <3>3, <3>4
    <2>2. /\ stack'[n + 1].file \in Begun' /\ stack'[n + 1].line = m[stack'[n + 1].file]
          /\ b[stack'[n + 1].file][m[stack'[n + 1].file]] = Len(out')
      <3>1. stack'[n + 1].file = g /\ stack'[n + 1].line = 1 /\ g \in Begun' /\ m[g] = 1
        BY <1>8, <1>10, <1>12
      <3>2. b[g][1] = Len(out')
        BY <1>5, <1>14
      <3> QED
        BY <3>1, <3>2
    <2>3. \A a, c \in 1..(n + 1) : stack'[a].file = stack'[c].file => a = c
      <3>1. \A a \in 1..n : stack'[a].file # g
        BY <1>1, <1>2, <1>9, <1>10 DEF FramesInv
      <3>2. \A a \in 1..(n + 1) : a \in 1..n \/ a = n + 1
        BY <1>3
      <3>3. \A a, c \in 1..n : stack'[a].file = stack'[c].file => a = c
        BY <1>1, <1>2, <1>10 DEF FramesInv
      <3> QED
        BY <1>10, <3>1, <3>2, <3>3
    <2>4. \A a \in 1..(n + 1) : (a \in 1..n /\ a < n + 1) \/ (a = n + 1 /\ a # 1 /\ ~(a < n + 1))
      BY <1>3
    <2>5. Len(stack') = n + 1
      BY <1>10
    <2>6. ASSUME NEW a \in 1..(n + 1)
          PROVE  /\ stack'[a].file \in Begun' /\ stack'[a].line = m[stack'[a].file]
                 /\ b[stack'[a].file][m[stack'[a].file]] = Len(out')
                 /\ a = 1 => stack'[a].file = visited'[1]
                 /\ a < n + 1 => /\ m[stack'[a].file] > 1
                                 /\ lines'[stack'[a].file][m[stack'[a].file] - 1] = stack'[a + 1].file
                                 /\ lines'[stack'[a].file][m[stack'[a].file] - 1] # Agents!Text
      <3>1. CASE a \in 1..n
        BY <2>1, <3>1
      <3>2. CASE a = n + 1 /\ a # 1 /\ ~(a < n + 1)
        BY <2>2, <3>2
      <3> QED
        BY <2>4, <3>1, <3>2
    <2> QED
      BY <2>3, <2>5, <2>6, Zenon DEF FramesInv
  <1>21. FilesInv(b, m)'
    <2>1. ASSUME NEW h \in Begun
          PROVE  /\ h \in present' /\ m[h] \in 1..(Len(lines'[h]) + 1)
                 /\ ~BeingRead(h)' => m[h] = Len(lines'[h]) + 1
                 /\ \A i \in 1..m[h] : b[h][i] <= Len(out') /\ \A j \in i..m[h] : b[h][i] <= b[h][j]
      <3>1. /\ h \in present /\ ln[h] \in 1..(Len(lines[h]) + 1)
            /\ ~BeingRead(h) => ln[h] = Len(lines[h]) + 1
            /\ \A i \in 1..ln[h] : at[h][i] <= Len(out) /\ \A j \in i..ln[h] : at[h][i] <= at[h][j]
        BY <1>2 DEF FilesInv
      <3>2. h \in File /\ m[h] \in Nat /\ ln[h] \in Nat /\ h # g
        BY <1>9, <1>12
      <3>3. BeingRead(h) => BeingRead(h)'
        <4>1. \A a \in 1..Len(stack) : a \in 1..Len(stack') /\ stack'[a].file = stack[a].file
          BY <1>1, <1>3, <1>10
        <4> QED
          BY <4>1 DEF BeingRead
      <3>4. h \in present' /\ m[h] \in 1..(Len(lines'[h]) + 1)
            /\ (~BeingRead(h)' => m[h] = Len(lines'[h]) + 1)
        <4>1. CASE h = f
          BY <1>3, <1>5, <1>12, <3>1, <3>3, <4>1
        <4>2. CASE h # f
          BY <1>5, <1>12, <3>1, <3>2, <3>3, <4>2
        <4> QED
          BY <4>1, <4>2
      <3>5. \A i \in 1..m[h] : /\ i \in Nat /\ (i \in 1..ln[h] \/ (h = f /\ i = l + 1))
                               /\ \A j \in i..m[h] : /\ j \in 1..m[h]
                                                     /\ (i = l + 1 /\ h = f => j = i)
                                                     /\ (j \in 1..ln[h] => i \in 1..ln[h] /\ j \in i..ln[h])
        <4>1. CASE h = f
          BY <1>3, <1>12, <3>2, <4>1
        <4>2. CASE h # f
          BY <1>12, <3>2, <4>2
        <4> QED
          BY <4>1, <4>2
      <3>6. ASSUME NEW i \in 1..m[h]
            PROVE  b[h][i] <= Len(out) /\ (i \in 1..ln[h] => b[h][i] = at[h][i])
        <4>1. CASE i \in 1..ln[h]
          <5>1. ~(h = f /\ i = l + 1)
            BY <1>3, <4>1
          <5> QED
            BY <1>14, <3>1, <3>5, <4>1, <5>1
        <4>2. CASE h = f /\ i = l + 1
          <5>1. i \notin 1..ln[h] /\ Len(out) <= Len(out)
            BY <1>3, <4>2
          <5> QED
            BY <1>14, <4>2, <5>1
        <4> QED
          BY <3>5, <4>1, <4>2
      <3>7. ASSUME NEW i \in 1..m[h], NEW j \in i..m[h]
            PROVE  b[h][i] <= b[h][j]
        <4>1. j \in 1..m[h]
          BY <3>5
        <4>2. CASE j \in 1..ln[h]
          BY <3>1, <3>5, <3>6, <4>1, <4>2
        <4>3. CASE h = f /\ j = l + 1
          BY <1>14, <3>6, <4>3
        <4> QED
          BY <3>5, <4>1, <4>2, <4>3
      <3> QED
        BY <1>5, <3>4, <3>6, <3>7
    <2>2. /\ g \in present' /\ m[g] \in 1..(Len(lines'[g]) + 1)
          /\ \A i \in 1..m[g] : b[g][i] <= Len(out') /\ \A j \in i..m[g] : b[g][i] <= b[g][j]
      <3>1. Len(lines[g]) \in Nat
        <4>1. lines \in [File -> Seq(File \cup {Agents!Text})]
          BY <1>2, Zenon DEF LoadTypes
        <4>2. lines[g] \in Seq(File \cup {Agents!Text})
          BY <1>6, <4>1, Zenon
        <4> QED
          BY <4>2
      <3>2. m[g] \in 1..(Len(lines[g]) + 1)
        BY <1>12, <3>1
      <3>3. \A i \in 1..m[g] : i \in Nat /\ \A j \in i..m[g] : j \in Nat
        BY <1>12
      <3> QED
        <4>1. \A i \in 1..m[g] : b[g][i] <= Len(out') /\ \A j \in i..m[g] : b[g][i] <= b[g][j]
          <5>1. \A i \in Nat : b[g][i] = Len(out') /\ Len(out') \in Nat
            BY <1>3, <1>5, <1>14
          <5>2. \A x \in Nat : x <= x
            OBVIOUS
          <5> QED
            BY <3>3, <5>1, <5>2
        <4> QED
          BY <1>5, <3>2, <4>1
    <2>3. BeingRead(g)'
      <3>1. n + 1 \in 1..Len(stack')
        BY <1>3, <1>10
      <3> QED
        BY <1>10, <3>1 DEF BeingRead
    <2>4. ASSUME NEW h \in Begun'
          PROVE  /\ h \in present' /\ m[h] \in 1..(Len(lines'[h]) + 1)
                 /\ ~BeingRead(h)' => m[h] = Len(lines'[h]) + 1
                 /\ \A i \in 1..m[h] : b[h][i] <= Len(out') /\ \A j \in i..m[h] : b[h][i] <= b[h][j]
      <3>1. CASE h \in Begun
        BY <2>1, <3>1
      <3>2. CASE h = g
        BY <2>2, <2>3, <3>2
      <3> QED
        BY <1>8, <3>1, <3>2
    <2> QED
      BY <2>4, Zenon DEF FilesInv
  <1>22. LinesInv(b, m)'
    <2>1. ASSUME NEW h \in Begun', NEW j \in 1..(m[h] - 1)
          PROVE  /\ lines[h][j] = Agents!Text =>
                       b[h][j + 1] = b[h][j] + 1 /\ out[b[h][j] + 1] = <<h, j>>
                 /\ lines[h][j] # Agents!Text =>
                       /\ lines[h][j] \in Begun' /\ lines[h][j] # visited[1]
                       /\ b[lines[h][j]][1] = b[h][j]
                       /\ b[lines[h][j]][m[lines[h][j]]] = b[h][j + 1]
      <3>1. h \in Begun
        BY <1>8, <1>17
      <3>2. CASE h = f /\ j = l
        <4>1. b[f][l] = Len(out) /\ b[f][l + 1] = Len(out) /\ b[g][1] = Len(out)
          <5>1. l # l + 1
            BY <1>3
          <5> QED
            BY <1>3, <1>14, <5>1
        <4> QED
          BY <1>4, <1>5, <1>8, <1>12, <3>2, <4>1
      <3>3. CASE j \in 1..(ln[h] - 1)
        <4>1. /\ lines[h][j] = Agents!Text =>
                   at[h][j + 1] = at[h][j] + 1 /\ out[at[h][j] + 1] = <<h, j>>
              /\ lines[h][j] # Agents!Text =>
                   /\ lines[h][j] \in Begun /\ lines[h][j] # visited[1]
                   /\ at[lines[h][j]][1] = at[h][j]
                   /\ at[lines[h][j]][ln[lines[h][j]]] = at[h][j + 1]
          BY <1>2, <3>1, <3>3 DEF LinesInv
        <4>2. b[h][j] = at[h][j] /\ b[h][j + 1] = at[h][j + 1]
          BY <1>15, <3>1, <3>3
        <4>3. CASE lines[h][j] = Agents!Text
          BY <4>1, <4>2, <4>3
        <4>4. CASE lines[h][j] # Agents!Text
          <5>1. PICK k : k = lines[h][j]
            OBVIOUS
          <5>2. /\ k \in Begun /\ k \in File /\ k # g /\ k # visited[1] /\ ln[k] \in Nat
                /\ at[k][1] = at[h][j] /\ at[k][ln[k]] = at[h][j + 1]
            BY <1>9, <1>12, <4>1, <4>4, <5>1
          <5>3. b[k][1] = at[k][1]
            <6>1. l + 1 # 1
              BY <1>3
            <6> QED
              BY <1>14, <5>2, <6>1
          <5>4. b[k][m[k]] = at[k][ln[k]]
            <6>1. CASE k = f
              BY <1>3, <1>12, <1>14, <5>2, <6>1
            <6>2. CASE k # f
              <7>1. m[k] = ln[k]
                BY <1>12, <5>2, <6>2
              <7>2. b[k][ln[k]] = at[k][ln[k]]
                BY <1>14, <5>2, <6>2
              <7> QED
                BY <7>1, <7>2
            <6> QED
              BY <6>1, <6>2
          <5> QED
            BY <1>8, <4>2, <4>4, <5>1, <5>2, <5>3, <5>4
        <4> QED
          BY <4>3, <4>4
      <3> QED
        BY <1>16, <3>1, <3>2, <3>3
    <2>2. lines' = lines /\ out' = out /\ visited'[1] = visited[1]
      BY <1>5, <1>8
    <2> QED
      <3> DEFINE Hold(L, O, root) ==
             \A h \in Begun' : \A j \in 1..(m[h] - 1) :
                /\ L[h][j] = Agents!Text =>
                      b[h][j + 1] = b[h][j] + 1 /\ O[b[h][j] + 1] = <<h, j>>
                /\ L[h][j] # Agents!Text =>
                      /\ L[h][j] \in Begun' /\ L[h][j] # root
                      /\ b[L[h][j]][1] = b[h][j]
                      /\ b[L[h][j]][m[L[h][j]]] = b[h][j + 1]
      <3>1. Hold(lines, out, visited[1])
        BY <2>1, Zenon
      <3>2. Hold(lines, out, visited[1]) = Hold(lines', out', visited'[1])
        <4> HIDE DEF Hold
        <4> QED
          BY <2>2
      <3>3. Hold(lines', out', visited'[1])
        <4> HIDE DEF Hold
        <4> QED
          BY <3>1, <3>2, Zenon
      <3> QED
        BY <3>3, Zenon DEF LinesInv
  <1>23. AsksInv(m)'
    <2>1. \A h \in Begun' : \A j \in 1..(m[h] - 1) :
             h \in Begun /\ (j \in 1..(ln[h] - 1) \/ (h = f /\ j = l))
      BY <1>8, <1>16, <1>17
    <2>2. \A h \in Begun : \A j \in 1..(ln[h] - 1) : lines[h][j] # Agents!Text => lines[h][j] # g
      BY <1>2, <1>5 DEF LinesInv
    <2>3. \A h, k \in Begun' : \A i \in 1..(m[h] - 1), j \in 1..(m[k] - 1) :
             lines[h][i] = lines[k][j] /\ lines[h][i] # Agents!Text => h = k /\ i = j
      <3> SUFFICES ASSUME NEW h \in Begun', NEW k \in Begun',
                          NEW i \in 1..(m[h] - 1), NEW j \in 1..(m[k] - 1),
                          lines[h][i] = lines[k][j], lines[h][i] # Agents!Text
                   PROVE  h = k /\ i = j
        OBVIOUS
      <3>1. h \in Begun /\ (i \in 1..(ln[h] - 1) \/ (h = f /\ i = l))
        BY <2>1
      <3>2. k \in Begun /\ (j \in 1..(ln[k] - 1) \/ (k = f /\ j = l))
        BY <2>1
      <3>3. CASE i \in 1..(ln[h] - 1) /\ j \in 1..(ln[k] - 1)
        BY <1>2, <3>1, <3>2, <3>3 DEF AsksInv
      <3> QED
        BY <1>4, <2>2, <3>1, <3>2, <3>3
    <2>4. ASSUME NEW k \in Begun', k # visited[1]
          PROVE  \E h \in Begun' : \E j \in 1..(m[h] - 1) : lines[h][j] = k /\ lines[h][j] # Agents!Text
      <3>1. CASE k = g
        BY <1>3, <1>4, <1>5, <1>8, <1>18, <3>1
      <3>2. CASE k \in Begun
        <4>1. PICK h \in Begun : \E j \in 1..(ln[h] - 1) : lines[h][j] = k /\ lines[h][j] # Agents!Text
          BY <1>2, <2>4, <3>2 DEF AsksInv
        <4>2. PICK j \in 1..(ln[h] - 1) : lines[h][j] = k /\ lines[h][j] # Agents!Text
          BY <4>1
        <4> QED
          BY <1>8, <1>15, <4>2
      <3> QED
        BY <1>8, <3>1, <3>2
    <2>5. lines' = lines /\ visited'[1] = visited[1]
      BY <1>5, <1>8
    <2> QED
      BY <2>3, <2>4, <2>5 DEF AsksInv
  <1>24. TextInv(b, m)'
    <2>1. ASSUME NEW p \in 1..Len(out)
          PROVE  \E h \in Begun' : \E j \in 1..(m[h] - 1) :
                    lines[h][j] = Agents!Text /\ out[p] = <<h, j>> /\ b[h][j] + 1 = p
      <3>1. PICK h \in Begun : \E j \in 1..(ln[h] - 1) :
               lines[h][j] = Agents!Text /\ out[p] = <<h, j>> /\ at[h][j] + 1 = p
        BY <1>2 DEF TextInv
      <3>2. PICK j \in 1..(ln[h] - 1) :
               lines[h][j] = Agents!Text /\ out[p] = <<h, j>> /\ at[h][j] + 1 = p
        BY <3>1
      <3> QED
        BY <1>8, <1>15, <3>2
    <2> QED
      BY <1>5, <2>1, Zenon DEF TextInv
  <1>25. ReadingInv(b, m)'
    BY <1>19, <1>20, <1>21, <1>22, <1>23, <1>24, Zenon DEF ReadingInv
  <1> QED
    BY <1>10, <1>25, Zenon

\* When all is read to the end, the text that stands for a line is where the line was.
LEMMA Within ==
    ASSUME NEW at, NEW ln, ReadingInv(at, ln), stack = <<>>,
           NEW f \in Begun, NEW i \in DOMAIN lines[f],
           NEW a \in DOMAIN out, out[a] \in Agents!For(<<f, i>>)
    PROVE  at[f][i] < a /\ a <= at[f][i + 1]
  <1>1. LoadTypes(at, ln) /\ FilesInv(at, ln) /\ LinesInv(at, ln) /\ TextInv(at, ln)
    BY DEF ReadingInv
  <1>2. /\ at \in [File -> [Nat -> Nat]] /\ ln \in [File -> Nat] /\ visited \in Seq(File)
        /\ out \in Seq(File \X Nat) /\ lines \in [File -> Seq(File \cup {Agents!Text})]
    BY <1>1, Zenon DEF LoadTypes
  <1>3. \A h \in Begun : h \in File
    BY <1>2, BegunFiles
  <1>4. \A h \in Begun : \A k \in Nat : at[h][k] \in Nat
    <2>1. \A h \in File : at[h] \in [Nat -> Nat]
      BY <1>2, Zenon
    <2> QED
      BY <1>3, <2>1
  <1>5. \A h \in Begun : Len(lines[h]) \in Nat /\ DOMAIN lines[h] = 1..Len(lines[h])
    <2>1. \A h \in File : lines[h] \in Seq(File \cup {Agents!Text})
      BY <1>2, Zenon
    <2>2. \A X : \A s \in Seq(X) : Len(s) \in Nat /\ DOMAIN s = 1..Len(s)
      OBVIOUS
    <2> QED
      BY <1>3, <2>1, <2>2, Zenon
  <1>6. \A h : ~BeingRead(h)
    <2>1. \A j : j \notin 1..Len(stack)
      OBVIOUS
    <2> QED
      BY <2>1, Zenon DEF BeingRead
  <1>7. \A h \in Begun : ln[h] = Len(lines[h]) + 1
    BY <1>1, <1>6, Zenon DEF FilesInv
  <1>8. \A h \in Begun : \A k \in DOMAIN lines[h] :
           /\ k \in Nat /\ k + 1 \in Nat /\ k \in 1..(ln[h] - 1)
           /\ 1 \in 1..ln[h] /\ k \in 1..ln[h] /\ k + 1 \in 1..ln[h]
           /\ k \in 1..ln[h] /\ ln[h] \in (k + 1)..ln[h]
    BY <1>5, <1>7
  <1>9. \A h \in Begun : \A k \in DOMAIN lines[h] :
           /\ at[h][1] <= at[h][k] /\ at[h][k + 1] <= at[h][ln[h]]
    <2> SUFFICES ASSUME NEW h \in Begun, NEW k \in DOMAIN lines[h]
                 PROVE  at[h][1] <= at[h][k] /\ at[h][k + 1] <= at[h][ln[h]]
      OBVIOUS
    <2>1. \A u \in 1..ln[h] : \A v \in u..ln[h] : at[h][u] <= at[h][v]
      BY <1>1 DEF FilesInv
    <2> QED
      BY <1>8, <2>1
  <1>10. PICK h \in Begun : \E k \in 1..(ln[h] - 1) :
            lines[h][k] = Agents!Text /\ out[a] = <<h, k>> /\ at[h][k] + 1 = a
    <2>1. \A X : \A s \in Seq(X) : \A j \in DOMAIN s : j \in 1..Len(s)
      OBVIOUS
    <2>2. a \in 1..Len(out)
      BY <1>2, <2>1, Zenon
    <2> QED
      BY <1>1, <2>2 DEF TextInv
  <1>11. PICK k \in 1..(ln[h] - 1) :
            lines[h][k] = Agents!Text /\ out[a] = <<h, k>> /\ at[h][k] + 1 = a
    BY <1>10
  <1>12. k \in DOMAIN lines[h] /\ at[h][k + 1] = a /\ k \in Nat /\ at[h][k] \in Nat
    <2>1. k \in DOMAIN lines[h] /\ k \in Nat
      BY <1>5, <1>7
    <2>2. at[h][k + 1] = at[h][k] + 1
      BY <1>1, <1>11 DEF LinesInv
    <2> QED
      BY <1>4, <1>11, <2>1, <2>2
  <1>13. Agents!At(<<f, i>>) = lines[f][i]
    BY DEF Agents!At
  <1>14. CASE lines[f][i] = Agents!Text
    <2>1. out[a] = <<f, i>>
      BY <1>13, <1>14 DEF Agents!For
    <2>2. h = f /\ k = i
      BY <1>11, <2>1, Pairs
    <2> QED
      BY <1>11, <1>12, <2>2
  <1>15. CASE lines[f][i] # Agents!Text
    <2>1. PICK g : g = lines[f][i]
      OBVIOUS
    <2>2. /\ g \in Begun /\ at[g][1] = at[f][i] /\ at[g][ln[g]] = at[f][i + 1]
      BY <1>1, <1>8, <1>15, <2>1 DEF LinesInv
    <2> DEFINE S == {u \in Begun : at[f][i] <= at[u][1] /\ at[u][ln[u]] <= at[f][i + 1]}
    <2>3. S \in SUBSET File
      BY <1>3
    <2>4. at[f][i] \in Nat /\ at[f][i + 1] \in Nat
      BY <1>4, <1>8
    <2>5. g \in S
      BY <2>2, <2>4
    <2>6. ASSUME NEW u \in S, NEW v \in DOMAIN lines[u], Agents!At(<<u, v>>) # Agents!Text
          PROVE  Agents!At(<<u, v>>) \in S
      <3>1. PICK w : w = lines[u][v]
        OBVIOUS
      <3>2. Agents!At(<<u, v>>) = w
        BY <3>1 DEF Agents!At
      <3>3. u \in Begun /\ at[f][i] <= at[u][1] /\ at[u][ln[u]] <= at[f][i + 1]
        OBVIOUS
      <3>4. /\ w \in Begun /\ at[w][1] = at[u][v] /\ at[w][ln[w]] = at[u][v + 1]
        BY <1>1, <1>8, <2>6, <3>1, <3>2, <3>3 DEF LinesInv
      <3>5. at[u][1] <= at[u][v] /\ at[u][v + 1] <= at[u][ln[u]]
        BY <1>9, <3>3
      <3>6. /\ at[u][1] \in Nat /\ at[u][v] \in Nat /\ at[u][v + 1] \in Nat
            /\ at[u][ln[u]] \in Nat
        <4>1. 1 \in Nat /\ v \in Nat /\ v + 1 \in Nat /\ ln[u] \in Nat
          BY <1>2, <1>3, <1>8, <3>3
        <4> QED
          BY <1>4, <3>3, <4>1
      <3>7. at[f][i] <= at[w][1] /\ at[w][ln[w]] <= at[f][i + 1]
        BY <2>4, <3>3, <3>4, <3>5, <3>6
      <3> QED
        BY <3>2, <3>4, <3>7
    <2> HIDE DEF S
    <2>7. out[a] \in Agents!Texts /\ out[a][1] \in Agents!Brought(g)
      BY <1>13, <1>15, <2>1 DEF Agents!For
    <2>8. h \in S
      <3>1. \A T \in SUBSET File :
               /\ g \in T
               /\ \A u \in T : \A v \in DOMAIN lines[u] :
                     Agents!At(<<u, v>>) # Agents!Text => Agents!At(<<u, v>>) \in T
               => out[a][1] \in T
        BY <2>7 DEF Agents!Brought
      <3>2. out[a][1] \in S
        BY <2>3, <2>5, <2>6, <3>1
      <3>3. out[a][1] = h
        BY <1>11
      <3> QED
        BY <3>2, <3>3
    <2>9. at[f][i] <= at[h][1] /\ at[h][ln[h]] <= at[f][i + 1]
      BY <2>8 DEF S
    <2>10. at[h][1] <= at[h][k] /\ a <= at[h][ln[h]]
      BY <1>9, <1>12
    <2>11. at[h][1] \in Nat /\ at[h][ln[h]] \in Nat
      <3>1. 1 \in Nat /\ ln[h] \in Nat
        BY <1>2, <1>3
      <3> QED
        BY <1>4, <3>1
    <2>12. a \in Nat
      BY <1>11, <1>12
    <2> QED
      BY <1>11, <1>12, <2>4, <2>9, <2>10, <2>11, <2>12
  <1> QED
    BY <1>14, <1>15

\* What was read to its end is as written, and no file was asked for twice.
LEMMA AllIsRead ==
    ASSUME NEW at, NEW ln, ReadingInv(at, ln), stack = <<>>
    PROVE  Agents!AsWritten /\ Agents!EachOnce
  <1>1. LoadTypes(at, ln) /\ FilesInv(at, ln) /\ LinesInv(at, ln) /\ TextInv(at, ln) /\ AsksInv(ln)
    BY DEF ReadingInv
  <1>2. /\ at \in [File -> [Nat -> Nat]] /\ ln \in [File -> Nat] /\ visited \in Seq(File)
        /\ out \in Seq(File \X Nat) /\ lines \in [File -> Seq(File \cup {Agents!Text})]
    BY <1>1, Zenon DEF LoadTypes
  <1>3. \A h \in Begun : h \in File
    BY <1>2, BegunFiles
  <1>4. \A h \in Begun : \A k \in Nat : at[h][k] \in Nat
    <2>1. \A h \in File : at[h] \in [Nat -> Nat]
      BY <1>2, Zenon
    <2> QED
      BY <1>3, <2>1
  <1>5. \A h \in Begun : Len(lines[h]) \in Nat /\ DOMAIN lines[h] = 1..Len(lines[h])
    <2>1. \A h \in File : lines[h] \in Seq(File \cup {Agents!Text})
      BY <1>2, Zenon
    <2>2. \A X : \A s \in Seq(X) : Len(s) \in Nat /\ DOMAIN s = 1..Len(s)
      OBVIOUS
    <2> QED
      BY <1>3, <2>1, <2>2, Zenon
  <1>6. \A h : ~BeingRead(h)
    <2>1. \A j : j \notin 1..Len(stack)
      OBVIOUS
    <2> QED
      BY <2>1, Zenon DEF BeingRead
  <1>7. \A h \in Begun : ln[h] = Len(lines[h]) + 1
    BY <1>1, <1>6, Zenon DEF FilesInv
  <1>8. \A h \in Begun : DOMAIN lines[h] = 1..(ln[h] - 1)
    BY <1>5, <1>7
  <1>9. Len(out) \in Nat /\ DOMAIN out = 1..Len(out)
    BY <1>2
  <1>10. ASSUME NEW p \in Agents!Lines
         PROVE  /\ p[1] \in Begun /\ p[2] \in DOMAIN lines[p[1]] /\ p[2] \in 1..(ln[p[1]] - 1)
                /\ p = <<p[1], p[2]>> /\ Agents!At(p) = lines[p[1]][p[2]]
    <2>1. PICK h \in Begun : p \in {h} \X DOMAIN lines[h]
      BY DEF Agents!Lines, Begun, Agents!ToSet, ToSet
    <2>2. PICK k \in DOMAIN lines[h] : p = <<h, k>>
      BY <2>1
    <2>3. p[1] = h /\ p[2] = k
      BY <2>2
    <2> QED
      BY <1>8, <2>2, <2>3 DEF Agents!At
  <1>11. \A h \in Begun : \A k \in DOMAIN lines[h] :
            <<h, k>> \in Agents!Lines /\ Agents!At(<<h, k>>) = lines[h][k]
    BY DEF Agents!Lines, Begun, Agents!ToSet, ToSet, Agents!At
  <1>12. Agents!EachOnce
    <2>1. ASSUME NEW p \in Agents!Imports
          PROVE  /\ p \in Agents!Lines /\ Agents!At(p) # Agents!Text
                 /\ Agents!At(p) \in present /\ Agents!At(p) # visited[1]
      <3>1. p \in Agents!Lines /\ Agents!At(p) # Agents!Text
        BY DEF Agents!Imports, Agents!Texts
      <3>2. PICK f, i : f = p[1] /\ i = p[2]
        OBVIOUS
      <3>3. f \in Begun /\ i \in 1..(ln[f] - 1) /\ Agents!At(p) = lines[f][i]
        BY <1>10, <3>1, <3>2
      <3>4. lines[f][i] \in Begun /\ lines[f][i] # visited[1]
        BY <1>1, <3>1, <3>3 DEF LinesInv
      <3>5. lines[f][i] \in present
        BY <1>1, <3>4 DEF FilesInv
      <3> QED
        BY <3>1, <3>3, <3>4, <3>5
    <2>2. ASSUME NEW p \in Agents!Imports, NEW q \in Agents!Imports, Agents!At(p) = Agents!At(q)
          PROVE  p = q
      <3>1. PICK f, i, g, j : f = p[1] /\ i = p[2] /\ g = q[1] /\ j = q[2]
        OBVIOUS
      <3>2. /\ f \in Begun /\ i \in 1..(ln[f] - 1) /\ Agents!At(p) = lines[f][i] /\ p = <<f, i>>
            /\ g \in Begun /\ j \in 1..(ln[g] - 1) /\ Agents!At(q) = lines[g][j] /\ q = <<g, j>>
        BY <1>10, <2>1, <3>1
      <3>3. lines[f][i] # Agents!Text /\ lines[f][i] = lines[g][j]
        BY <2>1, <2>2, <3>2
      <3>4. f = g /\ i = j
        BY <1>1, <3>2, <3>3 DEF AsksInv
      <3> QED
        BY <3>2, <3>4
    <2> QED
      BY <2>1, <2>2 DEF Agents!EachOnce
  <1>13. ASSUME NEW a \in DOMAIN out
         PROVE  \E h \in Begun : \E k \in DOMAIN lines[h] :
                   lines[h][k] = Agents!Text /\ out[a] = <<h, k>> /\ at[h][k] + 1 = a
    BY <1>1, <1>8, <1>9 DEF TextInv
  <1>14. Agents!IsInjective(out)
    <2> SUFFICES ASSUME NEW a \in DOMAIN out, NEW b \in DOMAIN out, out[a] = out[b] PROVE a = b
      BY DEF Agents!IsInjective
    <2>1. PICK h, k : out[a] = <<h, k>> /\ at[h][k] + 1 = a
      BY <1>13
    <2>2. PICK g, j : out[b] = <<g, j>> /\ at[g][j] + 1 = b
      BY <1>13
    <2>4. <<h, k>> = <<g, j>>
      BY <2>1, <2>2, Zenon
    <2>3. h = g /\ k = j
      BY ONLY <2>4, Pairs
    <2> QED
      BY <2>1, <2>2, <2>3
  <1>15. \A p \in Agents!Texts : p \in ToSet(out)
    <2> SUFFICES ASSUME NEW p \in Agents!Texts PROVE p \in ToSet(out)
      OBVIOUS
    <2>1. p \in Agents!Lines /\ Agents!At(p) = Agents!Text
      BY DEF Agents!Texts
    <2>2. PICK f, i : f = p[1] /\ i = p[2]
      OBVIOUS
    <2>3. f \in Begun /\ i \in 1..(ln[f] - 1) /\ p = <<f, i>> /\ lines[f][i] = Agents!Text
      BY <1>10, <2>1, <2>2
    <2>4. at[f][i + 1] = at[f][i] + 1 /\ out[at[f][i] + 1] = <<f, i>>
      BY <1>1, <2>3 DEF LinesInv
    <2>5. i \in Nat /\ i + 1 \in 1..ln[f] /\ ln[f] \in Nat
      <3>1. ln[f] \in Nat
        BY <1>2, <1>3, <2>3
      <3> QED
        BY <2>3, <3>1
    <2>6. at[f][i] + 1 <= Len(out)
      BY <1>1, <2>3, <2>4, <2>5 DEF FilesInv
    <2>7. at[f][i] \in Nat
      BY <1>4, <2>3, <2>5
    <2>8. at[f][i] + 1 \in DOMAIN out
      BY <1>9, <2>6, <2>7
    <2> QED
      BY <2>3, <2>4, <2>8 DEF ToSet
  <1>16. \A p \in ToSet(out) : p \in Agents!Texts
    <2> SUFFICES ASSUME NEW a \in DOMAIN out PROVE out[a] \in Agents!Texts
      BY DEF ToSet
    <2>1. PICK h \in Begun : \E k \in DOMAIN lines[h] :
             lines[h][k] = Agents!Text /\ out[a] = <<h, k>> /\ at[h][k] + 1 = a
      BY <1>13
    <2>2. PICK k \in DOMAIN lines[h] : lines[h][k] = Agents!Text /\ out[a] = <<h, k>>
      BY <2>1
    <2>3. <<h, k>> \in Agents!Lines /\ Agents!At(<<h, k>>) = Agents!Text
      BY <1>11, <2>2
    <2> QED
      BY <2>2, <2>3 DEF Agents!Texts
  <1>17. ASSUME NEW p \in Agents!Lines, NEW q \in Agents!Lines, p[1] = q[1], p[2] < q[2],
                NEW a \in DOMAIN out, NEW b \in DOMAIN out,
                out[a] \in Agents!For(p), out[b] \in Agents!For(q)
         PROVE  a < b
    <2>1. PICK f, i, j : f = p[1] /\ i = p[2] /\ j = q[2]
      OBVIOUS
    <2>2. f \in Begun /\ i \in DOMAIN lines[f] /\ j \in DOMAIN lines[f]
          /\ p = <<f, i>> /\ q = <<f, j>> /\ i < j
      BY <1>10, <1>17, <2>1
    <2>3. a <= at[f][i + 1]
      BY <1>17, <2>2, Within
    <2>4. at[f][j] < b
      BY <1>17, <2>2, Within
    <2>5. i + 1 \in 1..ln[f] /\ j \in (i + 1)..ln[f] /\ i + 1 \in Nat /\ j \in Nat
      <3>1. Len(lines[f]) \in Nat /\ DOMAIN lines[f] = 1..Len(lines[f]) /\ ln[f] = Len(lines[f]) + 1
        BY <1>5, <1>7, <2>2
      <3>2. \A n \in Nat : \A u, v \in 1..n : u < v =>
               u + 1 \in 1..(n + 1) /\ v \in (u + 1)..(n + 1) /\ u + 1 \in Nat /\ v \in Nat
        OBVIOUS
      <3> QED
        BY <2>2, <3>1, <3>2
    <2>6. at[f][i + 1] <= at[f][j]
      BY <1>1, <2>2, <2>5 DEF FilesInv
    <2>7. at[f][i + 1] \in Nat /\ at[f][j] \in Nat /\ a \in Nat /\ b \in Nat
      BY <1>4, <1>9, <2>2, <2>5
    <2> QED
      BY <2>3, <2>4, <2>6, <2>7
  <1>18. ToSet(out) = Agents!Texts /\ Agents!ToSet(out) = ToSet(out)
    BY <1>15, <1>16 DEF Agents!ToSet, ToSet
  <1>19. Agents!AsWritten
    BY <1>14, <1>17, <1>18 DEF Agents!AsWritten
  <1> QED
    BY <1>12, <1>19

\* An import that ends the loading is of a missing file, or one asked for again.
LEMMA ImportFails ==
    ASSUME NEW at, NEW ln, ReadingInv(at, ln), stack # <<>>, Agents!Import, loaded' # "loading"
    PROVE  loaded' = "error" /\ stack' = <<>> /\ ~Agents!EachOnce'
  <1>1. PICK n, f, l : n = Len(stack) /\ f = stack[n].file /\ l = stack[n].line
    OBVIOUS
  <1>2. PICK g : g = lines[f][l]
    OBVIOUS
  <1>3. LoadTypes(at, ln) /\ FilesInv(at, ln) /\ AsksInv(ln)
    BY DEF ReadingInv
  <1>4. /\ Agents!Top = stack[n] /\ f \in Begun /\ f \in File
        /\ l = ln[f] /\ l \in Nat /\ l \in 1..(Len(lines[f]) + 1) /\ Len(lines[f]) \in Nat
    BY <1>1, TopOfStack
  <1>5. /\ l <= Len(lines[f]) /\ g # Agents!Text
        /\ present' = present /\ lines' = lines /\ loaded' = "error" /\ stack' = <<>>
        /\ g \in ToSet(visited) \/ g \notin present
        /\ visited' = IF g \in ToSet(visited) THEN visited ELSE Append(visited, g)
    BY <1>1, <1>2, <1>4 DEF Agents!Import, Agents!AtEnd, Agents!Line, Agents!Visited,
                            Agents!ToSet, ToSet
  <1>6. /\ visited \in Seq(File) /\ visited # <<>>
        /\ ln \in [File -> Nat] /\ lines \in [File -> Seq(File \cup {Agents!Text})]
    BY <1>3, Zenon DEF LoadTypes
  <1>7. \A h \in Begun : h \in ToSet(visited')
    <2>1. CASE g \in ToSet(visited)
      BY <1>5, <2>1 DEF Begun
    <2>2. CASE g \notin ToSet(visited)
      <3>1. visited' = Append(visited, g)
        BY <1>5, <2>2
      <3>2. g \in File \cup {Agents!Text}
        <4>1. lines[f] \in Seq(File \cup {Agents!Text}) /\ l \in 1..Len(lines[f])
          <5>1. lines[f] \in Seq(File \cup {Agents!Text})
            BY <1>4, <1>6, Zenon
          <5> QED
            BY <1>4, <1>5, <5>1
        <4>2. \A X : \A s \in Seq(X) : \A i \in 1..Len(s) : s[i] \in X
          OBVIOUS
        <4> QED
          BY <1>2, <4>1, <4>2, Zenon
      <3>3. g \in File
        BY <1>5, <3>2
      <3> QED
        BY <1>6, <3>1, <3>3, Appended DEF Begun
    <2> QED
      BY <2>1, <2>2
  <1>8. \A h \in Begun : Len(lines[h]) \in Nat /\ DOMAIN lines[h] = 1..Len(lines[h])
    <2>1. \A h \in File : lines[h] \in Seq(File \cup {Agents!Text})
      BY <1>6, Zenon
    <2>2. \A X : \A s \in Seq(X) : Len(s) \in Nat /\ DOMAIN s = 1..Len(s)
      OBVIOUS
    <2>3. \A h \in Begun : h \in File
      BY <1>6, BegunFiles
    <2> QED
      BY <2>1, <2>2, <2>3, Zenon
  <1>9. \A h \in Begun : \A j \in DOMAIN lines[h] :
           lines[h][j] # Agents!Text =>
              <<h, j>> \in Agents!Imports' /\ Agents!At(<<h, j>>)' = lines[h][j]
    <2> SUFFICES ASSUME NEW h \in Begun, NEW j \in DOMAIN lines[h], lines[h][j] # Agents!Text
                 PROVE  <<h, j>> \in Agents!Imports' /\ Agents!At(<<h, j>>)' = lines[h][j]
      OBVIOUS
    <2>1. Agents!At(<<h, j>>)' = lines[h][j]
      BY <1>5 DEF Agents!At
    <2>2. <<h, j>> \in {h} \X DOMAIN lines'[h] /\ h \in Agents!ToSet(visited')
      BY <1>5, <1>7 DEF Agents!ToSet, ToSet
    <2>3. <<h, j>> \in Agents!Lines'
      BY <2>2, Zenon DEF Agents!Lines
    <2> QED
      BY <2>1, <2>3 DEF Agents!Imports, Agents!Texts
  <1>10. <<f, l>> \in Agents!Imports' /\ Agents!At(<<f, l>>)' = g
    <2>1. l \in DOMAIN lines[f]
      BY <1>4, <1>5, <1>8
    <2> QED
      BY <1>2, <1>4, <1>5, <1>9, <2>1
  <1>11. ASSUME Agents!EachOnce' PROVE FALSE
    <2>1. g \in present /\ g # visited'[1]
      BY <1>5, <1>10, <1>11 DEF Agents!EachOnce
    <2>2. g \in ToSet(visited) /\ visited' = visited
      BY <1>5, <2>1
    <2>3. PICK h \in Begun : \E j \in 1..(ln[h] - 1) : lines[h][j] = g /\ lines[h][j] # Agents!Text
      BY <1>3, <2>1, <2>2 DEF AsksInv, Begun
    <2>4. PICK j \in 1..(ln[h] - 1) : lines[h][j] = g
      BY <2>3
    <2>5. j \in DOMAIN lines[h] /\ ~(h = f /\ j = l)
      <3>1. ln[h] \in 1..(Len(lines[h]) + 1)
        BY <1>3 DEF FilesInv
      <3> QED
        BY <1>4, <1>8, <2>4, <3>1
    <2>6. <<h, j>> \in Agents!Imports' /\ Agents!At(<<h, j>>)' = g
      BY <1>5, <1>9, <2>4, <2>5
    <2>7. <<f, l>> = <<h, j>>
      BY <1>10, <1>11, <2>6, Zenon DEF Agents!EachOnce
    <2>8. f = h /\ l = j
      BY ONLY <2>7, Pairs
    <2> QED
      BY <2>5, <2>8
  <1> QED
    BY <1>5, <1>11

\* The first file on the way up is begun.
LEMMA LoadStep ==
    ASSUME LibraryAssumption, loaded = "no", stack = <<>>, out = <<>>,
           NEW there \in SUBSET File, NEW what \in [there -> Agents!Contents], Agents!Load(there, what)
    PROVE  LoadInv'
  <1>1. CASE Agents!Found = {}
    <2>1. loaded' = "none" /\ stack' = <<>>
      BY <1>1 DEF Agents!Load
    <2> QED
      BY <2>1 DEF LoadInv
  <1>2. CASE Agents!Found # {}
    <2>1. PICK k \in Agents!Found :
             /\ visited' = <<Candidates[k]>> /\ loaded' = "loading"
             /\ stack' = <<[file |-> Candidates[k], line |-> 1]>>
      BY <1>2 DEF Agents!Load
    <2>2. PICK c : c = Candidates[k]
      OBVIOUS
    <2>3. c \in present' /\ c \in File
      <3>1. c \in ToSet(Candidates)
        BY <2>1, <2>2 DEF Agents!Found, ToSet
      <3> QED
        BY <2>2, <3>1 DEF LibraryAssumption, Agents!Found
    <2>4. out' = <<>> /\ visited' = <<c>> /\ stack' = <<[file |-> c, line |-> 1]>>
      BY <2>1, <2>2 DEF Agents!Load
    <2>5. lines' \in [File -> Seq(File \cup {Agents!Text})]
      <3>1. ASSUME NEW s \in Agents!Contents PROVE s \in Seq(File \cup {Agents!Text})
        <4>1. PICK n \in 0..MaxLines : s \in [1..n -> File \cup {Agents!Text}]
          BY DEF Agents!Contents, Agents!SeqOf
        <4>2. n \in Nat
          OBVIOUS
        <4>3. PICK X : X = File \cup {Agents!Text}
          OBVIOUS
        <4>4. Seq(X) = UNION {[1..q -> X] : q \in Nat}
          BY ONLY SeqDef
        <4>5. s \in [1..n -> X]
          BY <4>1, <4>3, Zenon
        <4>6. s \in UNION {[1..q -> X] : q \in Nat}
          BY ONLY <4>2, <4>5
        <4> QED
          BY <4>3, <4>4, <4>6, Zenon
      <3>2. \A g \in File : (IF g \in there THEN what[g] ELSE <<>>) \in Seq(File \cup {Agents!Text})
        <4> SUFFICES ASSUME NEW g \in File
                     PROVE  (IF g \in there THEN what[g] ELSE <<>>) \in Seq(File \cup {Agents!Text})
          OBVIOUS
        <4>1. g \in there => what[g] \in Agents!Contents
          OBVIOUS
        <4>2. <<>> \in Seq(File \cup {Agents!Text})
          OBVIOUS
        <4> QED
          BY <3>1, <4>1, <4>2, Zenon
      <3>3. lines' = [g \in File |-> IF g \in there THEN what[g] ELSE <<>>]
        BY DEF Agents!Load
      <3> QED
        BY <3>2, <3>3, Zenon
    <2>6. PICK b : b = [g \in File |-> [i \in Nat |-> 0]]
      OBVIOUS
    <2>7. PICK m : m = [g \in File |-> 1]
      OBVIOUS
    <2>8. /\ b \in [File -> [Nat -> Nat]] /\ m \in [File -> Nat] /\ m[c] = 1
          /\ \A i \in Nat : b[c][i] = 0
      BY <2>3, <2>6, <2>7
    <2>9. /\ visited' \in Seq(File) /\ visited' # <<>> /\ visited'[1] = c
          /\ \A g : g \in Begun' <=> g = c
      BY <2>3, <2>4 DEF Begun, ToSet
    <2>10. /\ stack' \in Seq([file : File, line : Nat]) /\ stack' # <<>> /\ Len(stack') = 1
           /\ stack'[1].file = c /\ stack'[1].line = 1
           /\ \A a : a \in 1..Len(stack') <=> a = 1
      <3>1. [file |-> c, line |-> 1] \in [file : File, line : Nat]
        BY <2>3
      <3> QED
        BY ONLY <2>4, <3>1
    <2>11. out' \in Seq(File \X Nat) /\ Len(out') = 0
      BY <2>4
    <2>12. Len(lines'[c]) \in Nat
      <3>1. lines'[c] \in Seq(File \cup {Agents!Text})
        BY <2>3, <2>5, Zenon
      <3> QED
        BY <3>1
    <2>13. LoadTypes(b, m)'
      BY <2>5, <2>8, <2>9, <2>10, <2>11, Zenon DEF LoadTypes
    <2>14. FramesInv(b, m)'
      <3>1. \A a \in 1..Len(stack') :
               /\ stack'[a].file = c /\ stack'[a].line = m[c] /\ a = 1 /\ ~(a < Len(stack'))
               /\ c \in Begun' /\ c = visited'[1]
        BY <2>8, <2>9, <2>10
      <3>2. b[c][m[c]] = Len(out')
        BY <2>8, <2>11
      <3> QED
        BY <3>1, <3>2, Zenon DEF FramesInv
    <2>15. FilesInv(b, m)'
      <3>1. BeingRead(c)'
        BY <2>10 DEF BeingRead
      <3>2. m[c] \in 1..(Len(lines'[c]) + 1)
        BY <2>8, <2>12
      <3>3. \A i \in 1..m[c] : b[c][i] <= Len(out') /\ \A j \in i..m[c] : b[c][i] <= b[c][j]
        <4>1. \A i \in 1..m[c] : i = 1 /\ \A j \in i..m[c] : j = 1
          BY <2>8
        <4>2. b[c][1] = 0
          BY <2>8
        <4>3. b[c][1] <= Len(out') /\ b[c][1] <= b[c][1]
          BY <2>11, <4>2
        <4> QED
          BY <4>1, <4>3, Zenon
      <3> QED
        BY <2>3, <2>9, <3>1, <3>2, <3>3, Zenon DEF FilesInv
    <2>16. LinesInv(b, m)' /\ AsksInv(m)' /\ TextInv(b, m)'
      <3>1. \A g \in Begun' : g = c /\ 1..(m[g] - 1) = {}
        <4>1. 1..(m[c] - 1) = {}
          BY <2>8
        <4> QED
          BY <2>9, <4>1, Zenon
      <3>2. 1..Len(out') = {}
        BY <2>11
      <3> QED
        BY <2>9, <3>1, <3>2 DEF LinesInv, AsksInv, TextInv
    <2>17. ReadingInv(b, m)'
      BY <2>13, <2>14, <2>15, <2>16, Zenon DEF ReadingInv
    <2> QED
      BY <2>1, <2>10, <2>17 DEF LoadInv
  <1> QED
    BY <1>1, <1>2

\* The invariant of loading is inductive.
LEMMA LoadInductive ==
    /\ Init => LoadInv
    /\ LibraryAssumption /\ LoadInv /\ [Next]_vars => LoadInv'
  <1>1. Init => LoadInv
    BY DEF Init, Agents!Init, LoadInv
  <1>2. ASSUME LibraryAssumption, LoadInv, [Next]_vars PROVE LoadInv'
    <2>1. CASE part = "context" /\ Agents!Next
      <3>1. ASSUME loaded = "no",
                   NEW there \in SUBSET File, NEW what \in [there -> Agents!Contents],
                   Agents!Load(there, what)
            PROVE  LoadInv'
        <4>1. stack = <<>> /\ out = <<>>
          BY <1>2, <3>1 DEF LoadInv
        <4> QED
          BY <1>2, <3>1, <4>1, LoadStep
      <3>2. CASE loaded = "loading" /\ (Agents!ReadText \/ Agents!Import \/ Agents!Leave)
        <4>1. stack # <<>>
          BY <1>2, <3>2 DEF LoadInv
        <4>2. PICK at, ln : ReadingInv(at, ln)
          BY <1>2, <3>2 DEF LoadInv
        <4>3. CASE Agents!ReadText
          <5>1. stack' # <<>> /\ \E b, m : ReadingInv(b, m)'
            BY <4>1, <4>2, <4>3, ReadTextStep
          <5>2. loaded' = "loading"
            BY <3>2, <4>3 DEF Agents!ReadText
          <5> QED
            BY <5>1, <5>2 DEF LoadInv
        <4>4. CASE Agents!Import /\ loaded' = "loading"
          <5>1. stack' # <<>> /\ \E b, m : ReadingInv(b, m)'
            BY <4>1, <4>2, <4>4, ImportStep
          <5> QED
            BY <4>4, <5>1 DEF LoadInv
        <4>5. CASE Agents!Import /\ loaded' # "loading"
          <5>1. loaded' = "error" /\ stack' = <<>> /\ ~Agents!EachOnce'
            BY <4>1, <4>2, <4>5, ImportFails
          <5> QED
            BY <5>1 DEF LoadInv
        <4>6. CASE Agents!Leave
          <5>1. ReadingInv(at, ln)'
            BY <4>1, <4>2, <4>6, LeaveStep
          <5>2. loaded' = IF stack' = <<>> THEN "ok" ELSE "loading"
            BY <4>6 DEF Agents!Leave
          <5> QED
            BY <5>1, <5>2 DEF LoadInv
        <4> QED
          BY <3>2, <4>3, <4>4, <4>5, <4>6
      <3>3. loaded = "loading" \/ ~(Agents!ReadText \/ Agents!Import \/ Agents!Leave)
        BY DEF Agents!ReadText, Agents!Import, Agents!Leave
      <3> QED
        BY <2>1, <3>1, <3>2, <3>3 DEF Agents!Next
    <2>2. CASE UNCHANGED agentsVars
      <3>1. /\ present' = present /\ lines' = lines /\ visited' = visited
            /\ stack' = stack /\ out' = out /\ loaded' = loaded
        BY <2>2 DEF agentsVars
      <3>2. Agents!EachOnce' <=> Agents!EachOnce
        <4>1. \A p : Agents!At(p)' = Agents!At(p)
          BY <3>1 DEF Agents!At
        <4>2. Agents!Lines' = Agents!Lines
          BY <3>1 DEF Agents!Lines, Agents!ToSet
        <4>3. Agents!Imports' = Agents!Imports
          BY <4>1, <4>2 DEF Agents!Imports, Agents!Texts
        <4> QED
          BY <3>1, <4>1, <4>3 DEF Agents!EachOnce
      <3>3. ASSUME NEW at, NEW ln, ReadingInv(at, ln) PROVE ReadingInv(at, ln)'
        <4>1. Begun' = Begun /\ \A f : BeingRead(f)' <=> BeingRead(f)
          BY <3>1, Zenon DEF Begun, BeingRead
        <4>2. LoadTypes(at, ln)' <=> LoadTypes(at, ln)
          BY ONLY <3>1 DEF LoadTypes
        <4>3. FramesInv(at, ln)' <=> FramesInv(at, ln)
          BY ONLY <3>1, <4>1 DEF FramesInv
        <4>4. FilesInv(at, ln)' <=> FilesInv(at, ln)
          BY ONLY <3>1, <4>1 DEF FilesInv
        <4>5. LinesInv(at, ln)' <=> LinesInv(at, ln)
          BY ONLY <3>1, <4>1 DEF LinesInv
        <4>6. AsksInv(ln)' <=> AsksInv(ln)
          BY ONLY <3>1, <4>1 DEF AsksInv
        <4>7. TextInv(at, ln)' <=> TextInv(at, ln)
          BY ONLY <3>1, <4>1 DEF TextInv
        <4> QED
          BY <3>3, <4>2, <4>3, <4>4, <4>5, <4>6, <4>7, Zenon DEF ReadingInv
      <3> QED
        BY <1>2, <3>1, <3>2, <3>3, Zenon DEF LoadInv
    <2> QED
      BY <1>2, <2>1, <2>2 DEF Next, Others, vars
  <1> QED
    BY <1>1, <1>2

\* Whatever the files hold and import: what is loaded is the text as written,
\* every line of every file brought in once and where it was asked for, and the
\* loading fails exactly when a file is missing or asked for again, in a circle
\* or not (load_agents_md, expand_imports).
THEOREM ImportsAreOnce == Spec => []ImportsOnce
  <1>1. LoadInv => ImportsOnce
    <2> SUFFICES ASSUME LoadInv PROVE ImportsOnce
      OBVIOUS
    <2>1. ASSUME loaded = "ok" PROVE Agents!AsWritten /\ Agents!EachOnce
      <3>1. stack = <<>> /\ \E at, ln : ReadingInv(at, ln)
        BY <2>1 DEF LoadInv
      <3>2. PICK at, ln : ReadingInv(at, ln)
        BY <3>1
      <3> QED
        BY <3>1, <3>2, AllIsRead
    <2>2. loaded = "error" => ~Agents!EachOnce
      BY DEF LoadInv
    <2> QED
      BY <2>1, <2>2 DEF ImportsOnce, Agents!ImportsOnce
  <1> QED
    BY <1>1, LoadInductive, LibraryAssumption, PTL DEF Spec
=============================================================================
