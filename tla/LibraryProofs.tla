--------------------------- MODULE LibraryProofs ----------------------------
(***************************************************************************)
(* Theorems about the rest of the program that Library describes: what the *)
(* evidence gate passes, what the memory keeps, what is read of a          *)
(* session's file.                                                         *)
(***************************************************************************)
EXTENDS ExtensionProofs

-----------------------------------------------------------------------------
(* The evidence gate *)

\* What a word of a line may have behind its colons, and a line of output.
Place == {<<>>} \cup [1..1 -> Nat] \cup [1..2 -> Nat]
Line  == Seq([text : STRING, numbers : Place])

\* The normalised form of a place tells only whether there is one.
LEMMA Half ==
    ASSUME NEW p \in Place
    PROVE  Len(p) \in Nat /\ (Len(p) + 1) \div 2 = IF p = <<>> THEN 0 ELSE 1
  <1>1. CASE p = <<>>
    BY <1>1
  <1>2. CASE p \in [1..1 -> Nat]
    <2>1. Len(p) = 1 /\ p # <<>>
      BY <1>2
    <2> QED
      BY <2>1
  <1>3. CASE p \in [1..2 -> Nat]
    <2>1. Len(p) = 2 /\ p # <<>>
      BY <1>3
    <2> QED
      BY <2>1
  <1> QED
    BY <1>1, <1>2, <1>3 DEF Place

\* Two entries match if and only if their lines differ by places only.
LEMMA MatchIsSame ==
    ASSUME NEW a \in Line, NEW b \in Line
    PROVE  Gate!ErrorsMatch(Gate!Entry(a), Gate!Entry(b)) <=> Gate!SameButForPlaces(a, b)
  <1>0. \A w \in [text : STRING, numbers : Place] : w.numbers \in Place
    OBVIOUS
  <1>1. DOMAIN a = 1..Len(a) /\ Len(a) \in Nat /\ DOMAIN b = 1..Len(b) /\ Len(b) \in Nat
    <2> DEFINE W == [text : STRING, numbers : Place]
    <2>1. a \in Seq(W) /\ b \in Seq(W)
      BY DEF Line
    <2> HIDE DEF W
    <2> QED
      BY <2>1
  <1>2. /\ \A i \in DOMAIN a : a[i].numbers \in Place
        /\ \A i \in DOMAIN b : b[i].numbers \in Place
    <2> DEFINE W == [text : STRING, numbers : Place]
    <2>1. a \in Seq(W) /\ b \in Seq(W) /\ \A w \in W : w.numbers \in Place
      BY <1>0 DEF Line
    <2> HIDE DEF W
    <2> QED
      BY <2>1, Members
  <1>3. /\ Gate!Entry(a).kind = Gate!KindOf(a) /\ Gate!Entry(b).kind = Gate!KindOf(b)
        /\ Gate!Entry(a).file = Gate!FileOf(a) /\ Gate!Entry(b).file = Gate!FileOf(b)
        /\ Gate!Entry(a).message = a /\ Gate!Entry(b).message = b
    BY DEF Gate!Entry
  <1> DEFINE m == Gate!Normalized(a)
             n == Gate!Normalized(b)
  <1>4. /\ DOMAIN m = DOMAIN a /\ DOMAIN n = DOMAIN b
        /\ \A i \in DOMAIN a : m[i] = [text |-> a[i].text, numbers |-> (Len(a[i].numbers) + 1) \div 2]
        /\ \A i \in DOMAIN b : n[i] = [text |-> b[i].text, numbers |-> (Len(b[i].numbers) + 1) \div 2]
    BY DEF Gate!Normalized
  <1>5. /\ \A i \in DOMAIN a : m[i].text = a[i].text
                               /\ m[i].numbers = IF a[i].numbers = <<>> THEN 0 ELSE 1
        /\ \A i \in DOMAIN b : n[i].text = b[i].text
                               /\ n[i].numbers = IF b[i].numbers = <<>> THEN 0 ELSE 1
    <2>1. ASSUME NEW i \in DOMAIN a
          PROVE  m[i].text = a[i].text /\ m[i].numbers = IF a[i].numbers = <<>> THEN 0 ELSE 1
      <3>1. (Len(a[i].numbers) + 1) \div 2 = IF a[i].numbers = <<>> THEN 0 ELSE 1
        BY <1>2, Half
      <3> HIDE DEF m
      <3>2. m[i] = [text |-> a[i].text, numbers |-> IF a[i].numbers = <<>> THEN 0 ELSE 1]
        BY <1>4, <3>1
      <3> QED
        BY <3>2
    <2>2. ASSUME NEW i \in DOMAIN b
          PROVE  n[i].text = b[i].text /\ n[i].numbers = IF b[i].numbers = <<>> THEN 0 ELSE 1
      <3>1. (Len(b[i].numbers) + 1) \div 2 = IF b[i].numbers = <<>> THEN 0 ELSE 1
        BY <1>2, Half
      <3> HIDE DEF n
      <3>2. n[i] = [text |-> b[i].text, numbers |-> IF b[i].numbers = <<>> THEN 0 ELSE 1]
        BY <1>4, <3>1
      <3> QED
        BY <3>2
    <2> QED
      BY <2>1, <2>2
  <1>6. m = [i \in DOMAIN m |-> m[i]] /\ n = [i \in DOMAIN n |-> n[i]]
    BY DEF Gate!Normalized
  <1> HIDE DEF m, n
  <1>7. ASSUME m = n PROVE Gate!SameButForPlaces(a, b)
    <2>1. DOMAIN a = DOMAIN b /\ Len(a) = Len(b)
      <3>0. DOMAIN m = DOMAIN a /\ DOMAIN n = DOMAIN b
        BY <1>4
      <3>1. DOMAIN a = DOMAIN b
        BY <1>7, <3>0
      <3>2. Len(a) = Len(b)
        BY <3>1, SameLength DEF Line
      <3> QED
        BY <3>1, <3>2
    <2>2. \A i \in DOMAIN a : a[i].text = b[i].text
      BY <1>5, <1>7, <2>1
    <2>3. \A i \in DOMAIN a : (a[i].numbers = <<>>) = (b[i].numbers = <<>>)
      <3> TAKE i \in DOMAIN a
      <3>1. (IF a[i].numbers = <<>> THEN 0 ELSE 1) = IF b[i].numbers = <<>> THEN 0 ELSE 1
        BY <1>5, <1>7, <2>1
      <3>2. CASE a[i].numbers = <<>>
        BY <3>1, <3>2
      <3>3. CASE a[i].numbers # <<>>
        BY <3>1, <3>3
      <3> QED
        BY <3>2, <3>3
    <2> QED
      BY <2>1, <2>2, <2>3, Zenon DEF Gate!SameButForPlaces
  <1>8. ASSUME Gate!SameButForPlaces(a, b)
        PROVE  m = n /\ Gate!KindOf(a) = Gate!KindOf(b) /\ Gate!FileOf(a) = Gate!FileOf(b)
    <2>1. /\ DOMAIN a = DOMAIN b
          /\ \A i \in DOMAIN a : a[i].text = b[i].text /\ (a[i].numbers = <<>> <=> b[i].numbers = <<>>)
      BY <1>1, <1>8, Zenon DEF Gate!SameButForPlaces
    <2>2. \A i \in DOMAIN a : m[i] = n[i]
      <3> TAKE i \in DOMAIN a
      <3>1. i \in DOMAIN b /\ a[i].text = b[i].text /\ (a[i].numbers = <<>> <=> b[i].numbers = <<>>)
        BY <2>1
      <3>2. /\ (Len(a[i].numbers) + 1) \div 2 = IF a[i].numbers = <<>> THEN 0 ELSE 1
            /\ (Len(b[i].numbers) + 1) \div 2 = IF b[i].numbers = <<>> THEN 0 ELSE 1
        BY <1>2, <3>1, Half
      <3>3. (Len(a[i].numbers) + 1) \div 2 = (Len(b[i].numbers) + 1) \div 2
        BY <3>1, <3>2
      <3> QED
        BY <1>4, <3>1, <3>3, Zenon
    <2>3. m = n
      BY <1>4, <1>6, <2>1, <2>2
    <2>4. \A text : Gate!Has(a, text) <=> Gate!Has(b, text)
      BY <2>1, Zenon DEF Gate!Has
    <2>5. Gate!KindOf(a) = Gate!KindOf(b)
      BY <2>4 DEF Gate!KindOf
    <2>6. Gate!Located(a) = Gate!Located(b)
      BY <2>1 DEF Gate!Located
    <2>7. Gate!FileOf(a) = Gate!FileOf(b)
      <3>1. CASE Gate!Located(a) = {}
        BY <2>6, <3>1 DEF Gate!FileOf
      <3>2. CASE Gate!Located(a) # {}
        <4>1. Gate!Min(Gate!Located(a)) \in DOMAIN a
          <5>1. Gate!Located(a) \in SUBSET Nat
            BY <1>1 DEF Gate!Located
          <5>2. \E x \in Gate!Located(a) : \A y \in Gate!Located(a) : x <= y
            BY <3>2, <5>1, Least
          <5>3. Gate!Min(Gate!Located(a)) \in Gate!Located(a)
            BY <5>2 DEF Gate!Min
          <5> QED
            BY <5>3, Zenon DEF Gate!Located
        <4> QED
          BY <2>1, <2>6, <3>2, <4>1 DEF Gate!FileOf
      <3> QED
        BY <3>1, <3>2
    <2> QED
      BY <2>3, <2>5, <2>7
  <1> QED
    BY <1>3, <1>7, <1>8 DEF Gate!ErrorsMatch, m, n

\* The inductive invariant: before a baseline is captured nothing is judged.
GateInv ==
    /\ verified \in Nat
    /\ current # <<>> => current \in Gate!Results /\ baseline \in Gate!Results
    /\ current = <<>> => verified = 0
    /\ GateTolerates

\* What a run of the commands may print.
LEMMA LinesType ==
    ASSUME LibraryAssumption, NEW r \in Gate!Results
    PROVE  Gate!Lines(r) \subseteq Line
  <1> SUFFICES ASSUME NEW l \in Gate!Lines(r) PROVE l \in Line
    OBVIOUS
  <1>1. PICK i \in DOMAIN r : l \in Gate!ToSet(r[i].lines)
    BY DEF Gate!Lines
  <1>2. r[i].lines \in Output
    BY <1>1 DEF Gate!Results, Gate!Result
  <1>3. r[i].lines \in Seq(Line)
    BY <1>2 DEF LibraryAssumption, Line, Place
  <1>4. PICK j \in DOMAIN r[i].lines : l = r[i].lines[j]
    BY <1>1 DEF Gate!ToSet
  <1> HIDE DEF Line
  <1>5. r[i].lines[j] \in Line
    BY <1>3, Members
  <1> QED
    BY <1>4, <1>5

\* The lines of now that are new to before, and a verdict that goes by them.
New(before, now) ==
    {line \in now : /\ Gate!Recognised(line)
                    /\ ~\E l \in before : Gate!SameButForPlaces(l, line)}
Right(v, before, now) ==
    \/ v.ok /\ New(before, now) = {}
    \/ /\ ~v.ok /\ New(before, now) # {}
       /\ {e.message : e \in v.errors} = {line \in now : Gate!Recognised(line)}

\* The judgement passes just what is old.
LEMMA JudgedTolerates ==
    ASSUME LibraryAssumption, NEW r \in Gate!Results, baseline \in Gate!Results
    PROVE  Right(Gate!Judged(r), Gate!Lines(baseline), Gate!Lines(r))
  <1> DEFINE Old(line) == \E l \in Gate!Lines(baseline) : Gate!SameButForPlaces(l, line)
             new == {line \in Gate!Lines(r) : Gate!Recognised(line) /\ ~Old(line)}
             before == Gate!CollectAllErrors(baseline)
             now == Gate!CollectAllErrors(r)
             v == Gate!Judged(r)
  <1>1. Gate!Lines(r) \subseteq Line /\ Gate!Lines(baseline) \subseteq Line
    BY LinesType
  <1>2. ASSUME NEW line \in Gate!Lines(r), Gate!Recognised(line)
        PROVE  (\E b \in before : Gate!ErrorsMatch(b, Gate!Entry(line))) <=> Old(line)
    <2>1. ASSUME NEW l \in Gate!Lines(baseline)
          PROVE  /\ Gate!ErrorsMatch(Gate!Entry(l), Gate!Entry(line)) <=> Gate!SameButForPlaces(l, line)
                 /\ Gate!SameButForPlaces(l, line) => Gate!Recognised(l)
      <3>1. l \in Line /\ line \in Line
        BY <1>1
      <3>2. ASSUME Gate!SameButForPlaces(l, line) PROVE Gate!Recognised(l)
        <4>1. /\ DOMAIN l = 1..Len(l) /\ DOMAIN line = 1..Len(line)
          BY <3>1 DEF Line
        <4>2. Len(l) = Len(line) /\ \A i \in DOMAIN l : l[i].text = line[i].text
          BY <3>2 DEF Gate!SameButForPlaces
        <4> QED
          BY <1>2, <4>1, <4>2 DEF Gate!Recognised, Gate!Has
      <3> QED
        BY <3>1, <3>2, MatchIsSame
    <2>2. before = {Gate!Entry(l) : l \in {x \in Gate!Lines(baseline) : Gate!Recognised(x)}}
      BY DEF Gate!CollectAllErrors
    <2>3. (\E b \in before : Gate!ErrorsMatch(b, Gate!Entry(line)))
            <=> \E l \in Gate!Lines(baseline) : Gate!Recognised(l) /\ Gate!ErrorsMatch(Gate!Entry(l), Gate!Entry(line))
      BY <2>2, Zenon
    <2> QED
      BY <2>1, <2>3
  <1>3. (\A e \in now : \E b \in before : Gate!ErrorsMatch(b, e)) <=> new = {}
    <2>1. now = {Gate!Entry(l) : l \in {x \in Gate!Lines(r) : Gate!Recognised(x)}}
      BY DEF Gate!CollectAllErrors
    <2> HIDE DEF now, before, Old
    <2>2. (\A e \in now : \E b \in before : Gate!ErrorsMatch(b, e))
            <=> \A l \in Gate!Lines(r) : Gate!Recognised(l) =>
                   \E b \in before : Gate!ErrorsMatch(b, Gate!Entry(l))
      BY <2>1, Zenon
    <2>3. (\A e \in now : \E b \in before : Gate!ErrorsMatch(b, e))
            <=> \A l \in Gate!Lines(r) : Gate!Recognised(l) => Old(l)
      BY <1>2, <2>2
    <2>4. new = {} <=> \A l \in Gate!Lines(r) : Gate!Recognised(l) => Old(l)
      OBVIOUS
    <2> QED
      BY <2>3, <2>4
  <1>4. {e.message : e \in now} = {line \in Gate!Lines(r) : Gate!Recognised(line)}
    <2>1. \A l : Gate!Entry(l).message = l
      BY DEF Gate!Entry
    <2>2. now = {Gate!Entry(l) : l \in {x \in Gate!Lines(r) : Gate!Recognised(x)}}
      BY DEF Gate!CollectAllErrors
    <2> HIDE DEF now, before, new, Old, v
    <2>3. \A e \in now : \E l \in Gate!Lines(r) : Gate!Recognised(l) /\ e = Gate!Entry(l)
      BY <2>2
    <2>4. \A l \in Gate!Lines(r) : Gate!Recognised(l) => Gate!Entry(l) \in now
      BY <2>2
    <2>5. \A x \in {e.message : e \in now} : x \in Gate!Lines(r) /\ Gate!Recognised(x)
      BY <2>1, <2>3
    <2>6. \A l \in Gate!Lines(r) : Gate!Recognised(l) => l \in {e.message : e \in now}
      <3> TAKE l \in Gate!Lines(r)
      <3> HAVE Gate!Recognised(l)
      <3>1. Gate!Entry(l) \in now /\ l = Gate!Entry(l).message
        BY <2>1, <2>4
      <3> QED
        BY <3>1
    <2> QED
      BY <2>5, <2>6
  <1>5. v = IF \A e \in now : \E b \in before : Gate!ErrorsMatch(b, e) THEN Gate!Pass
            ELSE [ok |-> FALSE, errors |-> now, command |-> Gate!FirstFailed(r)]
    BY DEF Gate!Judged
  <1>6. Gate!Pass.ok = TRUE
    BY DEF Gate!Pass
  <1>7. New(Gate!Lines(baseline), Gate!Lines(r)) = new
    BY DEF New
  <1> HIDE DEF now, before, new, Old, v
  <1>8. CASE new = {}
    <2>1. v = Gate!Pass
      BY <1>3, <1>5, <1>8, Zenon
    <2> QED
      BY <1>6, <1>8, <1>7, <2>1 DEF v, Right
  <1>9. CASE new # {}
    <2>1. v = [ok |-> FALSE, errors |-> now, command |-> Gate!FirstFailed(r)]
      BY <1>3, <1>5, <1>9, Zenon
    <2>2. v.ok = FALSE /\ v.errors = now
      BY <2>1
    <2> QED
      BY <1>4, <1>9, <1>7, <2>2 DEF v, Right
  <1> QED
    BY <1>8, <1>9

\* Each operation of the gate keeps the invariant.
LEMMA GateStep ==
    ASSUME LibraryAssumption, GateInv, part = "gate", Gate!Next
    PROVE  GateInv'
  <1>1. ASSUME NEW r \in Gate!Results, Gate!CaptureBaseline(r) PROVE GateInv'
    <2>1. current = <<>> /\ current' = r /\ baseline' = r /\ UNCHANGED <<verdict, verified>>
      BY <1>1 DEF Gate!CaptureBaseline
    <2>2. verified = 0 /\ verified' = 0
      BY <2>1 DEF GateInv
    <2>3. GateTolerates'
      BY <2>2 DEF GateTolerates, Gate!GateTolerates
    <2>4. Gate!Results' = Gate!Results
      BY DEF Gate!Results, Gate!Result
    <2> QED
      BY <2>1, <2>2, <2>3, <2>4 DEF GateInv
  <1>2. ASSUME NEW r \in Gate!Results, Gate!Verify(r) PROVE GateInv'
    <2>1. /\ current # <<>> /\ verified' = verified + 1 /\ current' = r
          /\ verdict' = Gate!Judged(r) /\ baseline' = baseline
      BY <1>2 DEF Gate!Verify
    <2>2. current \in Gate!Results /\ baseline \in Gate!Results /\ verified \in Nat
      BY <2>1 DEF GateInv
    <2>3. r # <<>>
      <3>1. DOMAIN current = DOMAIN r /\ current = [i \in DOMAIN current |-> current[i]]
            /\ r = [i \in DOMAIN r |-> r[i]]
        BY <2>2 DEF Gate!Results
      <3>2. CASE DOMAIN current = {}
        BY <2>1, <3>1, <3>2
      <3>3. CASE DOMAIN current # {}
        BY <3>1, <3>3
      <3> QED
        BY <3>2, <3>3
    <2>4. GateTolerates'
      <3>1. Gate!Lines(baseline)' = Gate!Lines(baseline) /\ Gate!Lines(current)' = Gate!Lines(r)
        BY <2>1 DEF Gate!Lines, Gate!ToSet
      <3>2. Right(Gate!Judged(r), Gate!Lines(baseline), Gate!Lines(r))
        BY <2>2, JudgedTolerates
      <3>3. verdict' = Gate!Judged(r)
        BY <2>1
      <3>4. Right(verdict', Gate!Lines(baseline)', Gate!Lines(current)')
        BY <3>1, <3>2, <3>3
      <3> QED
        BY <3>4, Zenon DEF Right, New, GateTolerates, Gate!GateTolerates,
                           Gate!SameButForPlaces, Gate!Recognised, Gate!Has
    <2>5. Gate!Results' = Gate!Results
      BY DEF Gate!Results, Gate!Result
    <2>6. verified' \in Nat
      <3>1. verified \in Nat /\ verified' = verified + 1
        BY <2>1, <2>2, Zenon
      <3> QED
        BY <3>1, OneAfter, Zenon
    <2>7. current' # <<>> /\ current' \in Gate!Results' /\ baseline' \in Gate!Results'
      BY <2>1, <2>2, <2>3, <2>5, Zenon
    <2> QED
      BY <2>4, <2>6, <2>7, Zenon DEF GateInv
  <1>3. CASE Gate!Unrunnable
    <2>1. /\ current # <<>> /\ verified' = verified + 1 /\ UNCHANGED <<baseline, current>>
          /\ verdict' = [ok |-> FALSE, command |-> 0,
                          errors |-> {[kind |-> "Other", file |-> "none", message |-> <<>>]}]
      BY <1>3 DEF Gate!Unrunnable
    <2>2. verdict'.ok = FALSE /\ \E e \in verdict'.errors : e.kind = "Other"
      BY <2>1
    <2>3. GateTolerates'
      BY <2>2, Zenon DEF GateTolerates, Gate!GateTolerates
    <2>4. Gate!Results' = Gate!Results
      BY DEF Gate!Results, Gate!Result
    <2>5. verified' \in Nat
      BY <2>1 DEF GateInv
    <2>6. current' # <<>> /\ current' \in Gate!Results' /\ baseline' \in Gate!Results'
      BY <2>1, <2>4, Zenon DEF GateInv
    <2> QED
      BY <2>3, <2>5, <2>6, Zenon DEF GateInv
  <1> QED
    BY <1>1, <1>2, <1>3 DEF Gate!Next

\* The evidence gate passes what prints no recognisable line that was not in the
\* baseline but for its place, and only that, and otherwise reports every
\* recognisable line there is, for any output, number of commands and of
\* verifications (EvidenceGate::verify).
THEOREM GateJudges == Spec => []GateTolerates
  <1>1. Init => GateInv
    BY DEF Init, Gate!Init, GateInv, GateTolerates, Gate!GateTolerates
  <1>2. LibraryAssumption /\ GateInv /\ [Next]_vars => GateInv'
    <2> SUFFICES ASSUME LibraryAssumption, GateInv, [Next]_vars PROVE GateInv'
      OBVIOUS
    <2>1. CASE part = "gate" /\ Gate!Next
      BY <2>1, GateStep
    <2>2. CASE UNCHANGED gateVars
      <3>1. Gate!Results' = Gate!Results
        BY DEF Gate!Results, Gate!Result
      <3>2. GateTolerates' <=> GateTolerates
        <4>1. baseline' = baseline /\ current' = current /\ verdict' = verdict /\ verified' = verified
          BY <2>2 DEF gateVars
        <4>2. Gate!Lines(baseline)' = Gate!Lines(baseline) /\ Gate!Lines(current)' = Gate!Lines(current)
          BY <4>1 DEF Gate!Lines, Gate!ToSet
        <4> QED
          BY <4>1, <4>2, Zenon DEF GateTolerates, Gate!GateTolerates
      <3> QED
        BY <2>2, <3>1, <3>2, Zenon DEF gateVars, GateInv
    <2> QED
      BY <2>1, <2>2 DEF Next, Others, vars
  <1>3. GateInv => GateTolerates
    BY DEF GateInv
  <1> QED
    BY <1>1, <1>2, <1>3, LibraryAssumption, PTL DEF Spec

-----------------------------------------------------------------------------
(* The memory *)

\* Of a finite set of numbers each is the j-th for one j, and each j has one.
LEMMA Ranks ==
    ASSUME NEW S \in SUBSET Nat, IsFiniteSet(S)
    PROVE  /\ Cardinality(S) \in Nat
           /\ \A k \in S : Cardinality({i \in S : i <= k}) \in 1..Cardinality(S)
           /\ \A k, l \in S : Cardinality({i \in S : i <= k}) = Cardinality({i \in S : i <= l})
                                => k = l
           /\ \A j \in 1..Cardinality(S) : \E k \in S : Cardinality({i \in S : i <= k}) = j
  <1> DEFINE Below(k) == {i \in S : i <= k}
             n == Cardinality(S)
             rank == [k \in S |-> Cardinality(Below(k))]
  <1>1. n \in Nat
    BY FS_CardinalityType
  <1>2. ASSUME NEW k \in S
        PROVE  /\ k \in Below(k) /\ IsFiniteSet(Below(k))
               /\ Cardinality(Below(k)) \in 1..n
    <2>1. k \in Below(k) /\ Below(k) \in SUBSET S
      OBVIOUS
    <2> HIDE DEF Below
    <2>2. IsFiniteSet(Below(k)) /\ Cardinality(Below(k)) <= n
      BY <2>1, FS_Subset
    <2>3. Cardinality(Below(k)) \in Nat /\ Cardinality(Below(k)) # 0
      BY <2>1, <2>2, FS_CardinalityType, FS_EmptySet
    <2> QED
      BY <1>1, <2>1, <2>2, <2>3
  <1>3. ASSUME NEW k \in S, NEW l \in S, k < l
        PROVE  Cardinality(Below(k)) # Cardinality(Below(l))
    <2>1. Below(k) \in SUBSET Below(l) /\ l \in Below(l) /\ l \notin Below(k)
      <3>1. k \in Nat /\ l \in Nat /\ \A i \in S : i \in Nat
        OBVIOUS
      <3>2. \A i \in S : i <= k => i <= l
        BY <1>3, <3>1
      <3>3. l <= l /\ ~(l <= k)
        BY <1>3, <3>1
      <3> QED
        BY <3>2, <3>3
    <2>2. IsFiniteSet(Below(l))
      BY <1>2
    <2> HIDE DEF Below
    <2> QED
      BY <2>1, <2>2, FS_Subset
  <1>4. \A k, l \in S : Cardinality(Below(k)) = Cardinality(Below(l)) => k = l
    <2> TAKE k, l \in S
    <2>1. k \in Nat /\ l \in Nat
      OBVIOUS
    <2> HIDE DEF Below
    <2> QED
      BY <1>3, <2>1
  <1>5. \A j \in 1..n : \E k \in S : Cardinality(Below(k)) = j
    <2> HIDE DEF Below, n
    <2>1. rank \in [S -> 1..n] /\ \A k, l \in S : rank[k] = rank[l] => k = l
      BY <1>2, <1>4
    <2>2. rank \in Injection(S, 1..n)
      BY <2>1 DEF Injection, IsInjective
    <2>3. IsFiniteSet(1..n) /\ Cardinality(1..n) = n
      BY <1>1, FS_Interval
    <2>4. rank \in Surjection(S, 1..n)
      BY <2>2, <2>3, FS_Injection DEF n
    <2>5. \A k \in S : rank[k] = Cardinality(Below(k))
      OBVIOUS
    <2> HIDE DEF rank
    <2>6. \A j \in 1..n : \E k \in S : rank[k] = j
      BY <2>4 DEF Surjection
    <2> QED
      BY <2>5, <2>6
  <1> QED
    BY <1>1, <1>2, <1>4, <1>5

\* What the memory holds: what was pushed, summaries and notices.
Pushed == [n : Nat, kind : Store!Kind, task : Task, size : Nat, covers : SUBSET Nat]
Entry  == [n : Nat, kind : Store!Kind, task : Task \cup {"__summary__"}, size : Nat,
           covers : SUBSET Nat]

\* Pick takes the items of its indices, and no others.
LEMMA Picked ==
    ASSUME NEW X, active \in Seq(X), NEW S \in SUBSET (DOMAIN active)
    PROVE  /\ Store!Pick(S) \in Seq(X)
           /\ \A k \in S : active[k] \in ToSet(Store!Pick(S))
           /\ \A k \in S : \E j \in 1..Len(Store!Pick(S)) : Store!Pick(S)[j] = active[k]
  <1> DEFINE n == Cardinality(S)
             Rank(k) == Cardinality({i \in S : i <= k})
  <1>1. DOMAIN active = 1..Len(active) /\ Len(active) \in Nat
    OBVIOUS
  <1>2. IsFiniteSet(S) /\ S \in SUBSET Nat
    <2>1. IsFiniteSet(1..Len(active))
      BY <1>1, FS_Interval
    <2> QED
      BY <1>1, <2>1, FS_Subset
  <1>3. /\ n \in Nat /\ \A k \in S : Rank(k) \in 1..n
        /\ \A k, l \in S : Rank(k) = Rank(l) => k = l
        /\ \A j \in 1..n : \E k \in S : Rank(k) = j
    BY <1>2, Ranks
  <1>4. \A j : Store!Nth(S, j) = CHOOSE k \in S : Rank(k) = j
    BY DEF Store!Nth, Store!Cardinality, Store!IsFiniteSet, Cardinality, IsFiniteSet
  <1>5. Store!Pick(S) = [j \in 1..n |-> active[Store!Nth(S, j)]]
    BY DEF Store!Pick, Store!Cardinality, Store!IsFiniteSet, Cardinality, IsFiniteSet
  <1> HIDE DEF n, Rank
  <1>6. \A j \in 1..n : Store!Nth(S, j) \in S /\ Rank(Store!Nth(S, j)) = j
    BY <1>3, <1>4
  <1>7. Store!Pick(S) \in Seq(X) /\ Len(Store!Pick(S)) = n /\ DOMAIN Store!Pick(S) = 1..n
    <2>1. \A j \in 1..n : active[Store!Nth(S, j)] \in X
      BY <1>6, <1>1
    <2> QED
      BY <1>3, <1>5, <2>1
  <1>8. ASSUME NEW k \in S
        PROVE  Rank(k) \in 1..n /\ Store!Pick(S)[Rank(k)] = active[k]
    <2>1. Store!Nth(S, Rank(k)) = k
      BY <1>3, <1>6
    <2> QED
      BY <1>3, <1>5, <2>1
  <1> QED
    BY <1>7, <1>8 DEF ToSet

\* What the archive holds of a list it stored in full can be found.
LEMMA StoredAreFound ==
    ASSUME NEW list, Store!StoresAll(list), UNCHANGED strategy
    PROVE  \A x : (\E j \in 1..Len(list) : x = list[j]) => Store!Found(x)'
  <1> SUFFICES ASSUME NEW j \in 1..Len(list) PROVE Store!Found(list[j])'
    OBVIOUS
  <1>1. Store!Row(list[j], Store!Indexed) \in rows'
    BY DEF Store!StoresAll, Store!Stored
  <1>2. /\ Store!Row(list[j], Store!Indexed).item = list[j]
        /\ Store!Row(list[j], Store!Indexed).by = Store!Indexed
    BY DEF Store!Row
  <1>3. "keyword" \in Store!Indexed /\ (strategy = "orchestrator" => {"task", "tag"} \subseteq Store!Indexed)
    BY DEF Store!Indexed
  <1>4. \A x \in Store!Indexed : list[j] \in Store!Hits(x)'
    BY <1>1, <1>2, Zenon DEF Store!Hits
  <1> QED
    BY <1>3, <1>4 DEF Store!Found, Store!RecallKeyword, Store!RecallTask, Store!RecallTag

\* The archive forgets nothing.
LEMMA StillFound ==
    ASSUME rows \subseteq rows', UNCHANGED strategy
    PROVE  \A i : Store!Found(i) => Store!Found(i)'
  <1>1. \A x : Store!Hits(x) \subseteq Store!Hits(x)'
    BY DEF Store!Hits
  <1> QED
    BY <1>1 DEF Store!Found, Store!RecallKeyword, Store!RecallTask, Store!RecallTag

\* Storing adds rows, however far it comes.
LEMMA RowsGrow ==
    ASSUME NEW list, Store!StoresAll(list) \/ Store!StoresPart(list)
    PROVE  rows \subseteq rows'
  BY DEF Store!StoresAll, Store!StoresPart, Store!Stored

\* An enumeration of a finite set without repetition leaves nothing out.
LEMMA Onto ==
    ASSUME NEW S, IsFiniteSet(S), NEW f \in [1..Cardinality(S) -> S],
           \A i, j \in 1..Cardinality(S) : i # j => f[i] # f[j]
    PROVE  \A t \in S : \E j \in 1..Cardinality(S) : f[j] = t
  <1>1. Cardinality(S) \in Nat
    BY FS_CardinalityType
  <1>2. Cardinality(1..Cardinality(S)) = Cardinality(S)
    BY <1>1, FS_Interval
  <1>3. f \in Injection(1..Cardinality(S), S)
    BY DEF Injection, IsInjective
  <1>4. f \in Surjection(1..Cardinality(S), S)
    BY <1>2, <1>3, FS_Injection
  <1> QED
    BY <1>4 DEF Surjection

\* The threshold strategy splits inside the active region.
LEMMA SplitInside ==
    ASSUME active \in Seq(Entry), active # <<>>
    PROVE  Store!Split \in 1..Len(active)
  <1> DEFINE n == Len(active)
  <1>1. n \in Nat /\ n > 0
    BY SMT
  <1>2. Store!KeepFrom \in 0..(n - 1)
    <2>1. (n - 1) \in Store!Affordable /\ Store!Affordable \subseteq 0..(n - 1)
      BY <1>1 DEF Store!Affordable
    <2>2. Store!Affordable \in SUBSET Nat /\ Store!Affordable # {}
      BY <1>1, <2>1
    <2>3. \E k \in Store!Affordable : \A j \in Store!Affordable : k <= j
      BY <2>2, Least
    <2>4. Store!KeepFrom \in Store!Affordable
      BY <2>3 DEF Store!KeepFrom
    <2> QED
      BY <2>1, <2>4
  <1>3. n \in Store!Splits /\ Store!Splits \subseteq 1..n
    BY <1>1, <1>2 DEF Store!Splits
  <1>4. Store!Splits \in SUBSET Nat /\ Store!Splits # {}
    BY <1>1, <1>3
  <1>5. \E s \in Store!Splits : \A r \in Store!Splits : s <= r
    BY <1>4, Least
  <1>6. Store!Split \in Store!Splits
    BY <1>5 DEF Store!Split
  <1> QED
    BY <1>3, <1>6

\* What was drained when its Task had completed is told of by a completed highlight.
CompletedAreTold ==
    strategy = "orchestrator" =>
      \A i \in Store!ToSet(log) : i.kind = "closed" =>
        \E h \in Store!ToSet(active) : h.kind = "closed" /\ h.task = i.task /\ i.n \in h.covers

\* The inductive invariant of the memory.
MemoryInv ==
    /\ active \in Seq(Entry) /\ log \in Seq(Pushed)
    /\ strategy \in Store!Strategy /\ used \in Nat
    /\ NothingForgotten
    /\ CompletedAreTold

\* Items come into the context and the history together.
LEMMA PushStep ==
    ASSUME LibraryAssumption, MemoryInv, NEW e \in Events[strategy], Store!Push(e)
    PROVE  MemoryInv'
  <1> DEFINE i == Store!Item(used + 1, e)
  <1>1. /\ active' = Append(active, i) /\ log' = Append(log, i) /\ used' = used + 1
        /\ UNCHANGED <<strategy, rows, kept, faults>>
    BY DEF Store!Push
  <1>2. e \in [kind : {"heartbeat", "open", "closed", "other"}, task : Task, size : Nat]
    BY DEF MemoryInv, Store!Strategy, LibraryAssumption
  <1>3. i \in Pushed /\ i \in Entry /\ i.n \in i.covers
    <2>0. e.size \in Nat /\ e.task \in Task /\ e.kind \in Store!Kind
      BY <1>2, Zenon DEF Store!Kind
    <2>1. used + 1 \in Nat /\ {used + 1} \in SUBSET Nat
      <3>1. used \in Nat
        BY DEF MemoryInv
      <3> QED
        BY <3>1
    <2>2. /\ i = [n |-> used + 1, kind |-> e.kind, task |-> e.task, size |-> e.size,
                  covers |-> {used + 1}]
      BY DEF Store!Item
    <2> HIDE DEF i
    <2>3. i \in Pushed
      BY <2>0, <2>1, <2>2 DEF Pushed
    <2>4. i \in Entry
      BY <2>0, <2>1, <2>2 DEF Entry
    <2>5. i.n = used + 1 /\ i.covers = {used + 1}
      BY <2>2
    <2> QED
      BY <2>3, <2>4, <2>5
  <1> HIDE DEF i
  <1>4. /\ active' \in Seq(Entry) /\ log' \in Seq(Pushed)
        /\ \A x : x \in ToSet(active)' <=> x \in ToSet(active) \/ x = i
        /\ \A x : x \in ToSet(log)' <=> x \in ToSet(log) \/ x = i
    <2>1. active \in Seq(Entry) /\ log \in Seq(Pushed)
      BY DEF MemoryInv
    <2> HIDE DEF Entry, Pushed
    <2>2. /\ Append(active, i) \in Seq(Entry)
          /\ \A x : x \in ToSet(Append(active, i)) <=> x \in ToSet(active) \/ x = i
      BY <1>3, <2>1, Appended
    <2>3. /\ Append(log, i) \in Seq(Pushed)
          /\ \A x : x \in ToSet(Append(log, i)) <=> x \in ToSet(log) \/ x = i
      BY <1>3, <2>1, Appended
    <2>4. ToSet(active)' = ToSet(Append(active, i)) /\ ToSet(log)' = ToSet(Append(log, i))
      BY <1>1 DEF ToSet
    <2> QED
      BY <1>1, <2>2, <2>3, <2>4
  <1>5. NothingForgotten'
    <2>1. \A x : Store!Found(x) => Store!Found(x)'
      BY <1>1, StillFound
    <2>2. /\ \A x \in ToSet(log) : x \in ToSet(active) \/ Store!Found(x)
          /\ \A x \in kept : Store!Found(x)
      BY DEF MemoryInv, NothingForgotten, Store!NothingForgotten, Store!ToSet, ToSet
    <2>3. /\ \A x \in ToSet(log)' : x \in ToSet(active)' \/ Store!Found(x)'
          /\ \A x \in kept' : Store!Found(x)'
      BY <1>1, <1>4, <2>1, <2>2
    <2> QED
      BY <2>3, Zenon DEF NothingForgotten, Store!NothingForgotten, Store!ToSet, ToSet
  <1>6. CompletedAreTold'
    <2>1. CASE strategy = "orchestrator"
      <3>1. \A x \in ToSet(log) : x.kind = "closed" =>
              \E h \in ToSet(active) : h.kind = "closed" /\ h.task = x.task /\ x.n \in h.covers
        BY <2>1 DEF MemoryInv, CompletedAreTold, Store!ToSet, ToSet
      <3>2. \A x \in ToSet(log)' : x.kind = "closed" =>
              \E h \in ToSet(active)' : h.kind = "closed" /\ h.task = x.task /\ x.n \in h.covers
        BY <1>3, <1>4, <3>1, Zenon
      <3> QED
        BY <3>2, Zenon DEF CompletedAreTold, Store!ToSet, ToSet
    <2>2. CASE strategy # "orchestrator"
      BY <1>1, <2>2 DEF CompletedAreTold
    <2> QED
      BY <2>1, <2>2
  <1> QED
    BY <1>1, <1>4, <1>5, <1>6 DEF MemoryInv

\* What no step of the memory takes away: the items of the history that were
\* archived are found, those that stay are there.
LEMMA ArchivingForgetsNothing ==
    ASSUME MemoryInv, rows \subseteq rows', UNCHANGED <<strategy, log>>,
           \A x \in ToSet(active) : x \in ToSet(active)' \/ Store!Found(x)',
           \A x \in kept' : x \in kept \/ Store!Found(x)'
    PROVE  NothingForgotten'
  <1>1. \A x : Store!Found(x) => Store!Found(x)'
    BY StillFound
  <1>2. /\ \A x \in ToSet(log) : x \in ToSet(active) \/ Store!Found(x)
        /\ \A x \in kept : Store!Found(x)
    BY DEF MemoryInv, NothingForgotten, Store!NothingForgotten, Store!ToSet, ToSet
  <1>3. ToSet(log)' = ToSet(log)
    BY DEF ToSet
  <1>4. /\ \A x \in ToSet(log)' : x \in ToSet(active)' \/ Store!Found(x)'
        /\ \A x \in kept' : Store!Found(x)'
    BY <1>1, <1>2, <1>3
  <1> QED
    BY <1>4, Zenon DEF NothingForgotten, Store!NothingForgotten, Store!ToSet, ToSet

\* Nor does a step that leaves the context and the history alone.
LEMMA TellingStays ==
    ASSUME CompletedAreTold, UNCHANGED <<strategy, active, log>>
    PROVE  CompletedAreTold'
  <1>1. strategy' = strategy /\ active' = active /\ log' = log
    OBVIOUS
  <1>2. Store!ToSet(active)' = Store!ToSet(active) /\ Store!ToSet(log)' = Store!ToSet(log)
    BY <1>1 DEF Store!ToSet
  <1> QED
    BY <1>1, <1>2, Zenon DEF CompletedAreTold

\* What memorialize reports stored is found from then on.
LEMMA MemorializeStep ==
    ASSUME MemoryInv, NEW e, Store!Memorialize(e)
    PROVE  MemoryInv'
  <1> DEFINE list == <<Store!Item(used + 1, e), Store!Item(used + 2, [e EXCEPT !.kind = "other"]),
                       Store!Item(used + 3, e)>>
  <1>1. /\ used' = used + 3 /\ UNCHANGED <<strategy, active, log>>
        /\ \/ Store!StoresAll(list) /\ kept' = kept \cup Store!ToSet(list)
           \/ Store!StoresPart(list) /\ UNCHANGED kept
    BY DEF Store!Memorialize
  <1>2. DOMAIN list = 1..Len(list)
    OBVIOUS
  <1> HIDE DEF list
  <1>3. rows \subseteq rows'
    BY <1>1, RowsGrow
  <1>4. \A x \in kept' : x \in kept \/ Store!Found(x)'
    <2>1. CASE Store!StoresAll(list) /\ kept' = kept \cup Store!ToSet(list)
      <3>1. \A x : (\E j \in 1..Len(list) : x = list[j]) => Store!Found(x)'
        BY <1>1, <2>1, StoredAreFound
      <3> QED
        BY <1>2, <2>1, <3>1 DEF Store!ToSet
    <2>2. CASE UNCHANGED kept
      BY <2>2
    <2> QED
      BY <1>1, <2>1, <2>2
  <1>5. ToSet(active)' = ToSet(active)
    BY <1>1 DEF ToSet
  <1>6. NothingForgotten'
    BY <1>1, <1>3, <1>4, <1>5, ArchivingForgetsNothing
  <1>7. CompletedAreTold'
    BY <1>1, TellingStays DEF MemoryInv
  <1>8. used' \in Nat
    BY <1>1 DEF MemoryInv
  <1> QED
    BY <1>1, <1>6, <1>7, <1>8 DEF MemoryInv

\* The threshold strategy archives everything before it drops anything.
LEMMA ThresholdStep ==
    ASSUME LibraryAssumption, MemoryInv, Store!CompactThreshold
    PROVE  MemoryInv'
  <1>1. /\ strategy = "threshold" /\ active # <<>> /\ UNCHANGED <<strategy, log, kept, used>>
        /\ \/ Store!StoresAll(active)
              /\ active' = <<Store!Notice(Store!Split)>> \o Store!From(Store!Split)
           \/ Store!StoresPart(active) /\ UNCHANGED active
    BY DEF Store!CompactThreshold
  <1>2. active \in Seq(Entry)
    BY DEF MemoryInv
  <1>3. rows \subseteq rows'
    BY <1>1, RowsGrow
  <1>4. \A x \in ToSet(active) : x \in ToSet(active)' \/ Store!Found(x)'
    <2>1. CASE Store!StoresAll(active)
      <3>1. \A x : (\E j \in 1..Len(active) : x = active[j]) => Store!Found(x)'
        BY <1>1, <2>1, StoredAreFound
      <3>2. DOMAIN active = 1..Len(active)
        BY <1>2
      <3> QED
        BY <3>1, <3>2 DEF ToSet
    <2>2. CASE UNCHANGED active
      BY <2>2 DEF ToSet
    <2> QED
      BY <1>1, <2>1, <2>2
  <1>5. NothingForgotten'
    BY <1>1, <1>3, <1>4, ArchivingForgetsNothing
  <1>6. CompletedAreTold'
    BY <1>1 DEF CompletedAreTold
  <1>7. active' \in Seq(Entry)
    <2>1. CASE active' = <<Store!Notice(Store!Split)>> \o Store!From(Store!Split)
      <3>1. Store!Notice(Store!Split) \in Entry
        <4>1. SummarySize \in Nat
          BY DEF LibraryAssumption
        <4>2. "other" \in Store!Kind /\ 0 \in Nat /\ {} \in SUBSET Nat
          BY DEF Store!Kind
        <4> QED
          BY <4>1, <4>2, Zenon DEF Store!Notice, Entry
      <3>2. Store!From(Store!Split) \in Seq(Entry)
        <4>1. Store!Split \in 1..Len(active) /\ Len(active) \in Nat
          BY <1>1, <1>2, SplitInside
        <4> HIDE DEF Entry
        <4> QED
          <5>1. \A k \in 1..Len(active) : SubSeq(active, k + 1, Len(active)) \in Seq(Entry)
            BY <1>2, WhatFollows
          <5> QED
            BY <4>1, <5>1 DEF Store!From
      <3> HIDE DEF Entry
      <3> QED
        BY <2>1, <3>1, <3>2
    <2>2. CASE UNCHANGED active
      BY <1>2, <2>2
    <2> QED
      BY <1>1, <2>1, <2>2
  <1> QED
    BY <1>1, <1>5, <1>6, <1>7 DEF MemoryInv

\* The summaries, in whatever order, hold one for each Task with completed
\* highlights.
LEMMA Summarised ==
    ASSUME LibraryAssumption, active \in Seq(Entry), NEW last \in Store!Summaries
    PROVE  /\ last \in Seq(Entry)
           /\ \A t \in Task : Store!Indices("closed", t) # {} => Store!Summary(t) \in ToSet(last)
  <1> DEFINE S == {t \in Task : Store!Indices("closed", t) # {}}
             C == {k \in DOMAIN active : active[k].kind = "closed" /\ active[k].task \in Task}
             n == Cardinality(S)
  <1>1. DOMAIN active = 1..Len(active) /\ Len(active) \in Nat
    OBVIOUS
  <1>2. IsFiniteSet(S)
    <2>1. IsFiniteSet(C)
      <3>1. IsFiniteSet(1..Len(active)) /\ C \in SUBSET (1..Len(active))
        BY <1>1, FS_Interval
      <3> HIDE DEF C
      <3> QED
        BY <3>1, FS_Subset
    <2> DEFINE tells == [k \in C |-> active[k].task]
    <2>2. tells \in [C -> S] /\ \A t \in S : \E k \in C : tells[k] = t
      BY DEF Store!Indices
    <2> HIDE DEF tells, C, S
    <2>3. tells \in Surjection(C, S)
      BY <2>2 DEF Surjection
    <2> QED
      BY <2>1, <2>3, FS_Surjection
  <1>3. n \in Nat
    BY <1>2, FS_CardinalityType
  <1>4. PICK order \in Store!SetToSeqs(S) : last = [j \in DOMAIN order |-> Store!Summary(order[j])]
    BY DEF Store!Summaries
  <1> HIDE DEF n, S
  <1>5. order \in [1..n -> S] /\ \A i, j \in 1..n : i # j => order[i] # order[j]
    BY <1>4 DEF Store!SetToSeqs, Store!Cardinality, Store!IsFiniteSet, Cardinality, IsFiniteSet, n
  <1>6. \A t \in S : \E j \in 1..n : order[j] = t
    BY <1>2, <1>5, Onto DEF n
  <1>7. last = [j \in 1..n |-> Store!Summary(order[j])]
    BY <1>4, <1>5
  <1>8. \A t \in S : Store!Summary(t) \in Entry
    <2> TAKE t \in S
    <2>1. t \in Task /\ SummarySize \in Nat
      BY DEF S, LibraryAssumption
    <2>2. UNION {active[k].covers : k \in Store!Indices("closed", t)} \in SUBSET Nat
      <3>1. \A x \in Entry : x.covers \in SUBSET Nat
        BY DEF Entry
      <3> HIDE DEF Entry
      <3>2. \A k \in Store!Indices("closed", t) : active[k] \in Entry
        BY Members DEF Store!Indices
      <3>3. \A k \in Store!Indices("closed", t) : active[k].covers \in SUBSET Nat
        BY <3>1, <3>2
      <3> QED
        BY <3>3
    <2>3. "closed" \in Store!Kind /\ 0 \in Nat
      BY DEF Store!Kind
    <2> QED
      BY <2>1, <2>2, <2>3, Zenon DEF Store!Summary, Entry
  <1>9. last \in Seq(Entry)
    <2> HIDE DEF Entry
    <2>1. \A j \in 1..n : Store!Summary(order[j]) \in Entry
      BY <1>5, <1>8
    <2> QED
      BY <1>3, <1>7, <2>1
  <1>10. \A t \in S : Store!Summary(t) \in ToSet(last)
    BY <1>6, <1>7 DEF ToSet
  <1> QED
    BY <1>9, <1>10 DEF S

\* The Orchestrator's strategy drops only what it archived first, and its
\* summaries tell what they replace.
LEMMA OrchestratorStep ==
    ASSUME LibraryAssumption, MemoryInv, Store!CompactOrchestrator
    PROVE  MemoryInv'
  <1> DEFINE gone == Store!Archived
             stay == DOMAIN active \ Store!Archived
  <1>1. /\ strategy = "orchestrator" /\ UNCHANGED <<strategy, log, kept, used>>
        /\ \/ /\ Store!StoresAll(Store!Pick(gone))
              /\ \E last \in Store!Summaries : active' = Store!Pick(stay) \o last
           \/ Store!StoresPart(Store!Pick(gone)) /\ UNCHANGED active
    BY DEF Store!CompactOrchestrator
  <1>2. active \in Seq(Entry) /\ log \in Seq(Pushed)
    BY DEF MemoryInv
  <1>3. gone \in SUBSET (DOMAIN active) /\ stay \in SUBSET (DOMAIN active)
    BY DEF Store!Archived, Store!OldHeartbeats, Store!OldHighlights, Store!Closed, Store!Indices
  <1>4. \A k \in DOMAIN active : k \in gone \/ k \in stay
    OBVIOUS
  <1> HIDE DEF gone, stay
  <1>5. rows \subseteq rows'
    BY <1>1, RowsGrow
  <1>6. CASE UNCHANGED active
    <2>1. ToSet(active)' = ToSet(active)
      BY <1>6 DEF ToSet
    <2>2. NothingForgotten'
      BY <1>1, <1>5, <2>1, ArchivingForgetsNothing
    <2>3. CompletedAreTold'
      BY <1>1, <1>6, TellingStays DEF MemoryInv
    <2> QED
      BY <1>1, <1>6, <2>2, <2>3 DEF MemoryInv
  <1>7. CASE /\ Store!StoresAll(Store!Pick(gone))
             /\ \E last \in Store!Summaries : active' = Store!Pick(stay) \o last
    <2>1. PICK last \in Store!Summaries : active' = Store!Pick(stay) \o last
      BY <1>7
    <2>2. /\ last \in Seq(Entry)
          /\ \A t \in Task : Store!Indices("closed", t) # {} => Store!Summary(t) \in ToSet(last)
      BY <1>2, Summarised
    <2>3. /\ Store!Pick(stay) \in Seq(Entry)
          /\ \A k \in stay : active[k] \in ToSet(Store!Pick(stay))
      BY <1>2, <1>3, Picked
    <2>4. /\ active' \in Seq(Entry)
          /\ \A x \in ToSet(Store!Pick(stay)) : x \in ToSet(active)'
          /\ \A x \in ToSet(last) : x \in ToSet(active)'
      <3> HIDE DEF Entry
      <3>2. ToSet(active)' = ToSet(Store!Pick(stay) \o last)
        BY <2>1 DEF ToSet
      <3>3. /\ Store!Pick(stay) \o last \in Seq(Entry)
            /\ \A x \in ToSet(Store!Pick(stay)) \cup ToSet(last) :
                  x \in ToSet(Store!Pick(stay) \o last)
        BY <2>2, <2>3, Joined
      <3> QED
        BY <2>1, <3>2, <3>3
    <2>5. \A x \in ToSet(active) : x \in ToSet(active)' \/ Store!Found(x)'
      <3>1. \A x : (\E j \in 1..Len(Store!Pick(gone)) : x = Store!Pick(gone)[j])
                     => Store!Found(x)'
        BY <1>1, <1>7, StoredAreFound
      <3>2. \A k \in gone : \E j \in 1..Len(Store!Pick(gone)) : Store!Pick(gone)[j] = active[k]
        BY <1>2, <1>3, Picked
      <3>3. ASSUME NEW x, NEW k \in DOMAIN active, x = active[k]
            PROVE  x \in ToSet(active)' \/ Store!Found(x)'
        <4>1. CASE k \in gone
          <5>1. \E j \in 1..Len(Store!Pick(gone)) : x = Store!Pick(gone)[j]
            BY <3>2, <3>3, <4>1
          <5>2. Store!Found(x)'
            BY <3>1, <5>1
          <5> QED
            BY <5>2
        <4>2. CASE k \in stay
          BY <2>3, <2>4, <3>3, <4>2
        <4> QED
          BY <1>4, <4>1, <4>2
      <3> QED
        BY <3>3, Zenon DEF ToSet
    <2>6. NothingForgotten'
      BY <1>1, <1>5, <2>5, ArchivingForgetsNothing
    <2>7. CompletedAreTold'
      <3>1. ASSUME NEW x \in ToSet(log), x.kind = "closed"
            PROVE  \E h \in ToSet(active)' : h.kind = "closed" /\ h.task = x.task /\ x.n \in h.covers
        <4>1. PICK h \in ToSet(active) : h.kind = "closed" /\ h.task = x.task /\ x.n \in h.covers
          BY <1>1, <3>1 DEF MemoryInv, CompletedAreTold, Store!ToSet, ToSet
        <4>2. PICK k \in DOMAIN active : h = active[k]
          BY DEF ToSet
        <4>3. x.task \in Task
          <5>1. \A y \in Pushed : y.task \in Task
            BY DEF Pushed
          <5> HIDE DEF Pushed
          <5>2. x \in Pushed
            BY <1>2, Members
          <5> QED
            BY <5>1, <5>2
        <4>4. k \in Store!Indices("closed", x.task)
          BY <4>1, <4>2 DEF Store!Indices
        <4>5. Store!Summary(x.task) \in ToSet(active)'
          BY <2>2, <2>4, <4>3, <4>4
        <4>6. /\ Store!Summary(x.task).kind = "closed" /\ Store!Summary(x.task).task = x.task
              /\ Store!Summary(x.task).covers
                   = UNION {active[j].covers : j \in Store!Indices("closed", x.task)}
          BY DEF Store!Summary
        <4>7. x.n \in Store!Summary(x.task).covers
          BY <4>1, <4>2, <4>4, <4>6
        <4> QED
          BY <4>5, <4>6, <4>7
      <3>2. ToSet(log)' = ToSet(log)
        BY <1>1 DEF ToSet
      <3>3. \A x \in ToSet(log)' : x.kind = "closed" =>
               \E h \in ToSet(active)' : h.kind = "closed" /\ h.task = x.task /\ x.n \in h.covers
        BY <3>1, <3>2
      <3> QED
        BY <3>3, Zenon DEF CompletedAreTold, Store!ToSet, ToSet
    <2> QED
      BY <1>1, <2>4, <2>6, <2>7 DEF MemoryInv
  <1> QED
    BY <1>1, <1>6, <1>7

\* The memory's invariant is inductive, whatever part is at work.
LEMMA MemoryInductive ==
    /\ LibraryAssumption /\ Init => MemoryInv
    /\ LibraryAssumption /\ MemoryInv /\ [Next]_vars => MemoryInv'
  <1>1. Init => MemoryInv
    <2> SUFFICES ASSUME Init PROVE MemoryInv
      OBVIOUS
    <2>1. /\ strategy \in Store!Strategy /\ active = <<>> /\ log = <<>> /\ kept = {} /\ used = 0
      BY DEF Init, Store!Init
    <2>2. Store!ToSet(log) = {}
      BY <2>1 DEF Store!ToSet
    <2>3. active \in Seq(Entry) /\ log \in Seq(Pushed)
      BY <2>1
    <2> QED
      BY <2>1, <2>2, <2>3 DEF MemoryInv, NothingForgotten, Store!NothingForgotten,
                              CompletedAreTold
  <1>2. ASSUME LibraryAssumption, MemoryInv, [Next]_vars PROVE MemoryInv'
    <2>1. CASE part = "memory" /\ Store!Next
      <3>1. ASSUME NEW e \in Events[strategy], Store!Push(e) PROVE MemoryInv'
        BY <1>2, <3>1, PushStep
      <3>2. ASSUME NEW e \in Events[strategy], Store!Memorialize(e) PROVE MemoryInv'
        BY <1>2, <3>2, MemorializeStep
      <3>3. CASE Store!CompactThreshold
        BY <1>2, <3>3, ThresholdStep
      <3>4. CASE Store!CompactOrchestrator
        BY <1>2, <3>4, OrchestratorStep
      <3> QED
        BY <2>1, <3>1, <3>2, <3>3, <3>4 DEF Store!Next
    <2>2. CASE UNCHANGED memoryVars
      <3>1. /\ strategy' = strategy /\ active' = active /\ rows' = rows /\ log' = log
            /\ kept' = kept /\ used' = used
        BY <2>2 DEF memoryVars
      <3>2. ToSet(active)' = ToSet(active)
        BY <3>1 DEF ToSet
      <3>3. NothingForgotten'
        BY <1>2, <3>1, <3>2, ArchivingForgetsNothing
      <3>4. CompletedAreTold'
        BY <1>2, <3>1, TellingStays DEF MemoryInv
      <3> QED
        BY <1>2, <3>1, <3>3, <3>4 DEF MemoryInv
    <2> QED
      BY <1>2, <2>1, <2>2 DEF Next, Others, vars
  <1> QED
    BY <1>1, <1>2

\* However often the memory is compacted, by either strategy, and wherever an
\* insert fails: what was pushed is in the context or found in the archive by
\* every index its strategy gives, and what memorialize reported is found
\* (Memory::compact, Store::store).
THEOREM NothingIsForgotten == Spec => []NothingForgotten
  <1>1. MemoryInv => NothingForgotten
    BY DEF MemoryInv
  <1> QED
    BY <1>1, MemoryInductive, LibraryAssumption, PTL DEF Spec

\* Pick takes nothing else, and keeps the order.
LEMMA PickedInOrder ==
    ASSUME NEW X, active \in Seq(X), NEW S \in SUBSET (DOMAIN active)
    PROVE  \E at \in [DOMAIN Store!Pick(S) -> S] :
              /\ \A j \in DOMAIN Store!Pick(S) : Store!Pick(S)[j] = active[at[j]]
              /\ \A i, j \in DOMAIN Store!Pick(S) : i < j => at[i] < at[j]
  <1> DEFINE n == Cardinality(S)
             Below(k) == {i \in S : i <= k}
             Rank(k) == Cardinality(Below(k))
             at == [j \in 1..n |-> Store!Nth(S, j)]
  <1>1. DOMAIN active = 1..Len(active) /\ Len(active) \in Nat
    OBVIOUS
  <1>2. IsFiniteSet(S) /\ S \in SUBSET Nat
    <2>1. IsFiniteSet(1..Len(active))
      BY <1>1, FS_Interval
    <2> QED
      BY <1>1, <2>1, FS_Subset
  <1>3. /\ n \in Nat /\ \A k \in S : Rank(k) \in 1..n
        /\ \A j \in 1..n : \E k \in S : Rank(k) = j
    BY <1>2, Ranks
  <1>4. \A j : Store!Nth(S, j) = CHOOSE k \in S : Rank(k) = j
    BY DEF Store!Nth, Store!Cardinality, Store!IsFiniteSet, Cardinality, IsFiniteSet
  <1>5. Store!Pick(S) = [j \in 1..n |-> active[Store!Nth(S, j)]]
    BY DEF Store!Pick, Store!Cardinality, Store!IsFiniteSet, Cardinality, IsFiniteSet
  <1>6. ASSUME NEW k \in S, NEW l \in S, l <= k
        PROVE  Rank(l) <= Rank(k)
    <2>1. k \in Nat /\ l \in Nat /\ \A i \in S : i \in Nat
      BY <1>2
    <2>2. Below(l) \in SUBSET Below(k) /\ Below(k) \in SUBSET S
      BY <1>6, <2>1
    <2> HIDE DEF Below
    <2>3. IsFiniteSet(Below(k))
      BY <1>2, <2>2, FS_Subset
    <2> QED
      BY <2>2, <2>3, FS_Subset
  <1> HIDE DEF n, Rank, Below
  <1>7. \A j \in 1..n : Store!Nth(S, j) \in S /\ Rank(Store!Nth(S, j)) = j
    BY <1>3, <1>4
  <1>8. at \in [1..n -> S] /\ \A j \in 1..n : at[j] = Store!Nth(S, j)
    BY <1>7
  <1>9. DOMAIN Store!Pick(S) = 1..n /\ \A j \in 1..n : Store!Pick(S)[j] = active[at[j]]
    BY <1>5
  <1> HIDE DEF at
  <1>10. ASSUME NEW i \in 1..n, NEW j \in 1..n, i < j
         PROVE  at[i] < at[j]
    <2>1. at[i] \in S /\ at[j] \in S /\ Rank(at[i]) = i /\ Rank(at[j]) = j
      BY <1>7, <1>8
    <2>2. at[i] \in Nat /\ at[j] \in Nat /\ i \in Nat /\ j \in Nat
      BY <1>2, <1>3, <2>1
    <2>3. at[j] <= at[i] => Rank(at[j]) <= Rank(at[i])
      BY <1>6, <2>1
    <2> QED
      BY <1>10, <2>1, <2>2, <2>3
  <1> QED
    BY <1>8, <1>9, <1>10

\* If the items that fewer than c of S came after are in A, and c of S came after
\* i, then c of A did.
LEMMA LatestOnes ==
    ASSUME NEW S, IsFiniteSet(S), \A x \in S : x.n \in Nat,
           \A x, y \in S : x.n = y.n => x = y,
           NEW A, IsFiniteSet(A), NEW c \in Nat,
           \A x \in S : Cardinality({y \in S : y.n > x.n}) < c => x \in A,
           NEW i \in S, ~(Cardinality({y \in S : y.n > i.n}) < c)
    PROVE  ~(Cardinality({y \in A : y.n > i.n}) < c)
  <1> DEFINE After(x) == {y \in S : y.n > x.n}
             Rank(x) == Cardinality(After(x))
             n == Cardinality(S)
             B == {y \in A : y.n > i.n}
             rank == [x \in S |-> Rank(x)]
             at == [v \in 0..(c - 1) |-> CHOOSE x \in S : Rank(x) = v]
  <1>1. n \in Nat /\ n > 0
    <2>1. n \in Nat /\ (n = 0 <=> S = {})
      BY FS_CardinalityType, FS_EmptySet
    <2> QED
      BY <2>1
  <1>2. ASSUME NEW x \in S
        PROVE  IsFiniteSet(After(x)) /\ Rank(x) \in 0..(n - 1)
    <2>1. After(x) \in SUBSET S /\ x \notin After(x)
      OBVIOUS
    <2> HIDE DEF After
    <2>2. IsFiniteSet(After(x)) /\ Cardinality(After(x)) <= n /\ Cardinality(After(x)) # n
      BY <2>1, FS_Subset
    <2>3. Cardinality(After(x)) \in Nat
      BY <2>2, FS_CardinalityType
    <2> QED
      BY <1>1, <2>2, <2>3
  <1>3. ASSUME NEW x \in S, NEW y \in S, x.n < y.n
        PROVE  Rank(y) < Rank(x)
    <2>1. After(y) \in SUBSET After(x) /\ y \in After(x) /\ y \notin After(y)
      BY <1>3
    <2> HIDE DEF After
    <2>2. IsFiniteSet(After(x)) /\ IsFiniteSet(After(y)) /\ Rank(x) \in Nat /\ Rank(y) \in Nat
      BY <1>2, FS_CardinalityType
    <2>3. Cardinality(After(y)) <= Cardinality(After(x)) /\ Cardinality(After(y)) # Cardinality(After(x))
      BY <2>1, <2>2, FS_Subset
    <2> QED
      BY <2>2, <2>3
  <1> HIDE DEF After, n
  <1>4. \A x, y \in S : Rank(x) = Rank(y) => x = y
    <2> SUFFICES ASSUME NEW x \in S, NEW y \in S, Rank(x) = Rank(y) PROVE x = y
      OBVIOUS
    <2>1. Rank(x) \in Nat /\ Rank(y) \in Nat /\ x.n \in Nat /\ y.n \in Nat
      BY <1>1, <1>2
    <2>2. ~(x.n < y.n) /\ ~(y.n < x.n)
      BY <1>3, <2>1
    <2> QED
      BY <2>1, <2>2
  <1> HIDE DEF Rank
  <1>5. \A v \in 0..(n - 1) : \E x \in S : Rank(x) = v
    <2>1. rank \in Injection(S, 0..(n - 1))
      BY <1>2, <1>4 DEF Injection, IsInjective
    <2>2. IsFiniteSet(0..(n - 1)) /\ Cardinality(0..(n - 1)) = n
      <3>1. 0 \in Int /\ n - 1 \in Int /\ ~(0 > n - 1) /\ (n - 1) - 0 + 1 = n
        BY <1>1
      <3> QED
        BY <3>1, FS_Interval
    <2>3. rank \in Surjection(S, 0..(n - 1))
      BY <2>1, <2>2, FS_Injection DEF n
    <2>4. \A x \in S : rank[x] = Rank(x)
      OBVIOUS
    <2> HIDE DEF rank
    <2>5. \A v \in 0..(n - 1) : \E x \in S : rank[x] = v
      BY <2>3 DEF Surjection
    <2> QED
      BY <2>4, <2>5
  <1>6. Rank(i) \in 0..(n - 1) /\ ~(Rank(i) < c)
    BY <1>2 DEF Rank, After
  <1>7. \A x \in S : Rank(x) < c => x \in A
    BY DEF Rank, After
  <1>8. ASSUME NEW v \in 0..(c - 1)
        PROVE  at[v] \in B /\ Rank(at[v]) = v
    <2>1. v \in 0..(n - 1) /\ v < c
      BY <1>1, <1>6, <1>8
    <2>2. \E x \in S : Rank(x) = v
      BY <1>5, <2>1
    <2>3. at[v] \in S /\ Rank(at[v]) = v
      BY <1>8, <2>2
    <2> HIDE DEF at
    <2>4. at[v] \in A
      BY <1>7, <2>1, <2>3
    <2>5. at[v].n > i.n
      <3>1. at[v].n \in Nat /\ i.n \in Nat
        BY <2>3
      <3>2. ~(at[v].n < i.n)
        <4>1. at[v].n < i.n => Rank(i) < Rank(at[v])
          BY <1>3, <2>3
        <4> QED
          BY <1>6, <2>1, <2>3, <4>1
      <3>3. at[v].n # i.n
        <4>1. at[v].n = i.n => at[v] = i
          BY <2>3
        <4> QED
          BY <1>6, <2>1, <2>3, <4>1
      <3> QED
        BY <3>1, <3>2, <3>3
    <2> QED
      BY <2>3, <2>4, <2>5
  <1>9. at \in Injection(0..(c - 1), B)
    <2>1. at = [v \in 0..(c - 1) |-> at[v]]
      OBVIOUS
    <2> HIDE DEF at, B
    <2>2. at \in [0..(c - 1) -> B]
      BY <1>8, <2>1
    <2>3. \A v, w \in 0..(c - 1) : at[v] = at[w] => v = w
      BY <1>8
    <2> QED
      BY <2>2, <2>3 DEF Injection, IsInjective
  <1>10. IsFiniteSet(B)
    <2>1. B \in SUBSET A
      OBVIOUS
    <2> QED
      BY <2>1, FS_Subset
  <1> HIDE DEF at, B
  <1>11. Cardinality(0..(c - 1)) <= Cardinality(B)
    BY <1>9, <1>10, FS_Injection
  <1>12. Cardinality(0..(c - 1)) = c
    <2>1. 0 \in Int /\ c - 1 \in Int /\ (IF 0 > c - 1 THEN 0 ELSE (c - 1) - 0 + 1) = c
      OBVIOUS
    <2> QED
      BY <2>1, FS_Interval
  <1>13. Cardinality(B) \in Nat
    BY <1>10, FS_CardinalityType
  <1>14. ~(Cardinality(B) < c)
    BY <1>11, <1>12, <1>13
  <1> QED
    BY <1>14 DEF B

LEMMA SameCardinality ==
    \A S : Store!Cardinality(S) = Cardinality(S)
  BY DEF Store!Cardinality, Store!IsFiniteSet, Cardinality, IsFiniteSet

Kept(kind) == IF kind = "heartbeat" THEN 1 ELSE Recent

\* Items have numbers of their own; of what running Tasks said the context holds
\* nothing that did not come, holds it in order, and holds the latest.
StayInv ==
    /\ \A x \in ToSet(log) : x.n <= used
    /\ \A x, y \in ToSet(log) : x.n = y.n => x = y
    /\ strategy = "orchestrator" =>
         /\ \A x \in ToSet(active) : Store!Running(x) => x \in ToSet(log)
         /\ \A j, k \in DOMAIN active :
               j < k /\ Store!Running(active[j]) /\ Store!Running(active[k])
                  => active[j].n < active[k].n
         /\ \A x \in ToSet(log) :
               Store!Running(x) /\ Cardinality(Store!Later(log, x)) < Kept(x.kind)
                  => x \in ToSet(active)

\* What the invariant says, in the terms of the property.
LEMMA StayInvStays ==
    ASSUME LibraryAssumption, active \in Seq(Entry), log \in Seq(Pushed), StayInv
    PROVE  LatestStay
  <1> SUFFICES ASSUME strategy = "orchestrator"
               PROVE  /\ \A t \in Task :
                           /\ Store!Latest(active, "heartbeat", t, 1) = Store!Latest(log, "heartbeat", t, 1)
                           /\ Store!Latest(active, "open", t, Recent) = Store!Latest(log, "open", t, Recent)
                      /\ \A j, k \in DOMAIN active :
                           j < k /\ Store!Running(active[j]) /\ Store!Running(active[k])
                              => active[j].n < active[k].n
    BY DEF LatestStay, Store!LatestStay
  <1>1. Recent \in Nat /\ \A kind : Kept(kind) \in Nat
    BY DEF LibraryAssumption, Kept
  <1>2. \A x \in ToSet(log) : x.n \in Nat
    <2>1. \A x \in Pushed : x.n \in Nat
      BY DEF Pushed
    <2> HIDE DEF Pushed
    <2> QED
      BY <2>1, Members
  <1>3. IsFiniteSet(ToSet(active)) /\ IsFiniteSet(ToSet(log))
    BY FiniteMembers
  <1>4. ASSUME NEW kind \in {"heartbeat", "open"}, NEW t \in Task
        PROVE  Store!Latest(active, kind, t, Kept(kind)) = Store!Latest(log, kind, t, Kept(kind))
    <2> DEFINE Of(s) == {x \in ToSet(s) : x.kind = kind /\ x.task = t}
               Few(s, x) == Cardinality({y \in Of(s) : y.n > x.n}) < Kept(kind)
    <2>1. /\ IsFiniteSet(Of(active)) /\ IsFiniteSet(Of(log)) /\ Of(active) \in SUBSET Of(log)
          /\ \A x \in Of(log) : Store!Running(x) /\ x.n \in Nat
      <3>1. Of(active) \in SUBSET ToSet(active) /\ Of(log) \in SUBSET ToSet(log)
        OBVIOUS
      <3>2. \A x : x.kind = kind => Store!Running(x)
        BY DEF Store!Running
      <3>3. Of(active) \in SUBSET Of(log)
        BY <3>2 DEF StayInv
      <3> QED
        BY <1>2, <1>3, <3>1, <3>2, <3>3, FS_Subset
    <2>2. \A s : \A x \in Of(s) : Store!Later(s, x) = {y \in Of(s) : y.n > x.n}
      BY DEF Store!Later, Store!ToSet, ToSet
    <2>3. \A s : \A x : x \in Store!Latest(s, kind, t, Kept(kind)) <=> x \in Of(s) /\ Few(s, x)
      <3>1. \A s : \A x : x \in Store!Latest(s, kind, t, Kept(kind))
                 <=> x \in Of(s) /\ Cardinality(Store!Later(s, x)) < Kept(kind)
        BY SameCardinality, Zenon DEF Store!Latest, Store!ToSet, ToSet
      <3> HIDE DEF Of
      <3> QED
        BY <2>2, <3>1
    <2>4. \A x \in Of(log) : Few(log, x) => x \in Of(active)
      <3>1. \A x \in Of(log) : x \in ToSet(log) /\ x.kind = kind /\ x.task = t
        OBVIOUS
      <3>2. \A x \in Of(log) : Few(log, x) => Cardinality(Store!Later(log, x)) < Kept(x.kind)
        BY <2>2, <3>1
      <3>3. \A x \in Of(log) : Few(log, x) => x \in ToSet(active)
        BY <2>1, <3>1, <3>2 DEF StayInv
      <3> QED
        BY <3>1, <3>3
    <2>5. ASSUME NEW x \in Of(active), Few(active, x) PROVE Few(log, x)
      <3> SUFFICES ASSUME ~Few(log, x) PROVE FALSE
        OBVIOUS
      <3>1. \A y, z \in Of(log) : y.n = z.n => y = z
        BY DEF StayInv
      <3>2. x \in Of(log) /\ \A y \in Of(log) : y.n \in Nat
        BY <2>1, <2>5
      <3>3. \A y \in Of(log) : Cardinality({z \in Of(log) : z.n > y.n}) < Kept(kind) => y \in Of(active)
        BY <2>4
      <3>4. ~(Cardinality({z \in Of(log) : z.n > x.n}) < Kept(kind))
        OBVIOUS
      <3>5. Kept(kind) \in Nat
        BY <1>1
      <3> HIDE DEF Of
      <3>6. /\ IsFiniteSet(Of(active)) /\ IsFiniteSet(Of(log))
            /\ \A y \in Of(log) : y.n \in Nat
            /\ x \in Of(log)
        BY <2>1, <3>2
      <3> HIDE DEF Few
      <3>7. ~(Cardinality({z \in Of(active) : z.n > x.n}) < Kept(kind))
        BY ONLY <3>1, <3>3, <3>4, <3>5, <3>6, LatestOnes
      <3> QED
        BY <2>5, <3>7 DEF Few
    <2>6. ASSUME NEW x \in Of(log), Few(log, x) PROVE Few(active, x)
      <3> DEFINE a == {y \in Of(active) : y.n > x.n}
                 b == {y \in Of(log) : y.n > x.n}
      <3>1. a \in SUBSET b /\ b \in SUBSET Of(log)
        BY <2>1
      <3>2. Cardinality(b) < Kept(kind)
        BY <2>6
      <3> HIDE DEF a, b, Of
      <3>3. IsFiniteSet(b) /\ IsFiniteSet(a) /\ Cardinality(a) <= Cardinality(b)
        BY <2>1, <3>1, FS_Subset
      <3>4. Cardinality(a) \in Nat /\ Cardinality(b) \in Nat
        BY <3>3, FS_CardinalityType
      <3>5. Cardinality(a) < Kept(kind)
        <4>1. Kept(kind) \in Nat
          BY <1>1
        <4> QED
          BY ONLY <3>2, <3>3, <3>4, <4>1, AtMostLess
      <3> QED
        BY <3>5 DEF a
    <2> HIDE DEF Few, Of
    <2>7. \A x : x \in Store!Latest(active, kind, t, Kept(kind))
                   <=> x \in Store!Latest(log, kind, t, Kept(kind))
      BY <2>1, <2>3, <2>4, <2>5, <2>6
    <2> QED
      <3>1. Store!Latest(active, kind, t, Kept(kind)) \subseteq Store!Latest(log, kind, t, Kept(kind))
        BY <2>7
      <3>2. Store!Latest(log, kind, t, Kept(kind)) \subseteq Store!Latest(active, kind, t, Kept(kind))
        BY <2>7
      <3> QED
        BY <3>1, <3>2
  <1>5. Kept("heartbeat") = 1 /\ Kept("open") = Recent
    BY DEF Kept
  <1>6. ASSUME NEW t \in Task
        PROVE  /\ Store!Latest(active, "heartbeat", t, 1) = Store!Latest(log, "heartbeat", t, 1)
               /\ Store!Latest(active, "open", t, Recent) = Store!Latest(log, "open", t, Recent)
    <2>1. "heartbeat" \in {"heartbeat", "open"} /\ "open" \in {"heartbeat", "open"}
      OBVIOUS
    <2>2. Store!Latest(active, "heartbeat", t, Kept("heartbeat")) = Store!Latest(log, "heartbeat", t, Kept("heartbeat"))
      BY <1>4, <2>1
    <2>3. Store!Latest(active, "open", t, Kept("open")) = Store!Latest(log, "open", t, Kept("open"))
      BY <1>4, <2>1
    <2> QED
      BY <1>5, <2>2, <2>3
  <1> QED
    BY <1>6 DEF StayInv

\* An item that comes is the latest of its kind and Task, and takes no other's place.
LEMMA PushStays ==
    ASSUME LibraryAssumption, MemoryInv, StayInv, NEW e \in Events[strategy], Store!Push(e)
    PROVE  StayInv'
  <1> DEFINE i == Store!Item(used + 1, e)
  <1>1. /\ active' = Append(active, i) /\ log' = Append(log, i) /\ used' = used + 1
        /\ UNCHANGED strategy
    BY DEF Store!Push
  <1>2. i.n = used + 1 /\ used \in Nat
    BY DEF Store!Item, MemoryInv
  <1>3. active \in Seq(Entry) /\ log \in Seq(Pushed)
    BY DEF MemoryInv
  <1>4. i \in Entry /\ i \in Pushed
    <2>1. e \in [kind : {"heartbeat", "open", "closed", "other"}, task : Task, size : Nat]
      BY DEF MemoryInv, Store!Strategy, LibraryAssumption
    <2>2. e.size \in Nat /\ e.task \in Task /\ e.kind \in Store!Kind
      BY <2>1, Zenon DEF Store!Kind
    <2>5. used + 1 \in Nat
      BY <1>2, OneAfter, Zenon
    <2>3. used + 1 \in Nat /\ {used + 1} \in SUBSET Nat
      BY ONLY <2>5
    <2>4. i = [n |-> used + 1, kind |-> e.kind, task |-> e.task, size |-> e.size,
               covers |-> {used + 1}]
      BY DEF Store!Item
    <2> HIDE DEF i
    <2> QED
      BY <2>2, <2>3, <2>4 DEF Pushed, Entry
  <1> HIDE DEF i
  <1>5. /\ \A x : x \in ToSet(log)' <=> x \in ToSet(log) \/ x = i
        /\ \A x : x \in ToSet(active)' <=> x \in ToSet(active) \/ x = i
    <2> HIDE DEF Entry, Pushed
    <2>1. \A x : x \in ToSet(Append(active, i)) <=> x \in ToSet(active) \/ x = i
      BY <1>3, <1>4, Appended
    <2>2. \A x : x \in ToSet(Append(log, i)) <=> x \in ToSet(log) \/ x = i
      BY <1>3, <1>4, Appended
    <2>3. ToSet(active)' = ToSet(Append(active, i)) /\ ToSet(log)' = ToSet(Append(log, i))
      BY <1>1 DEF ToSet
    <2> QED
      BY <2>1, <2>2, <2>3
  <1>6. \A x \in ToSet(log) : x.n \in Nat /\ x.n <= used
    <2>1. \A x \in Pushed : x.n \in Nat
      BY DEF Pushed
    <2> HIDE DEF Pushed
    <2> QED
      BY <1>3, <2>1, Members DEF StayInv
  <1>7. \A x \in ToSet(log)' : x.n <= used'
    <2>1. used' = used + 1
      BY <1>1
    <2>2. \A m \in Nat : m <= used => m <= used + 1
      BY <1>2, OneAfter, Zenon
    <2>3. i.n <= used + 1
      BY <1>2
    <2> QED
      BY <1>5, <1>6, <2>1, <2>2, <2>3
  <1>8. \A x, y \in ToSet(log)' : x.n = y.n => x = y
    <2>1. \A x \in ToSet(log) : x.n # i.n
      <3>1. \A m \in Nat : m <= used => m # used + 1
        BY <1>2, OneAfter, Zenon
      <3>2. i.n = used + 1
        BY <1>2
      <3> QED
        BY <1>6, <3>1, <3>2, Zenon
    <2> QED
      BY <1>5, <2>1 DEF StayInv
  <1>9. ASSUME strategy = "orchestrator"
        PROVE  /\ \A x \in ToSet(active)' : Store!Running(x) => x \in ToSet(log)'
               /\ \A j, k \in DOMAIN active' :
                     j < k /\ Store!Running(active'[j]) /\ Store!Running(active'[k])
                        => active'[j].n < active'[k].n
               /\ \A x \in ToSet(log)' :
                     Store!Running(x) /\ Cardinality(Store!Later(log, x)') < Kept(x.kind)
                        => x \in ToSet(active)'
    <2>1. \A x \in ToSet(active)' : Store!Running(x) => x \in ToSet(log)'
      BY <1>5, <1>9 DEF StayInv
    <2>2. \A j, k \in DOMAIN active' :
             j < k /\ Store!Running(active'[j]) /\ Store!Running(active'[k])
                => active'[j].n < active'[k].n
      <3>1. /\ Len(active) \in Nat /\ DOMAIN active = 1..Len(active)
            /\ DOMAIN active' = 1..(Len(active) + 1)
            /\ \A k \in 1..Len(active) : active'[k] = active[k]
            /\ active'[Len(active) + 1] = i
        <4> HIDE DEF Entry
        <4>1. active \in Seq(Entry) /\ i \in Entry /\ active' = Append(active, i)
          BY <1>1, <1>3, <1>4
        <4> QED
          BY ONLY <4>1
      <3> SUFFICES ASSUME NEW j \in DOMAIN active', NEW k \in DOMAIN active', j < k,
                          Store!Running(active'[j]), Store!Running(active'[k])
                   PROVE  active'[j].n < active'[k].n
        OBVIOUS
      <3>0. \A n \in Nat : \A a, b \in 1..(n + 1) : a < b => a \in 1..n /\ (b \in 1..n \/ b = n + 1)
        OBVIOUS
      <3>2. j \in 1..Len(active) /\ (k \in 1..Len(active) \/ k = Len(active) + 1)
        BY <3>0, <3>1
      <3>3. CASE k \in 1..Len(active)
        BY <1>9, <3>1, <3>2, <3>3 DEF StayInv
      <3>4. CASE k = Len(active) + 1
        <4>1. active[j] \in ToSet(log)
          <5>1. active[j] \in ToSet(active) /\ Store!Running(active[j])
            BY <3>1, <3>2 DEF ToSet
          <5> QED
            BY <1>9, <5>1 DEF StayInv
        <4>2. active[j].n \in Nat /\ active[j].n <= used
          BY <1>6, <4>1
        <4>3. active'[k] = i /\ active'[j] = active[j]
          BY <3>1, <3>2, <3>4
        <4> QED
          <5>1. \A m \in Nat : m <= used => m < used + 1
            BY <1>2
          <5>2. active[j].n < used + 1
            BY <4>2, <5>1
          <5> QED
            BY <1>2, <4>3, <5>2
      <3> QED
        BY <3>2, <3>3, <3>4
    <2>3. ASSUME NEW x \in ToSet(log)', Store!Running(x),
                 Cardinality(Store!Later(log, x)') < Kept(x.kind)
          PROVE  x \in ToSet(active)'
      <3>1. CASE x = i
        BY <1>5, <3>1
      <3>2. CASE x \in ToSet(log)
        <4> DEFINE was == Store!Later(log, x)
                   is  == Store!Later(log, x)'
        <4>1. was \in SUBSET is /\ is \in SUBSET (ToSet(log)')
          BY <1>5 DEF Store!Later, Store!ToSet, ToSet
        <4>2. IsFiniteSet(ToSet(log)')
          <5>1. log' \in Seq(Pushed)
            <6> HIDE DEF Pushed
            <6> QED
              BY <1>1, <1>3, <1>4
          <5>2. IsFiniteSet(ToSet(log'))
            BY <5>1, FiniteMembers
          <5>3. ToSet(log') = ToSet(log)'
            BY DEF ToSet
          <5> QED
            BY <5>2, <5>3
        <4>3. Cardinality(is) < Kept(x.kind)
          BY <2>3
        <4> HIDE DEF was, is
        <4>4. /\ IsFiniteSet(was) /\ IsFiniteSet(is)
              /\ Cardinality(was) <= Cardinality(is)
          BY <4>1, <4>2, FS_Subset
        <4>5. Cardinality(was) \in Nat /\ Cardinality(is) \in Nat
          BY <4>4, FS_CardinalityType
        <4>6. Kept(x.kind) \in Nat
          BY DEF LibraryAssumption, Kept
        <4>7. \A l, m, n \in Nat : l <= m /\ m < n => l < n
          OBVIOUS
        <4>8. Cardinality(was) < Kept(x.kind)
          BY <4>3, <4>4, <4>5, <4>6, <4>7
        <4>9. x \in ToSet(active)
          BY <1>9, <2>3, <3>2, <4>8 DEF StayInv, was
        <4> QED
          BY <1>5, <4>9
      <3> QED
        BY <1>5, <2>3, <3>1, <3>2
    <2> QED
      BY <2>1, <2>2, <2>3
  <1> QED
    BY <1>1, <1>7, <1>8, <1>9, Zenon DEF StayInv

\* Where neither the context nor the history changes, so it stays.
LEMMA StaysAsItIs ==
    ASSUME MemoryInv, StayInv, UNCHANGED <<strategy, active, log>>, used' \in Nat, used <= used'
    PROVE  StayInv'
  <1>1. strategy' = strategy /\ active' = active /\ log' = log
    OBVIOUS
  <1>2. /\ ToSet(active)' = ToSet(active) /\ ToSet(log)' = ToSet(log)
        /\ \A x : Store!Later(log, x)' = Store!Later(log, x)
    BY <1>1 DEF ToSet, Store!Later, Store!ToSet
  <1>3. \A x \in ToSet(log)' : x.n <= used'
    <2>1. \A x \in Pushed : x.n \in Nat
      BY DEF Pushed
    <2>2. log \in Seq(Pushed) /\ used \in Nat
      BY DEF MemoryInv
    <2> HIDE DEF Pushed
    <2>3. \A x \in ToSet(log) : x.n \in Nat /\ x.n <= used
      BY <2>1, <2>2, Members DEF StayInv
    <2> QED
      BY <1>2, <2>2, <2>3
  <1> QED
    BY <1>1, <1>2, <1>3, Zenon DEF StayInv

\* The threshold strategy is another.
LEMMA ThresholdStays ==
    ASSUME MemoryInv, StayInv, Store!CompactThreshold
    PROVE  StayInv'
  <1>1. strategy = "threshold" /\ UNCHANGED <<strategy, log, used>>
    BY DEF Store!CompactThreshold
  <1>2. ToSet(log)' = ToSet(log)
    BY <1>1 DEF ToSet
  <1>3. strategy' # "orchestrator"
    BY <1>1
  <1> QED
    BY <1>1, <1>2, <1>3, Zenon DEF StayInv

\* What running Tasks said last is not archived.
LEMMA LatestIsNotArchived ==
    ASSUME LibraryAssumption, MemoryInv, StayInv, strategy = "orchestrator",
           NEW k \in DOMAIN active, Store!Running(active[k]),
           Cardinality(Store!Later(log, active[k])) < Kept(active[k].kind)
    PROVE  k \notin Store!Archived
  <1> DEFINE x == active[k]
  <1>1. active \in Seq(Entry) /\ log \in Seq(Pushed) /\ DOMAIN active = 1..Len(active)
    BY DEF MemoryInv
  <1>2. IsFiniteSet(Store!Later(log, x))
    <2>1. Store!Later(log, x) \in SUBSET ToSet(log)
      BY DEF Store!Later, Store!ToSet, ToSet
    <2>2. IsFiniteSet(ToSet(log))
      BY <1>1, FiniteMembers
    <2> QED
      BY <2>1, <2>2, FS_Subset
  <1>3. ASSUME NEW j \in Store!After(k, Store!Indices(x.kind, x.task))
        PROVE  active[j] \in Store!Later(log, x) /\ j \in DOMAIN active
    <2>1. j \in DOMAIN active /\ active[j].kind = x.kind /\ active[j].task = x.task /\ k < j
      BY <1>1 DEF Store!After, Store!Indices
    <2>2. Store!Running(active[j])
      BY <2>1 DEF Store!Running
    <2>3. active[j] \in ToSet(active)
      BY <2>1 DEF ToSet
    <2>4. active[j] \in ToSet(log)
      BY <2>2, <2>3 DEF StayInv
    <2>5. active[k].n < active[j].n
      BY <2>1, <2>2 DEF StayInv
    <2>6. active[j].n > active[k].n
      BY <2>5
    <2> QED
      BY <2>1, <2>4, <2>6 DEF Store!Later, Store!ToSet, ToSet
  <1>4. k \notin Store!Closed
    BY DEF Store!Closed, Store!Indices, Store!Running
  <1>5. k \notin Store!OldHeartbeats
    <2> SUFFICES ASSUME k \in Store!OldHeartbeats PROVE FALSE
      OBVIOUS
    <2>1. x.kind = "heartbeat" /\ Store!After(k, Store!Indices(x.kind, x.task)) # {}
      BY DEF Store!OldHeartbeats, Store!Indices
    <2>2. Store!Later(log, x) # {}
      BY <1>3, <2>1
    <2>3. Cardinality(Store!Later(log, x)) \in Nat /\ Cardinality(Store!Later(log, x)) # 0
      BY <1>2, <2>2, FS_CardinalityType, FS_EmptySet
    <2>4. Kept(x.kind) = 1
      BY <2>1, Zenon DEF Kept
    <2>5. Cardinality(Store!Later(log, x)) < 1
      BY <2>4, Zenon
    <2> QED
      BY ONLY <2>3, <2>5
  <1>6. k \notin Store!OldHighlights
    <2> SUFFICES ASSUME k \in Store!OldHighlights PROVE FALSE
      OBVIOUS
    <2> DEFINE A == Store!After(k, Store!Indices(x.kind, x.task))
               L == Store!Later(log, x)
               f == [j \in A |-> active[j]]
    <2>1. x.kind = "open" /\ Cardinality(A) >= Recent
      BY SameCardinality DEF Store!OldHighlights, Store!Indices
    <2>2. f \in Injection(A, L)
      <3>1. f \in [A -> L]
        BY <1>3
      <3>2. ASSUME NEW i \in A, NEW j \in A, f[i] = f[j] PROVE i = j
        <4>1. /\ i \in 1..Len(active) /\ j \in 1..Len(active)
              /\ Store!Running(active[i]) /\ Store!Running(active[j])
              /\ active[i].n \in Nat /\ active[i] = active[j]
          <5>1. active[i] \in L /\ active[j] \in L /\ i \in DOMAIN active /\ j \in DOMAIN active
            BY <1>3
          <5>2. active[i] \in ToSet(log) /\ active[i].kind = x.kind /\ active[j].kind = x.kind
            BY <5>1 DEF Store!Later, Store!ToSet, ToSet
          <5>3. active[i].n \in Nat
            <6>1. \A y \in Pushed : y.n \in Nat
              BY DEF Pushed
            <6> HIDE DEF Pushed
            <6> QED
              BY <1>1, <5>2, <6>1, Members
          <5> QED
            BY <1>1, <3>2, <5>1, <5>2, <5>3 DEF Store!Running
        <4>2. ~(i < j) /\ ~(j < i)
          <5>1. \A a, b \in DOMAIN active :
                  a < b /\ Store!Running(active[a]) /\ Store!Running(active[b])
                     => active[a].n < active[b].n
            BY DEF StayInv
          <5>2. /\ i < j => active[i].n < active[j].n
                /\ j < i => active[j].n < active[i].n
            BY <1>1, <4>1, <5>1
          <5>3. \A m \in Nat : ~(m < m)
            OBVIOUS
          <5> QED
            BY <4>1, <5>2, <5>3
        <4> QED
          BY <4>1, <4>2
      <3> HIDE DEF f, A, L
      <3> QED
        BY <3>1, <3>2 DEF Injection, IsInjective
    <2>3. Kept(x.kind) = Recent /\ Recent \in Nat /\ Cardinality(L) < Recent
      BY <2>1 DEF Kept, LibraryAssumption
    <2>4. IsFiniteSet(L)
      BY <1>2
    <2> HIDE DEF A, L, f
    <2>5. IsFiniteSet(A) /\ Cardinality(A) <= Cardinality(L)
      BY <2>2, <2>4, FS_Injection
    <2>6. Cardinality(A) \in Nat /\ Cardinality(L) \in Nat
      BY <2>4, <2>5, FS_CardinalityType
    <2> QED
      BY ONLY <2>1, <2>3, <2>5, <2>6
  <1> QED
    BY <1>4, <1>5, <1>6 DEF Store!Archived

\* Nor is it dropped, and the order is kept.
LEMMA OrchestratorStays ==
    ASSUME LibraryAssumption, MemoryInv, StayInv, Store!CompactOrchestrator
    PROVE  StayInv'
  <1> DEFINE stay == DOMAIN active \ Store!Archived
             kept0 == Store!Pick(stay)
  <1>1. /\ strategy = "orchestrator" /\ UNCHANGED <<strategy, log, used>>
        /\ \/ \E last \in Store!Summaries : active' = kept0 \o last
           \/ UNCHANGED active
    BY DEF Store!CompactOrchestrator
  <1>2. CASE UNCHANGED active
    <2>1. used' \in Nat /\ used <= used'
      <3>1. used \in Nat
        BY DEF MemoryInv
      <3>2. used' = used
        BY <1>1
      <3> QED
        BY <3>1, <3>2
    <2> QED
      BY <1>1, <1>2, <2>1, StaysAsItIs
  <1>3. ASSUME NEW last \in Store!Summaries, active' = kept0 \o last
        PROVE  StayInv'
    <2>1. active \in Seq(Entry) /\ log \in Seq(Pushed)
      BY DEF MemoryInv
    <2>2. last \in Seq(Entry)
      BY <2>1, Summarised
    <2>3. \A j \in DOMAIN last : ~Store!Running(last[j])
      <3>1. PICK order : last = [j \in DOMAIN order |-> Store!Summary(order[j])]
        BY DEF Store!Summaries
      <3>2. \A t : Store!Summary(t).kind = "closed"
        BY DEF Store!Summary
      <3>3. \A j \in DOMAIN last : last[j].kind = "closed"
        BY <3>1, <3>2
      <3> QED
        BY <3>3 DEF Store!Running
    <2>4. /\ kept0 \in Seq(Entry)
          /\ \A k \in stay : active[k] \in ToSet(kept0)
      BY <2>1, Picked
    <2>5. PICK at \in [DOMAIN kept0 -> stay] :
            /\ \A j \in DOMAIN kept0 : kept0[j] = active[at[j]]
            /\ \A i, j \in DOMAIN kept0 : i < j => at[i] < at[j]
      BY <2>1, PickedInOrder
    <2>6. \A j \in DOMAIN kept0 : at[j] \in DOMAIN active
      BY <2>5
    <2> HIDE DEF kept0, Entry
    <2>7. /\ DOMAIN kept0 = 1..Len(kept0) /\ Len(kept0) \in Nat
          /\ \A k \in DOMAIN active' :
                \/ k \in DOMAIN kept0 /\ active'[k] = kept0[k]
                \/ k \notin DOMAIN kept0 /\ \E j \in DOMAIN last : active'[k] = last[j]
      <3>1. /\ DOMAIN kept0 = 1..Len(kept0) /\ Len(kept0) \in Nat
            /\ \A k \in DOMAIN (kept0 \o last) :
                  \/ k \in DOMAIN kept0 /\ (kept0 \o last)[k] = kept0[k]
                  \/ k \notin DOMAIN kept0 /\ \E j \in DOMAIN last : (kept0 \o last)[k] = last[j]
        BY <2>2, <2>4, JoinedAt
      <3> QED
        BY <1>3, <3>1, Zenon
    <2>8. active' \in Seq(Entry) /\ DOMAIN active' = 1..Len(active') /\ Len(active') \in Nat
      BY <1>3, <2>2, <2>4
    <2>9. \A k \in DOMAIN active' : Store!Running(active'[k]) =>
             k \in DOMAIN kept0 /\ active'[k] = active[at[k]] /\ at[k] \in DOMAIN active
      BY <2>3, <2>5, <2>6, <2>7
    <2>10. ToSet(log)' = ToSet(log) /\ \A x : Store!Later(log, x)' = Store!Later(log, x)
      BY <1>1 DEF ToSet, Store!Later, Store!ToSet
    <2>11. \A x \in ToSet(active)' : Store!Running(x) => x \in ToSet(log)'
      <3>1. ASSUME NEW k \in DOMAIN active', Store!Running(active'[k])
            PROVE  active'[k] \in ToSet(log)
        <4>1. active'[k] = active[at[k]] /\ at[k] \in DOMAIN active
          BY <2>9, <3>1
        <4>2. active'[k] \in ToSet(active)
          BY <4>1 DEF ToSet
        <4> QED
          BY <1>1, <3>1, <4>2 DEF StayInv
      <3> QED
        BY <2>10, <3>1 DEF ToSet
    <2>12. ASSUME NEW j \in DOMAIN active', NEW k \in DOMAIN active', j < k,
                  Store!Running(active'[j]), Store!Running(active'[k])
           PROVE  active'[j].n < active'[k].n
      <3>1. /\ j \in DOMAIN kept0 /\ active'[j] = active[at[j]] /\ at[j] \in DOMAIN active
            /\ k \in DOMAIN kept0 /\ active'[k] = active[at[k]] /\ at[k] \in DOMAIN active
        BY <2>9, <2>12
      <3>2. at[j] < at[k]
        BY <2>5, <2>12, <3>1
      <3>3. Store!Running(active[at[j]]) /\ Store!Running(active[at[k]])
        BY <2>12, <3>1
      <3>4. active[at[j]].n < active[at[k]].n
        BY <1>1, <3>1, <3>2, <3>3 DEF StayInv
      <3> QED
        BY <3>1, <3>4
    <2>13. ASSUME NEW x \in ToSet(log), Store!Running(x),
                  Cardinality(Store!Later(log, x)) < Kept(x.kind)
           PROVE  x \in ToSet(active)'
      <3>1. x \in ToSet(active)
        BY <1>1, <2>13 DEF StayInv
      <3>2. PICK k \in DOMAIN active : x = active[k]
        BY <3>1 DEF ToSet
      <3>3. k \in stay
        <4>1. k \notin Store!Archived
          BY <1>1, <2>13, <3>2, LatestIsNotArchived
        <4> QED
          BY <4>1
      <3>4. x \in ToSet(kept0)
        BY <2>4, <3>2, <3>3
      <3>5. x \in ToSet(kept0 \o last)
        BY <2>2, <2>4, <3>4, Joined
      <3>6. ToSet(active)' = ToSet(kept0 \o last)
        BY <1>3 DEF ToSet
      <3> QED
        BY <3>5, <3>6
    <2>14. /\ \A x \in ToSet(log)' : x.n <= used'
           /\ \A x, y \in ToSet(log)' : x.n = y.n => x = y
      BY <1>1, <2>10 DEF StayInv
    <2>15. \A x \in ToSet(log)' :
              Store!Running(x) /\ Cardinality(Store!Later(log, x)') < Kept(x.kind)
                 => x \in ToSet(active)'
      BY <2>10, <2>13
    <2> QED
      BY <1>1, <2>11, <2>12, <2>14, <2>15, Zenon DEF StayInv
  <1> QED
    BY <1>1, <1>2, <1>3

\* The invariant is inductive.
LEMMA StayInductive ==
    /\ Init => StayInv
    /\ LibraryAssumption /\ MemoryInv /\ StayInv /\ [Next]_vars => StayInv'
  <1>1. Init => StayInv
    <2> SUFFICES ASSUME Init PROVE StayInv
      OBVIOUS
    <2>1. active = <<>> /\ log = <<>>
      BY DEF Init, Store!Init
    <2>2. ToSet(active) = {} /\ ToSet(log) = {} /\ DOMAIN active = {}
      BY <2>1 DEF ToSet
    <2> QED
      BY <2>2 DEF StayInv
  <1>2. ASSUME LibraryAssumption, MemoryInv, StayInv, [Next]_vars PROVE StayInv'
    <2>1. CASE part = "memory" /\ Store!Next
      <3>1. ASSUME NEW e \in Events[strategy], Store!Push(e) PROVE StayInv'
        BY <1>2, <3>1, PushStays
      <3>2. ASSUME NEW e \in Events[strategy], Store!Memorialize(e) PROVE StayInv'
        <4>1. used' = used + 3 /\ UNCHANGED <<strategy, active, log>> /\ used \in Nat
          BY <1>2, <3>2 DEF Store!Memorialize, MemoryInv
        <4>2. used' \in Nat /\ used <= used'
          BY <4>1
        <4> QED
          BY <1>2, <4>1, <4>2, StaysAsItIs
      <3>3. CASE Store!CompactThreshold
        BY <1>2, <3>3, ThresholdStays
      <3>4. CASE Store!CompactOrchestrator
        BY <1>2, <3>4, OrchestratorStays
      <3> QED
        BY <2>1, <3>1, <3>2, <3>3, <3>4 DEF Store!Next
    <2>2. CASE UNCHANGED memoryVars
      <3>1. UNCHANGED <<strategy, active, log, used>> /\ used \in Nat
        BY <1>2, <2>2 DEF memoryVars, MemoryInv
      <3>2. used' \in Nat /\ used <= used'
        BY <3>1
      <3> QED
        BY <1>2, <3>1, <3>2, StaysAsItIs
    <2> QED
      BY <1>2, <2>1, <2>2 DEF Next, Others, vars
  <1> QED
    BY <1>1, <1>2

\* However often the memory is compacted by the Orchestrator's strategy, and
\* wherever an insert fails: a highlight drained when its Task had completed is told
\* of by a completed highlight of that Task in the context, a summary of summaries
\* at any depth; one drained while the Task ran is in the context itself, or it is
\* found in the archive and at least Recent later ones of that Task have displaced
\* it, summary or not (drain_highlights, OrchestratorCompaction::compact).
THEOREM HighlightsAreTold == Spec => []HighlightsTold
  <1> DEFINE Inv == MemoryInv /\ StayInv
  <1>1. ASSUME Inv PROVE HighlightsTold
    <2> SUFFICES ASSUME strategy = "orchestrator", NEW x \in Store!ToSet(log)
                 PROVE  /\ x.kind = "closed" => Store!Told(x)
                        /\ x.kind = "open" => x \in Store!ToSet(active) \/ Store!Displaced(x)
      BY DEF HighlightsTold, Store!HighlightsTold
    <2>1. x.kind = "closed" => Store!Told(x)
      BY <1>1 DEF MemoryInv, CompletedAreTold, Store!Told
    <2>2. ASSUME x.kind = "open", x \notin Store!ToSet(active) PROVE Store!Displaced(x)
      <3>1. Store!Found(x)
        BY <1>1, <2>2 DEF MemoryInv, NothingForgotten, Store!NothingForgotten
      <3>2. x \in ToSet(log) /\ x \notin ToSet(active) /\ Store!Running(x)
        BY <2>2 DEF ToSet, Store!ToSet, Store!Running
      <3>3. ~(Cardinality(Store!Later(log, x)) < Kept(x.kind)) /\ Kept(x.kind) = Recent
        BY <1>1, <2>2, <3>2 DEF StayInv, Kept
      <3>4. Cardinality(Store!Later(log, x)) \in Nat /\ Recent \in Nat
        <4>1. IsFiniteSet(ToSet(log))
          BY <1>1, FiniteMembers DEF MemoryInv
        <4>2. Store!Later(log, x) \in SUBSET ToSet(log)
          BY DEF Store!Later, Store!ToSet, ToSet
        <4>3. IsFiniteSet(Store!Later(log, x))
          BY <4>1, <4>2, FS_Subset
        <4> QED
          BY <4>3, LibraryAssumption, FS_CardinalityType DEF LibraryAssumption
      <3>5. \A m, n \in Nat : ~(m < n) => m >= n
        OBVIOUS
      <3>6. Cardinality(Store!Later(log, x)) >= Recent
        BY <3>3, <3>4, <3>5
      <3> QED
        BY <3>1, <3>6, SameCardinality DEF Store!Displaced
    <2> QED
      BY <2>1, <2>2
  <1>2. Init => Inv
    BY LibraryAssumption, MemoryInductive, StayInductive
  <1>3. Inv /\ [Next]_vars => Inv'
    BY LibraryAssumption, MemoryInductive, StayInductive
  <1> QED
    BY <1>1, <1>2, <1>3, PTL DEF Spec

\* However often the memory is compacted by the Orchestrator's strategy, and
\* wherever an insert fails, the latest heartbeat of every Task and the latest
\* Recent highlights of every running one are in the context, in the order in
\* which they came (OrchestratorCompaction::compact).
THEOREM LatestAreKept == Spec => []LatestStay
  <1> DEFINE Inv == MemoryInv /\ StayInv
  <1>1. Inv => LatestStay
    BY LibraryAssumption, StayInvStays DEF MemoryInv
  <1>2. Init => Inv
    BY LibraryAssumption, MemoryInductive, StayInductive
  <1>3. Inv /\ [Next]_vars => Inv'
    BY LibraryAssumption, MemoryInductive, StayInductive
  <1> QED
    BY <1>1, <1>2, <1>3, PTL DEF Spec

-----------------------------------------------------------------------------
(* The session log *)

LEMMA SameCardinality0 ==
    /\ \A S : Journal!Cardinality(S) = Cardinality(S)
  BY DEF Journal!Cardinality, Journal!IsFiniteSet, Cardinality, IsFiniteSet

\* The pieces of a session's file.
HeadOf(n) == [entry |-> n, part |-> "head"]
TailOf(n) == [entry |-> n, part |-> "tail"]
Piece == [entry : Nat, part : {"head", "tail", "newline"}]
IsHead(piece) == piece.part = "head"

\* Entry n stands in the pieces, with the end of its line.
Stands(s, n) ==
    \E i \in 1..Len(s) : /\ i + 2 <= Len(s)
                         /\ s[i] = HeadOf(n) /\ s[i + 1] = TailOf(n) /\ s[i + 2] = Journal!EndOfLine

\* Entries come in their order, none after the last.
InOrder(s, last) ==
    /\ \A i \in 1..Len(s) : IsHead(s[i]) => s[i].entry \in 1..last
    /\ \A i, j \in 1..Len(s) : i < j /\ IsHead(s[i]) /\ IsHead(s[j]) => s[i].entry < s[j].entry

\* Nothing but whole entries.
Regular(s, last) ==
    /\ Len(s) = 3 * last
    /\ \A k \in 1..last : /\ s[3 * k - 2] = HeadOf(k) /\ s[3 * k - 1] = TailOf(k)
                          /\ s[3 * k] = Journal!EndOfLine

\* All that was written, in the file or not.
Written == file \o buffer

\* The inductive invariant of the session log.
JournalInv ==
    /\ file \in Seq(Piece) /\ buffer \in Seq(Piece)
    /\ count \in Nat /\ appended \in Nat /\ row \in Nat /\ kills \in Nat /\ count <= appended
    /\ InOrder(Written, appended)
    /\ flushed \in SUBSET (1..appended) /\ \A n \in flushed : Stands(file, n)
    /\ row <= Cardinality(flushed)
    /\ writing => /\ \A n \in (appended - count + 1)..appended : Stands(Written, n)
                  /\ buffer = <<>> => (appended - count + 1)..appended \subseteq flushed
    /\ ~writing => buffer = <<>> /\ count = 0
    /\ kills = 0 => Regular(Written, appended) /\ \A k \in Nat : Len(file) # 3 * k + 1

\* The pieces are told apart.
LEMMA Pieces ==
    /\ \A n \in Nat : HeadOf(n) \in Piece /\ TailOf(n) \in Piece
    /\ Journal!EndOfLine \in Piece
    /\ \A n : IsHead(HeadOf(n)) /\ ~IsHead(TailOf(n)) /\ HeadOf(n).entry = n
    /\ ~IsHead(Journal!EndOfLine)
    /\ \A n : HeadOf(n) # Journal!EndOfLine /\ TailOf(n) # Journal!EndOfLine
    /\ \A n : Journal!Text(n) = <<HeadOf(n), TailOf(n)>>
  BY DEF HeadOf, TailOf, Piece, IsHead, Journal!EndOfLine, Journal!Text

\* What stands in a file stands there however the file goes on.
LEMMA StillStands ==
    ASSUME NEW a \in Seq(Piece), NEW b \in Seq(Piece), NEW n, Stands(a, n)
    PROVE  Stands(a \o b, n)
  <1> HIDE DEF Piece
  <1>1. /\ Len(a) \in Nat /\ Len(b) \in Nat /\ Len(a \o b) = Len(a) + Len(b)
        /\ \A i \in 1..Len(a) : i \in 1..Len(a \o b) /\ (a \o b)[i] = a[i]
    BY Longer
  <1>2. PICK i \in 1..Len(a) : /\ i + 2 <= Len(a)
               /\ a[i] = HeadOf(n) /\ a[i + 1] = TailOf(n) /\ a[i + 2] = Journal!EndOfLine
    BY DEF Stands
  <1>3. i + 1 \in 1..Len(a) /\ i + 2 \in 1..Len(a) /\ i + 2 <= Len(a \o b)
    BY <1>1, <1>2
  <1> QED
    BY <1>1, <1>2, <1>3 DEF Stands

\* A part of the pieces is in order as the whole is.
LEMMA PartInOrder ==
    ASSUME NEW a \in Seq(Piece), NEW b \in Seq(Piece), NEW last, InOrder(a \o b, last)
    PROVE  InOrder(a, last)
  <1> HIDE DEF Piece
  <1>1. \A i \in 1..Len(a) : i \in 1..Len(a \o b) /\ (a \o b)[i] = a[i]
    BY Longer
  <1> QED
    BY <1>1 DEF InOrder

\* One entry more.
LEMMA OneMore ==
    ASSUME NEW a \in Seq(Piece), NEW last \in Nat, InOrder(a, last)
    PROVE  LET b == a \o <<HeadOf(last + 1), TailOf(last + 1), Journal!EndOfLine>>
           IN  /\ b \in Seq(Piece) /\ InOrder(b, last + 1) /\ Stands(b, last + 1)
               /\ Regular(a, last) => Regular(b, last + 1)
  <1> DEFINE n == last + 1
             e == <<HeadOf(n), TailOf(n), Journal!EndOfLine>>
             b == a \o e
  <1>1. n \in Nat /\ e \in Seq(Piece) /\ Len(e) = 3
        /\ e[1] = HeadOf(n) /\ e[2] = TailOf(n) /\ e[3] = Journal!EndOfLine
    <2>1. n \in Nat
      OBVIOUS
    <2> HIDE DEF n, Piece
    <2> QED
      BY <2>1, Pieces
  <1> HIDE DEF Piece, e
  <1>2. /\ b \in Seq(Piece) /\ Len(a) \in Nat /\ Len(b) = Len(a) + 3
        /\ \A i \in 1..Len(a) : i \in 1..Len(b) /\ b[i] = a[i]
        /\ b[Len(a) + 1] = HeadOf(n) /\ b[Len(a) + 2] = TailOf(n) /\ b[Len(a) + 3] = Journal!EndOfLine
    <2>1. 1 \in 1..Len(e) /\ 2 \in 1..Len(e) /\ 3 \in 1..Len(e)
      BY <1>1
    <2> HIDE DEF n
    <2>2. /\ a \o e \in Seq(Piece) /\ Len(a) \in Nat /\ Len(a \o e) = Len(a) + Len(e)
          /\ \A i \in 1..Len(a) : i \in 1..Len(a \o e) /\ (a \o e)[i] = a[i]
          /\ \A i \in 1..Len(e) : (a \o e)[Len(a) + i] = e[i]
      <3>1. a \in Seq(Piece) /\ e \in Seq(Piece)
        BY <1>1
      <3> QED
        BY ONLY <3>1, Longer
    <2> QED
      BY <1>1, <2>1, <2>2
  <1>3. \A i \in 1..Len(b) : i \in 1..Len(a) \/ i = Len(a) + 1 \/ i = Len(a) + 2 \/ i = Len(a) + 3
    BY <1>2
  <1> HIDE DEF b
  <1>4. \A i \in 1..Len(b) : IsHead(b[i]) => i \in 1..Len(a) \/ (i = Len(a) + 1 /\ b[i].entry = n)
    BY <1>2, <1>3, Pieces
  <1>5. InOrder(b, n)
    <2>1. \A i \in 1..Len(a) : IsHead(a[i]) => a[i].entry \in 1..last
      BY DEF InOrder
    <2>2. \A i \in 1..Len(b) : IsHead(b[i]) => b[i].entry \in 1..n
      BY <1>1, <1>2, <1>4, <2>1
    <2>3. ASSUME NEW i \in 1..Len(b), NEW j \in 1..Len(b), i < j, IsHead(b[i]), IsHead(b[j])
          PROVE  b[i].entry < b[j].entry
      <3>1. i \in 1..Len(a)
        <4>1. \A m \in Nat : \A k, l \in 1..(m + 3) : k < l /\ (l \in 1..m \/ l = m + 1) => k \in 1..m
          OBVIOUS
        <4> QED
          BY <1>2, <1>4, <2>3, <4>1
      <3>2. CASE j \in 1..Len(a)
        BY <1>2, <2>3, <3>1, <3>2 DEF InOrder
      <3>3. CASE b[j].entry = n
        <4>1. b[i].entry \in 1..last
          BY <1>2, <2>1, <2>3, <3>1
        <4> QED
          BY <3>3, <4>1
      <3> QED
        BY <1>4, <2>3, <3>2, <3>3
    <2> QED
      BY <2>2, <2>3 DEF InOrder
  <1>6. Stands(b, n)
    <2>1. Len(a) + 1 \in 1..Len(b) /\ (Len(a) + 1) + 1 = Len(a) + 2 /\ (Len(a) + 1) + 2 = Len(a) + 3
          /\ Len(a) + 3 <= Len(b)
      BY <1>2
    <2> QED
      BY <1>2, <2>1 DEF Stands
  <1>7. ASSUME Regular(a, last) PROVE Regular(b, n)
    <2>1. Len(a) = 3 * last /\ Len(b) = 3 * n
      BY <1>2, <1>7 DEF Regular
    <2>2. ASSUME NEW k \in 1..n
          PROVE  /\ b[3 * k - 2] = HeadOf(k) /\ b[3 * k - 1] = TailOf(k)
                 /\ b[3 * k] = Journal!EndOfLine
      <3>1. CASE k \in 1..last
        <4>1. 3 * k - 2 \in 1..Len(a) /\ 3 * k - 1 \in 1..Len(a) /\ 3 * k \in 1..Len(a)
          BY <2>1, <3>1
        <4> QED
          BY <1>2, <1>7, <3>1, <4>1 DEF Regular
      <3>2. CASE k = n
        <4>1. 3 * k - 2 = Len(a) + 1 /\ 3 * k - 1 = Len(a) + 2 /\ 3 * k = Len(a) + 3
          BY <2>1, <3>2
        <4> QED
          BY <1>2, <3>2, <4>1
      <3> QED
        BY <3>1, <3>2
    <2> QED
      BY <2>1, <2>2 DEF Regular
  <1> QED
    BY <1>2, <1>5, <1>6, <1>7 DEF b, e

\* The same of the pieces.
LEMMA ThreePieces ==
    \A n \in Nat : /\ Append(<<HeadOf(n), TailOf(n)>>, Journal!EndOfLine)
                       = <<HeadOf(n), TailOf(n), Journal!EndOfLine>>
                  /\ <<HeadOf(n), TailOf(n)>> \o <<Journal!EndOfLine>>
                       = <<HeadOf(n), TailOf(n), Journal!EndOfLine>>
  <1> TAKE n \in Nat
  <1>1. HeadOf(n) \in Piece /\ TailOf(n) \in Piece /\ Journal!EndOfLine \in Piece
    BY Pieces
  <1> QED
    BY ONLY <1>1, Three

\* An entry is handed over whole, wherever the buffer is driven out meanwhile.
LEMMA AppendEntryStep ==
    ASSUME JournalInv, Journal!AppendEntry
    PROVE  JournalInv'
  <1> DEFINE n == appended + 1
             e == <<HeadOf(n), TailOf(n), Journal!EndOfLine>>
             t == <<HeadOf(n), TailOf(n)>>
  <1>1. /\ writing /\ appended' = n /\ count' = count + 1
        /\ UNCHANGED <<writing, row, flushed, kills>>
        /\ \/ file' = file /\ buffer' = buffer \o e
           \/ file' = file \o buffer /\ buffer' = e
           \/ file' = file \o buffer \o t /\ buffer' = <<Journal!EndOfLine>>
    <2>1. /\ writing /\ appended' = n /\ count' = count + 1
          /\ UNCHANGED <<writing, row, flushed, kills>>
          /\ \/ file' = file /\ buffer' = buffer \o Append(Journal!Text(n), Journal!EndOfLine)
             \/ file' = file \o buffer /\ buffer' = Append(Journal!Text(n), Journal!EndOfLine)
             \/ file' = file \o buffer \o Journal!Text(n) /\ buffer' = <<Journal!EndOfLine>>
      BY Zenon DEF Journal!AppendEntry
    <2>2. Journal!Text(n) = t
      BY Pieces
    <2>3. Append(t, Journal!EndOfLine) = e
      <3>1. n \in Nat
        BY DEF JournalInv
      <3> HIDE DEF n
      <3> QED
        BY <3>1, ThreePieces
    <2> HIDE DEF e, t, n
    <2> QED
      BY <2>1, <2>2, <2>3
  <1>2. /\ file \in Seq(Piece) /\ buffer \in Seq(Piece) /\ appended \in Nat /\ count \in Nat
        /\ row \in Nat /\ kills \in Nat /\ count <= appended
        /\ InOrder(Written, appended)
        /\ flushed \in SUBSET (1..appended) /\ \A i \in flushed : Stands(file, i)
        /\ row <= Cardinality(flushed)
        /\ \A i \in (appended - count + 1)..appended : Stands(Written, i)
        /\ kills = 0 => Regular(Written, appended) /\ \A k \in Nat : Len(file) # 3 * k + 1
    BY <1>1 DEF JournalInv
  <1>3. /\ e \in Seq(Piece) /\ t \in Seq(Piece) /\ <<Journal!EndOfLine>> \in Seq(Piece)
        /\ t \o <<Journal!EndOfLine>> = e /\ Len(t) = 2 /\ e # <<>> /\ <<Journal!EndOfLine>> # <<>>
    <2>1. n \in Nat
      BY <1>2
    <2> HIDE DEF n, Piece
    <2>2. HeadOf(n) \in Piece /\ TailOf(n) \in Piece /\ Journal!EndOfLine \in Piece
      BY <2>1, Pieces
    <2>3. t \o <<Journal!EndOfLine>> = e
      BY <2>1, ThreePieces
    <2>4. /\ e \in Seq(Piece) /\ t \in Seq(Piece) /\ <<Journal!EndOfLine>> \in Seq(Piece)
          /\ Len(t) = 2 /\ e # <<>> /\ <<Journal!EndOfLine>> # <<>>
      BY <2>2
    <2> QED
      BY <2>3, <2>4
  <1> HIDE DEF e, t, Piece
  <1>4. file \o buffer \in Seq(Piece) /\ Len(file \o buffer) = Len(file) + Len(buffer)
        /\ Len(file) \in Nat /\ Len(buffer) \in Nat
    BY <1>2, Longer
  <1>5. Written' = Written \o e
    <2>1. CASE file' = file /\ buffer' = buffer \o e
      <3>1. (file \o buffer) \o e = file \o (buffer \o e)
        <4>1. file \in Seq(Piece) /\ buffer \in Seq(Piece) /\ e \in Seq(Piece)
          BY <1>2, <1>3
        <4> QED
          BY ONLY <4>1, ConcatAssociative
      <3> QED
        BY <2>1, <3>1 DEF Written
    <2>2. CASE file' = file \o buffer /\ buffer' = e
      BY <2>2 DEF Written
    <2>3. CASE file' = file \o buffer \o t /\ buffer' = <<Journal!EndOfLine>>
      <3>1. ((file \o buffer) \o t) \o <<Journal!EndOfLine>>
               = (file \o buffer) \o (t \o <<Journal!EndOfLine>>)
        <4>1. file \o buffer \in Seq(Piece) /\ t \in Seq(Piece) /\ <<Journal!EndOfLine>> \in Seq(Piece)
          BY <1>3, <1>4
        <4> QED
          BY ONLY <4>1, ConcatAssociative
      <3> QED
        BY <1>3, <2>3, <3>1 DEF Written
    <2> QED
      BY <1>1, <2>1, <2>2, <2>3
  <1>6. Written \in Seq(Piece)
    BY <1>4 DEF Written
  <1>7. /\ InOrder(Written', n) /\ Stands(Written', n)
        /\ Regular(Written, appended) => Regular(Written', n)
    BY <1>2, <1>5, <1>6, OneMore DEF e
  <1>8. file' \in Seq(Piece) /\ buffer' \in Seq(Piece) /\ buffer' # <<>>
    <2>1. CASE file' = file /\ buffer' = buffer \o e
      <3>1. buffer \o e \in Seq(Piece) /\ buffer \o e # <<>>
        BY <1>2, <1>3, ConcatProperties, ConcatEqualIffEmpty
      <3> QED
        BY <1>2, <2>1, <3>1
    <2>2. CASE file' = file \o buffer /\ buffer' = e
      BY <1>3, <1>4, <2>2
    <2>3. CASE file' = file \o buffer \o t /\ buffer' = <<Journal!EndOfLine>>
      <3>1. (file \o buffer) \o t \in Seq(Piece)
        BY <1>3, <1>4, ConcatProperties
      <3> QED
        BY <1>3, <2>3, <3>1
    <2> QED
      BY <1>1, <2>1, <2>2, <2>3
  <1>9. \A i \in flushed : Stands(file', i)
    <2> TAKE i \in flushed
    <2>1. Stands(file, i) /\ Stands(file \o buffer, i)
      BY <1>2, StillStands
    <2>2. Stands((file \o buffer) \o t, i)
      BY <1>3, <1>4, <2>1, StillStands
    <2> QED
      BY <1>1, <2>1, <2>2
  <1>10. \A i \in (appended' - count' + 1)..appended' : Stands(Written', i)
    <2>1. \A i \in (appended' - count' + 1)..appended' :
             i \in (appended - count + 1)..appended \/ i = n
      BY <1>1, <1>2
    <2>2. \A i \in (appended - count + 1)..appended : Stands(Written', i)
      BY <1>2, <1>3, <1>5, <1>6, StillStands
    <2> QED
      BY <1>7, <2>1, <2>2
  <1>11. kills' = 0 => Regular(Written', n) /\ \A k \in Nat : Len(file') # 3 * k + 1
    <2> SUFFICES ASSUME kills = 0 PROVE Regular(Written', n) /\ \A k \in Nat : Len(file') # 3 * k + 1
      BY <1>1
    <2>1. Regular(Written, appended) /\ \A k \in Nat : Len(file) # 3 * k + 1
      BY <1>2
    <2>2. Len(file \o buffer) = 3 * appended
      BY <2>1 DEF Regular, Written
    <2>3. CASE file' = file
      BY <1>7, <2>1, <2>3
    <2>4. CASE file' = file \o buffer
      <3>1. \A k \in Nat : 3 * appended # 3 * k + 1
        BY <1>2
      <3> QED
        BY <1>7, <2>1, <2>2, <2>4, <3>1
    <2>5. CASE file' = file \o buffer \o t
      <3>1. Len(file') = 3 * appended + 2
        <4>1. file \o buffer \in Seq(Piece) /\ t \in Seq(Piece)
          BY <1>3, <1>4
        <4>2. Len((file \o buffer) \o t) = Len(file \o buffer) + Len(t)
          BY ONLY <4>1, ConcatProperties
        <4> QED
          BY <1>3, <2>2, <2>5, <4>2
      <3>2. \A k \in Nat : 3 * appended + 2 # 3 * k + 1
        BY <1>2
      <3> QED
        BY <1>7, <2>1, <3>1, <3>2
    <2> QED
      BY <1>1, <2>3, <2>4, <2>5
  <1>12. /\ appended' \in Nat /\ count' \in Nat /\ count' <= appended'
         /\ flushed' \in SUBSET (1..appended')
    BY <1>1, <1>2
  <1>13. row' = row /\ kills' = kills /\ flushed' = flushed /\ writing' = writing
    BY <1>1
  <1>14. /\ InOrder(Written', appended') /\ writing' /\ row' \in Nat /\ kills' \in Nat
         /\ \A i \in flushed' : Stands(file', i)
         /\ row' <= Cardinality(flushed')
         /\ kills' = 0 => Regular(Written', appended') /\ \A k \in Nat : Len(file') # 3 * k + 1
    BY <1>1, <1>2, <1>7, <1>9, <1>11, <1>13
  <1> QED
    BY <1>8, <1>10, <1>12, <1>14, Zenon DEF JournalInv

\* What the buffer held is in the file, and this writer's entries are flushed.
LEMMA EmptiedStep ==
    ASSUME JournalInv, writing, Journal!Emptied
    PROVE  /\ file' \in Seq(Piece) /\ buffer' = <<>> /\ Written' = Written
           /\ flushed' = flushed \cup (appended - count + 1)..appended
           /\ flushed' \in SUBSET (1..appended) /\ \A i \in flushed' : Stands(file', i)
           /\ row <= Cardinality(flushed')
           /\ kills = 0 => \A k \in Nat : Len(file') # 3 * k + 1
  <1>1. /\ file' = Written /\ buffer' = <<>>
        /\ flushed' = flushed \cup (appended - count + 1)..appended
    BY DEF Journal!Emptied, Written
  <1>2. /\ file \in Seq(Piece) /\ buffer \in Seq(Piece) /\ appended \in Nat /\ count \in Nat
        /\ row \in Nat /\ count <= appended
        /\ flushed \in SUBSET (1..appended) /\ \A i \in flushed : Stands(file, i)
        /\ row <= Cardinality(flushed)
        /\ \A i \in (appended - count + 1)..appended : Stands(Written, i)
        /\ kills = 0 => Regular(Written, appended)
    BY DEF JournalInv
  <1> HIDE DEF Piece
  <1>3. Written \in Seq(Piece) /\ Written' = Written
    <2>1. Written \in Seq(Piece)
      BY <1>2, Longer DEF Written
    <2>2. Written \o <<>> = Written
      BY <2>1, ConcatEmptySeq
    <2>3. Written' = Written \o <<>>
      BY <1>1 DEF Written
    <2> QED
      BY <2>1, <2>2, <2>3
  <1>4. flushed' \in SUBSET (1..appended)
    BY <1>1, <1>2
  <1>5. \A i \in flushed' : Stands(file', i)
    <2>1. \A i \in flushed : Stands(Written, i)
      BY <1>2, StillStands DEF Written
    <2> QED
      BY <1>1, <1>2, <2>1
  <1>6. row <= Cardinality(flushed')
    <2>1. IsFiniteSet(1..appended)
      BY <1>2, FS_Interval
    <2>2. IsFiniteSet(flushed')
      BY <1>4, <2>1, FS_Subset
    <2>3. flushed \in SUBSET flushed'
      BY <1>1
    <2>4. IsFiniteSet(flushed) /\ Cardinality(flushed) <= Cardinality(flushed')
      BY <2>2, <2>3, FS_Subset
    <2>5. Cardinality(flushed) \in Nat /\ Cardinality(flushed') \in Nat
      BY <2>2, <2>4, FS_CardinalityType
    <2> QED
      BY <1>2, <2>4, <2>5
  <1>7. kills = 0 => \A k \in Nat : Len(file') # 3 * k + 1
    <2> SUFFICES ASSUME kills = 0 PROVE \A k \in Nat : Len(file') # 3 * k + 1
      OBVIOUS
    <2>1. Len(file') = 3 * appended
      BY <1>1, <1>2 DEF Regular
    <2>2. \A k \in Nat : 3 * appended # 3 * k + 1
      BY <1>2
    <2> QED
      BY <2>1, <2>2
  <1> QED
    BY <1>1, <1>3, <1>4, <1>5, <1>6, <1>7

\* Wherever the process is killed, what is in the file is the beginning of what
\* was written.
LEMMA KillStep ==
    ASSUME JournalInv, Journal!Kill
    PROVE  JournalInv'
  <1>1. /\ kills' = kills + 1 /\ buffer' = <<>> /\ writing' = FALSE /\ count' = 0
        /\ UNCHANGED <<row, appended, flushed>>
    BY DEF Journal!Kill
  <1>2. PICK w \in 0..Len(buffer) : file' = file \o SubSeq(buffer, 1, w)
    BY DEF Journal!Kill
  <1>3. /\ file \in Seq(Piece) /\ buffer \in Seq(Piece) /\ appended \in Nat
        /\ row \in Nat /\ kills \in Nat
        /\ InOrder(Written, appended)
        /\ flushed \in SUBSET (1..appended) /\ \A i \in flushed : Stands(file, i)
        /\ row <= Cardinality(flushed)
    BY DEF JournalInv
  <1> HIDE DEF Piece
  <1> DEFINE got == SubSeq(buffer, 1, w)
             lost == SubSeq(buffer, w + 1, Len(buffer))
  <1>4. Len(buffer) \in Nat /\ w \in 0..Len(buffer) /\ \A i \in 1..Len(buffer) : buffer[i] \in Piece
    BY <1>3
  <1>5. got \in Seq(Piece) /\ lost \in Seq(Piece)
    <2>1. \A i \in 1..w : buffer[i] \in Piece
      BY <1>4
    <2>2. \A i \in (w + 1)..Len(buffer) : buffer[i] \in Piece
      BY <1>4
    <2>3. 1 \in Int /\ w \in Int /\ w + 1 \in Int /\ Len(buffer) \in Int
      BY <1>4
    <2>4. got \in Seq(Piece)
      BY <2>1, <2>3, SubSeqProperties
    <2>5. lost \in Seq(Piece)
      BY <2>2, <2>3, SubSeqProperties
    <2> QED
      BY <2>4, <2>5
  <1>6. got \o lost = buffer
    <2>1. 1 \in 1..(Len(buffer) + 1) /\ w \in (1 - 1)..Len(buffer) /\ Len(buffer) \in w..Len(buffer)
      BY <1>4
    <2>2. got \o lost = SubSeq(buffer, 1, Len(buffer))
      BY <1>3, <2>1, ConcatAdjacentSubSeq
    <2>3. SubSeq(buffer, 1, Len(buffer)) = buffer
      BY <1>3, SubSeqFull
    <2> QED
      BY <2>2, <2>3, Zenon
  <1> HIDE DEF got, lost
  <1>7. file' = file \o got /\ file' \in Seq(Piece)
    <2>1. file \o got \in Seq(Piece)
      BY <1>3, <1>5, ConcatProperties
    <2> QED
      BY <1>2, <2>1 DEF got
  <1>8. Written = (file \o got) \o lost
    <2>1. file \in Seq(Piece) /\ got \in Seq(Piece) /\ lost \in Seq(Piece)
      BY <1>3, <1>5
    <2>2. (file \o got) \o lost = file \o (got \o lost)
      BY ONLY <2>1, ConcatAssociative
    <2> QED
      BY <1>6, <2>2 DEF Written
  <1>9. InOrder(Written', appended)
    <2>1. InOrder(file \o got, appended)
      <3>1. InOrder((file \o got) \o lost, appended)
        BY <1>3, <1>8
      <3>2. file \o got \in Seq(Piece)
        BY <1>7
      <3> QED
        BY <1>5, <3>1, <3>2, PartInOrder
    <2>2. Written' = file \o got
      <3>1. (file \o got) \o <<>> = file \o got
        BY <1>7, ConcatEmptySeq
      <3> QED
        BY <1>1, <1>7, <3>1 DEF Written
    <2> QED
      BY <2>1, <2>2
  <1>10. \A i \in flushed : Stands(file', i)
    BY <1>3, <1>5, <1>7, StillStands
  <1>11. <<>> \in Seq(Piece) /\ 0 \in Nat /\ kills' \in Nat /\ kills' # 0 /\ 0 <= appended
    BY <1>1, <1>3
  <1>12. row' = row /\ appended' = appended /\ flushed' = flushed
    BY <1>1
  <1> QED
    BY <1>1, <1>3, <1>7, <1>9, <1>10, <1>11, <1>12, Zenon DEF JournalInv

\* The log's invariant is inductive, whatever part is at work.
LEMMA JournalInductive ==
    /\ Init => JournalInv
    /\ JournalInv /\ [Next]_vars => JournalInv'
  <1>1. Init => JournalInv
    <2> SUFFICES ASSUME Init PROVE JournalInv
      OBVIOUS
    <2>1. /\ file = <<>> /\ buffer = <<>> /\ writing = FALSE
          /\ count = 0 /\ row = 0 /\ appended = 0 /\ flushed = {} /\ kills = 0
      BY DEF Init, Journal!Init
    <2>2. Written = <<>> /\ Len(Written) = 0 /\ 1..Len(Written) = {} /\ 1..appended = {}
      BY <2>1 DEF Written
    <2>3. InOrder(Written, appended) /\ Regular(Written, appended)
      BY <2>1, <2>2 DEF InOrder, Regular
    <2>4. row <= Cardinality(flushed)
      BY <2>1, FS_EmptySet
    <2>5. \A k \in Nat : Len(file) # 3 * k + 1
      BY <2>1
    <2>6. /\ file \in Seq(Piece) /\ buffer \in Seq(Piece) /\ 0 \in Nat /\ 0 <= 0
          /\ flushed \in SUBSET (1..appended)
      BY <2>1
    <2> QED
      BY <2>1, <2>3, <2>4, <2>5, <2>6, Zenon DEF JournalInv
  <1>2. ASSUME JournalInv, [Next]_vars PROVE JournalInv'
    <2>0. /\ file \in Seq(Piece) /\ buffer \in Seq(Piece)
          /\ count \in Nat /\ appended \in Nat /\ row \in Nat /\ kills \in Nat /\ count <= appended
          /\ InOrder(Written, appended)
          /\ flushed \in SUBSET (1..appended) /\ \A n \in flushed : Stands(file, n)
          /\ row <= Cardinality(flushed)
          /\ kills = 0 => Regular(Written, appended) /\ \A k \in Nat : Len(file) # 3 * k + 1
      BY <1>2 DEF JournalInv
    <2>1. CASE part = "session" /\ Journal!Next
      <3>1. CASE Journal!Create
        <4>1. /\ ~writing /\ writing' = TRUE /\ count' = 0
              /\ file' = file /\ buffer' = buffer /\ row' = row /\ appended' = appended
              /\ flushed' = flushed /\ kills' = kills
          BY <3>1 DEF Journal!Create
        <4>2. Written' = Written
          BY <4>1 DEF Written
        <4>3. (appended' - count' + 1)..appended' = {}
          <5>1. \A n \in Nat : (n - 0 + 1)..n = {}
            OBVIOUS
          <5> QED
            BY <2>0, <4>1, <5>1
        <4>4. 0 <= appended /\ 0 \in Nat
          BY <2>0
        <4>5. /\ \A n \in (appended' - count' + 1)..appended' : Stands(Written', n)
              /\ (appended' - count' + 1)..appended' \subseteq flushed'
          BY <4>3
        <4> QED
          BY <2>0, <4>1, <4>2, <4>4, <4>5, Zenon DEF JournalInv
      <3>2. CASE Journal!AppendEntry
        BY <1>2, <3>2, AppendEntryStep
      <3>3. CASE Journal!Flush
        <4>1. writing /\ Journal!Emptied /\ writing' = writing /\ count' = count /\ row' = row
              /\ appended' = appended /\ kills' = kills
          BY <3>3 DEF Journal!Flush
        <4>2. /\ file' \in Seq(Piece) /\ buffer' = <<>> /\ Written' = Written
              /\ flushed' = flushed \cup (appended - count + 1)..appended
              /\ flushed' \in SUBSET (1..appended) /\ \A i \in flushed' : Stands(file', i)
              /\ row <= Cardinality(flushed')
              /\ kills = 0 => \A k \in Nat : Len(file') # 3 * k + 1
          BY <1>2, <4>1, EmptiedStep
        <4>3. /\ \A n \in (appended - count + 1)..appended : Stands(Written, n)
              /\ (appended - count + 1)..appended \subseteq flushed'
              /\ buffer' \in Seq(Piece)
          BY <1>2, <4>1, <4>2 DEF JournalInv
        <4> QED
          BY <2>0, <4>1, <4>2, <4>3, Zenon DEF JournalInv
      <3>4. CASE Journal!Close
        <4>1. writing /\ Journal!Emptied /\ writing' = FALSE /\ count' = 0 /\ row' = row
              /\ appended' = appended /\ kills' = kills
          BY <3>4 DEF Journal!Close
        <4>2. /\ file' \in Seq(Piece) /\ buffer' = <<>> /\ Written' = Written
              /\ flushed' \in SUBSET (1..appended) /\ \A i \in flushed' : Stands(file', i)
              /\ row <= Cardinality(flushed')
              /\ kills = 0 => \A k \in Nat : Len(file') # 3 * k + 1
          BY <1>2, <4>1, EmptiedStep
        <4>3. buffer' \in Seq(Piece) /\ 0 \in Nat /\ 0 <= appended
          BY <2>0, <4>2
        <4> QED
          BY <2>0, <4>1, <4>2, <4>3, Zenon DEF JournalInv
      <3>5. CASE Journal!Upsert
        <4>1. /\ writing /\ buffer = <<>> /\ row' = count
              /\ file' = file /\ buffer' = buffer /\ writing' = writing /\ count' = count
              /\ appended' = appended /\ flushed' = flushed /\ kills' = kills
          BY <3>5 DEF Journal!Upsert
        <4>2. /\ \A n \in (appended - count + 1)..appended : Stands(Written, n)
              /\ (appended - count + 1)..appended \in SUBSET flushed
          BY <1>2, <4>1 DEF JournalInv
        <4>3. count <= Cardinality(flushed)
          <5>1. IsFiniteSet(1..appended)
            BY <2>0, FS_Interval
          <5>2. IsFiniteSet(flushed)
            BY <2>0, <5>1, FS_Subset
          <5>3. Cardinality((appended - count + 1)..appended) = count
            <6>1. appended - count + 1 \in Int /\ appended \in Int
              BY <2>0
            <6>2. Cardinality((appended - count + 1)..appended)
                    = IF appended - count + 1 > appended THEN 0 ELSE appended - (appended - count + 1) + 1
              BY <6>1, FS_Interval
            <6> QED
              BY <2>0, <6>2
          <5> QED
            BY <4>2, <5>2, <5>3, FS_Subset
        <4>4. Written' = Written
          BY <4>1 DEF Written
        <4> QED
          BY <2>0, <4>1, <4>2, <4>3, <4>4, Zenon DEF JournalInv
      <3>6. CASE Journal!Kill
        BY <1>2, <3>6, KillStep
      <3> QED
        BY <2>1, <3>1, <3>2, <3>3, <3>4, <3>5, <3>6 DEF Journal!Next
    <2>2. CASE UNCHANGED sessionVars
      <3>1. /\ file' = file /\ buffer' = buffer /\ writing' = writing /\ count' = count
            /\ row' = row /\ appended' = appended /\ flushed' = flushed /\ kills' = kills
        BY <2>2 DEF sessionVars
      <3>2. Written' = Written
        BY <3>1 DEF Written
      <3> QED
        BY <1>2, <3>1, <3>2, Zenon DEF JournalInv
    <2> QED
      BY <1>2, <2>1, <2>2 DEF Next, Others, vars
  <1> QED
    BY <1>1, <1>2

\* A line that is an entry is the two parts of its text, and its end if it has one.
LEMMA EntryAt ==
    ASSUME NEW s \in Seq(Piece), NEW k \in Journal!Begins(s), Journal!IsEntry(s, k)
    PROVE  /\ k \in 1..Len(s) /\ k + 1 \in 1..Len(s)
           /\ IsHead(s[k]) /\ ~IsHead(s[k + 1]) /\ s[k + 1] # Journal!EndOfLine
           /\ k + 2 \in 1..Len(s) => s[k + 2] = Journal!EndOfLine
  <1>1. DOMAIN s = 1..Len(s) /\ Len(s) \in Nat /\ \A i \in 1..Len(s) : s[i] \in Piece
    OBVIOUS
  <1>2. k \in 1..Len(s) /\ k + 1 \in 1..Len(s) /\ (k + 2 \in 1..Len(s) => s[k + 2] = Journal!EndOfLine)
    BY <1>1 DEF Journal!Begins, Journal!IsEntry
  <1>3. SubSeq(s, k, k + 1) = <<HeadOf(s[k].entry), TailOf(s[k].entry)>>
    BY Pieces DEF Journal!IsEntry
  <1> HIDE DEF Piece
  <1>4. SubSeq(s, k, k + 1)[1] = s[k] /\ SubSeq(s, k, k + 1)[2] = s[k + 1]
    <2>1. k \in Int /\ k + 1 \in Int /\ \A i \in k..(k + 1) : s[i] \in Piece
      BY <1>1, <1>2
    <2>2. \A i \in 1..((k + 1) - k + 1) : SubSeq(s, k, k + 1)[i] = s[k + i - 1]
      BY <2>1, SubSeqProperties
    <2>3. 1 \in 1..((k + 1) - k + 1) /\ 2 \in 1..((k + 1) - k + 1) /\ k + 1 - 1 = k /\ k + 2 - 1 = k + 1
      BY <2>1
    <2> QED
      BY <2>2, <2>3
  <1>5. s[k] = HeadOf(s[k].entry) /\ s[k + 1] = TailOf(s[k].entry)
    <2>1. \A p, x, y : p = <<x, y>> => p[1] = x /\ p[2] = y
      OBVIOUS
    <2>2. /\ SubSeq(s, k, k + 1)[1] = HeadOf(s[k].entry)
          /\ SubSeq(s, k, k + 1)[2] = TailOf(s[k].entry)
      BY <1>3, <2>1, Zenon
    <2> QED
      BY <1>4, <2>2
  <1> QED
    BY <1>2, <1>5, Pieces

\* An entry that stands in the file begins a line, if every line is an entry: had
\* it anything in front, the line begun there would not be one.
LEMMA StandsAtBeginning ==
    ASSUME NEW s \in Seq(Piece), \A k \in Journal!Begins(s) : Journal!IsEntry(s, k),
           NEW n, Stands(s, n)
    PROVE  \E k \in Journal!Begins(s) : s[k] = HeadOf(n)
  <1> DEFINE EOL == Journal!EndOfLine
  <1>1. PICK i \in 1..Len(s) : s[i] = HeadOf(n)
    BY DEF Stands
  <1>2. DOMAIN s = 1..Len(s) /\ Len(s) \in Nat
    OBVIOUS
  <1>3. s[i] # EOL /\ IsHead(s[i]) /\ i \in Nat /\ i >= 1
    BY <1>1, <1>2, Pieces
  <1> SUFFICES ASSUME i \notin Journal!Begins(s) PROVE FALSE
    BY <1>1
  <1>4. i # 1 /\ s[i - 1] # EOL
    BY <1>2, <1>3 DEF Journal!Begins
  <1> DEFINE T == {b \in 1..(i - 1) : \A j \in b..(i - 1) : s[j] # EOL}
  <1>5. i - 1 \in T /\ T \in SUBSET Nat
    <2>1. i - 1 \in 1..(i - 1) /\ \A j \in (i - 1)..(i - 1) : j = i - 1
      BY <1>3, <1>4
    <2> QED
      BY <1>4, <2>1
  <1>6. PICK b \in T : \A y \in T : b <= y
    <2> HIDE DEF T
    <2> QED
      BY <1>5, Least
  <1>7. /\ b \in 1..(i - 1) /\ b \in 1..Len(s) /\ \A j \in b..(i - 1) : s[j] # EOL
        /\ b \in b..(i - 1)
    BY <1>2, <1>3, <1>6
  <1>8. b = 1 \/ s[b - 1] = EOL
    <2> SUFFICES ASSUME b # 1, s[b - 1] # EOL PROVE FALSE
      OBVIOUS
    <2>1. b - 1 \in 1..(i - 1) /\ \A j \in (b - 1)..(i - 1) : j = b - 1 \/ j \in b..(i - 1)
      BY <1>3, <1>7
    <2>2. b - 1 \in T
      BY <1>7, <2>1
    <2> HIDE DEF T
    <2> QED
      BY <1>6, <1>7, <2>2
  <1>9. b \in Journal!Begins(s)
    BY <1>2, <1>7, <1>8 DEF Journal!Begins
  <1>10. /\ b + 1 \in 1..Len(s) /\ ~IsHead(s[b + 1])
         /\ b + 2 \in 1..Len(s) => s[b + 2] = EOL
    BY <1>9, EntryAt
  <1>11. i # b + 1
    BY <1>3, <1>10
  <1>12. b + 2 \in 1..Len(s) /\ (i = b + 2 \/ b + 2 \in b..(i - 1))
    BY <1>1, <1>2, <1>3, <1>7, <1>11
  <1> QED
    BY <1>3, <1>7, <1>10, <1>12

\* A file of lines that are entries is read entry by entry, in their order.
LEMMA ReadAsWritten ==
    ASSUME NEW s \in Seq(Piece), NEW last, InOrder(s, last), last \in Nat,
           \A k \in Journal!Begins(s) : Journal!IsEntry(s, k)
    PROVE  /\ Journal!Read(s) \in Seq(1..last)
           /\ \A n : Stands(s, n) => n \in ToSet(Journal!Read(s))
           /\ \A i, j \in DOMAIN Journal!Read(s) : i < j => Journal!Read(s)[i] < Journal!Read(s)[j]
  <1> DEFINE B == Journal!Begins(s)
             c == Cardinality(B)
             Below(k) == {i \in B : i <= k}
             Rank(k) == Cardinality(Below(k))
             Nth(j) == CHOOSE k \in B : Rank(k) = j
             r == Journal!Read(s)
  <1>1. r = [j \in 1..c |-> s[Nth(j)].entry]
    <2>1. \A k \in Journal!Begins(s) : Journal!IsEntry(s, k)
      OBVIOUS
    <2> HIDE DEF Piece
    <2> QED
      BY <2>1, Zenon DEF Journal!Read, Journal!Cardinality, Journal!IsFiniteSet, Cardinality, IsFiniteSet
  <1>2. B \in SUBSET (1..Len(s)) /\ B \in SUBSET Nat /\ Len(s) \in Nat
    BY DEF Journal!Begins
  <1>3. IsFiniteSet(B)
    <2>1. IsFiniteSet(1..Len(s))
      BY <1>2, FS_Interval
    <2> QED
      BY <1>2, <2>1, FS_Subset
  <1>4. \A k \in B : IsHead(s[k])
    BY EntryAt
  <1>5. \A n : Stands(s, n) => \E k \in B : s[k] = HeadOf(n)
    BY StandsAtBeginning
  <1> HIDE DEF B, r
  <1>6. /\ c \in Nat /\ \A k \in B : Rank(k) \in 1..c
        /\ \A k, l \in B : Rank(k) = Rank(l) => k = l
        /\ \A j \in 1..c : \E k \in B : Rank(k) = j
    BY <1>2, <1>3, Ranks
  <1>7. ASSUME NEW k \in B, NEW l \in B, l <= k
        PROVE  Rank(l) <= Rank(k)
    <2>1. k \in Nat /\ l \in Nat /\ \A i \in B : i \in Nat
      BY <1>2
    <2>2. Below(l) \in SUBSET Below(k) /\ Below(k) \in SUBSET B
      <3>1. \A i \in B : i <= l => i <= k
        BY <1>7, <2>1
      <3> QED
        BY <3>1
    <2> HIDE DEF Below
    <2>3. IsFiniteSet(Below(k))
      BY <1>3, <2>2, FS_Subset
    <2> QED
      BY <2>2, <2>3, FS_Subset
  <1> HIDE DEF c, Rank, Below
  <1>8. \A j \in 1..c : Nth(j) \in B /\ Rank(Nth(j)) = j
    BY <1>6
  <1> HIDE DEF Nth
  <1>9. DOMAIN r = 1..c /\ \A j \in 1..c : r[j] = s[Nth(j)].entry
    BY <1>1
  <1>10. \A k \in B : s[k].entry \in 1..last
    BY <1>2, <1>4 DEF InOrder
  <1>11. \A k, l \in B : k < l => s[k].entry < s[l].entry
    BY <1>2, <1>4 DEF InOrder
  <1>12. r \in Seq(1..last)
    <2>1. r \in [1..c -> 1..last]
      BY <1>1, <1>8, <1>10
    <2> QED
      BY <1>6, <2>1
  <1>13. ASSUME NEW i \in 1..c, NEW j \in 1..c, i < j
         PROVE  Nth(i) < Nth(j)
    <2>1. Nth(i) \in B /\ Nth(j) \in B /\ Rank(Nth(i)) = i /\ Rank(Nth(j)) = j
      BY <1>8
    <2>2. Nth(i) \in Nat /\ Nth(j) \in Nat
      BY <1>2, <2>1
    <2>4. i \in Nat /\ j \in Nat
      OBVIOUS
    <2>3. Nth(j) <= Nth(i) => Rank(Nth(j)) <= Rank(Nth(i))
      BY <1>7, <2>1
    <2> QED
      BY <1>13, <2>1, <2>2, <2>3, <2>4
  <1>14. \A i, j \in DOMAIN r : i < j => r[i] < r[j]
    BY <1>8, <1>9, <1>11, <1>13
  <1>15. ASSUME NEW n, Stands(s, n)
         PROVE  n \in ToSet(r)
    <2>1. PICK k \in B : s[k] = HeadOf(n)
      BY <1>5, <1>15
    <2>2. Rank(k) \in 1..c
      BY <1>6
    <2>3. Nth(Rank(k)) = k
      <3>1. Nth(Rank(k)) \in B /\ Rank(Nth(Rank(k))) = Rank(k)
        BY <1>8, <2>2
      <3> QED
        BY <1>6, <3>1
    <2> QED
      BY <1>9, <2>1, <2>2, <2>3, Pieces DEF ToSet
  <1> QED
    BY <1>12, <1>14, <1>15 DEF r

\* Nothing but whole entries, cut anywhere but inside an entry, can be read.
LEMMA RegularIsReadable ==
    ASSUME NEW a \in Seq(Piece), NEW b \in Seq(Piece), NEW last \in Nat, Regular(a \o b, last),
           \A m \in Nat : Len(a) # 3 * m + 1
    PROVE  \A k \in Journal!Begins(a) : Journal!IsEntry(a, k)
  <1> SUFFICES ASSUME NEW k \in Journal!Begins(a) PROVE Journal!IsEntry(a, k)
    OBVIOUS
  <1>1. DOMAIN a = 1..Len(a) /\ \A i \in 1..Len(a) : a[i] \in Piece
    OBVIOUS
  <1> HIDE DEF Piece
  <1>2. /\ Len(a) \in Nat /\ Len(b) \in Nat /\ Len(a \o b) = Len(a) + Len(b)
        /\ \A i \in 1..Len(a) : i \in 1..Len(a \o b) /\ (a \o b)[i] = a[i]
    BY Longer, Zenon
  <1>3. /\ k \in 1..Len(a) /\ a[k] # Journal!EndOfLine
        /\ k = 1 \/ a[k - 1] = Journal!EndOfLine
    BY <1>1 DEF Journal!Begins
  <1>4. Len(a) + Len(b) = 3 * last
    BY <1>2 DEF Regular
  <1>5. \A m \in 1..last : /\ (a \o b)[3 * m - 2] = HeadOf(m) /\ (a \o b)[3 * m - 1] = TailOf(m)
                           /\ (a \o b)[3 * m] = Journal!EndOfLine
    BY DEF Regular
  <1>6. PICK m \in 1..last : k = 3 * m - 2 \/ k = 3 * m - 1 \/ k = 3 * m
    <2>1. k \in Nat /\ k >= 1 /\ k <= 3 * last
      BY <1>2, <1>3, <1>4
    <2>2. \E m \in 1..last : k = 3 * m - 2 \/ k = 3 * m - 1 \/ k = 3 * m
      <3>1. (k + 2) \div 3 \in 1..last
        BY <2>1
      <3>2. k = 3 * ((k + 2) \div 3) - 2 \/ k = 3 * ((k + 2) \div 3) - 1 \/ k = 3 * ((k + 2) \div 3)
        BY <2>1
      <3> QED
        BY <3>1, <3>2
    <2> QED
      BY <2>2
  <1>7. a[k] = (a \o b)[k]
    BY <1>2, <1>3
  <1>8. k # 3 * m
    BY <1>3, <1>5, <1>7
  <1>9. k # 3 * m - 1
    <2> SUFFICES ASSUME k = 3 * m - 1 PROVE FALSE
      OBVIOUS
    <2>1. k # 1 /\ k - 1 = 3 * m - 2 /\ k - 1 \in 1..Len(a)
      BY <1>2, <1>3
    <2>2. a[k - 1] = HeadOf(m)
      BY <1>2, <1>5, <2>1
    <2> QED
      BY <1>3, <2>1, <2>2, Pieces
  <1>10. k = 3 * m - 2 /\ m \in Nat /\ m >= 1 /\ m - 1 \in Nat
    BY <1>6, <1>8, <1>9
  <1>11. k + 1 \in 1..Len(a)
    <2>1. Len(a) # 3 * (m - 1) + 1
      BY <1>10
    <2> QED
      BY <1>2, <1>3, <1>10, <2>1
  <1>12. a[k] = HeadOf(m) /\ a[k + 1] = TailOf(m) /\ a[k].entry = m
    <2>1. k + 1 = 3 * m - 1
      BY <1>10
    <2>2. a[k] = HeadOf(m)
      BY <1>5, <1>7, <1>10
    <2>3. a[k + 1] = TailOf(m)
      BY <1>2, <1>5, <1>11, <2>1
    <2> QED
      BY <2>2, <2>3, Pieces
  <1>13. k + 2 \in 1..Len(a) => a[k + 2] = Journal!EndOfLine
    <2> SUFFICES ASSUME k + 2 \in 1..Len(a) PROVE a[k + 2] = Journal!EndOfLine
      OBVIOUS
    <2>1. k + 2 = 3 * m
      BY <1>10
    <2> QED
      BY <1>2, <1>5, <2>1
  <1>14. SubSeq(a, k, k + 1) = <<a[k], a[k + 1]>>
    <2>1. k \in Int /\ k + 1 \in Int /\ \A i \in k..(k + 1) : a[i] \in Piece
      <3>1. \A l \in Nat : \A i \in l..(l + 1) : i = l \/ i = l + 1
        OBVIOUS
      <3>2. k \in Nat /\ k + 1 \in Nat
        BY <1>3
      <3>3. a[k] \in Piece /\ a[k + 1] \in Piece
        BY <1>1, <1>3, <1>11
      <3> QED
        BY ONLY <3>1, <3>2, <3>3
    <2>2. /\ SubSeq(a, k, k + 1) \in Seq(Piece)
          /\ Len(SubSeq(a, k, k + 1)) = IF k <= k + 1 THEN (k + 1) - k + 1 ELSE 0
          /\ \A i \in 1..((k + 1) - k + 1) : SubSeq(a, k, k + 1)[i] = a[k + i - 1]
      BY <2>1, SubSeqProperties
    <2>3. Len(SubSeq(a, k, k + 1)) = 2
      BY <2>1, <2>2
    <2>4. SubSeq(a, k, k + 1)[1] = a[k] /\ SubSeq(a, k, k + 1)[2] = a[k + 1]
      <3>1. 1 \in 1..((k + 1) - k + 1) /\ 2 \in 1..((k + 1) - k + 1) /\ k + 1 - 1 = k /\ k + 2 - 1 = k + 1
        BY <2>1
      <3> QED
        BY <2>2, <3>1
    <2>5. <<a[k], a[k + 1]>> \in Seq(Piece) /\ Len(<<a[k], a[k + 1]>>) = 2
      <3>1. a[k] \in Piece /\ a[k + 1] \in Piece
        BY <1>1, <1>3, <1>11
      <3>2. \A X : \A x, y \in X : <<x, y>> \in Seq(X) /\ Len(<<x, y>>) = 2
        OBVIOUS
      <3> QED
        BY ONLY <3>1, <3>2
    <2>6. \A i \in 1..2 : SubSeq(a, k, k + 1)[i] = <<a[k], a[k + 1]>>[i]
      <3>1. \A x, y : <<x, y>>[1] = x /\ <<x, y>>[2] = y
        OBVIOUS
      <3>2. \A i \in 1..2 : i = 1 \/ i = 2
        OBVIOUS
      <3>3. /\ SubSeq(a, k, k + 1)[1] = <<a[k], a[k + 1]>>[1]
            /\ SubSeq(a, k, k + 1)[2] = <<a[k], a[k + 1]>>[2]
        BY <2>4, <3>1, Zenon
      <3> QED
        BY <3>2, <3>3, Zenon
    <2> QED
      BY ONLY <2>2, <2>3, <2>5, <2>6, SeqEqual, Zenon
  <1>15. SubSeq(a, k, k + 1) = Journal!Text(a[k].entry)
    BY <1>12, <1>14, Pieces
  <1> QED
    BY <1>1, <1>11, <1>13, <1>15 DEF Journal!IsEntry

\* Pages that meet are the whole.
LEMMA PagesMeet ==
    ASSUME NEW X, NEW s \in Seq(X), NEW n \in 0..Len(s)
    PROVE  Journal!ReadRange(s, 0, n) \o Journal!ReadRange(s, n, Len(s) + 1) = s
  <1>1. Len(s) \in Nat /\ n \in Nat /\ n <= Len(s)
    OBVIOUS
  <1>2. <<>> \o s = s /\ s \o <<>> = s
    BY ConcatEmptySeq
  <1>3. SubSeq(s, 1, Len(s)) = s
    BY SubSeqFull
  <1>4. CASE n = 0
    <2>1. Journal!ReadRange(s, 0, n) = <<>>
      BY <1>4 DEF Journal!ReadRange
    <2>2. Journal!ReadRange(s, n, Len(s) + 1) = s
      <3>1. CASE Len(s) = 0
        <4>1. s = <<>>
          BY <3>1
        <4>2. n >= Len(s)
          BY <1>4, <3>1
        <4> QED
          BY <4>1, <4>2 DEF Journal!ReadRange
      <3>2. CASE Len(s) # 0
        <4>1. ~(n >= Len(s) + 1) /\ ~(n >= Len(s)) /\ ~(Len(s) + 1 <= Len(s)) /\ n + 1 = 1
          BY <1>1, <1>4, <3>2
        <4> QED
          BY <1>3, <4>1 DEF Journal!ReadRange
      <3> QED
        BY <3>1, <3>2
    <2> QED
      BY <1>2, <2>1, <2>2
  <1>5. CASE n # 0
    <2>1. Journal!ReadRange(s, 0, n) = SubSeq(s, 1, n)
      <3>1. ~(0 >= n) /\ ~(0 >= Len(s)) /\ n <= Len(s) /\ 0 + 1 = 1
        BY <1>1, <1>5
      <3> QED
        BY <3>1 DEF Journal!ReadRange
    <2>2. CASE n = Len(s)
      <3>1. Journal!ReadRange(s, n, Len(s) + 1) = <<>>
        <4>1. n >= Len(s)
          BY <1>1, <2>2
        <4> QED
          BY <4>1 DEF Journal!ReadRange
      <3> QED
        BY <1>2, <1>3, <2>1, <2>2, <3>1, Zenon
    <2>3. CASE n # Len(s)
      <3>1. Journal!ReadRange(s, n, Len(s) + 1) = SubSeq(s, n + 1, Len(s))
        <4>1. ~(n >= Len(s) + 1) /\ ~(n >= Len(s)) /\ ~(Len(s) + 1 <= Len(s))
          BY <1>1, <2>3
        <4> QED
          BY <4>1 DEF Journal!ReadRange
      <3>2. SubSeq(s, 1, n) \o SubSeq(s, n + 1, Len(s)) = SubSeq(s, 1, Len(s))
        <4>1. s \in Seq(X) /\ 1 \in 1..(Len(s) + 1) /\ n \in (1 - 1)..Len(s) /\ Len(s) \in n..Len(s)
          BY <1>1
        <4> QED
          BY ONLY <4>1, ConcatAdjacentSubSeq
      <3> QED
        BY <1>3, <2>1, <3>1, <3>2, Zenon
    <2> QED
      BY <2>2, <2>3
  <1> QED
    BY <1>4, <1>5

\* What the invariant says of a reader.
LEMMA JournalIsRead ==
    JournalInv => FlushedIsRead
  <1> SUFFICES ASSUME JournalInv PROVE Journal!FlushedIsRead
    BY DEF FlushedIsRead
  <1> DEFINE r == Journal!Read(file)
  <1>1. /\ file \in Seq(Piece) /\ buffer \in Seq(Piece) /\ appended \in Nat /\ kills \in Nat
        /\ row \in Nat /\ InOrder(Written, appended)
        /\ flushed \in SUBSET (1..appended) /\ \A n \in flushed : Stands(file, n)
        /\ row <= Cardinality(flushed)
        /\ kills = 0 => Regular(Written, appended) /\ \A k \in Nat : Len(file) # 3 * k + 1
    BY DEF JournalInv
  <1> HIDE DEF Piece
  <1>2. CASE \A k \in Journal!Begins(file) : Journal!IsEntry(file, k)
    <2>1. InOrder(file, appended)
      BY <1>1, PartInOrder DEF Written
    <2>2. /\ r \in Seq(1..appended)
          /\ \A n : Stands(file, n) => n \in ToSet(r)
          /\ \A i, j \in DOMAIN r : i < j => r[i] < r[j]
      BY <1>1, <1>2, <2>1, ReadAsWritten
    <2> HIDE DEF r
    <2>3. r # Journal!Unreadable
      <3> SUFFICES ASSUME r = Journal!Unreadable PROVE FALSE
        OBVIOUS
      <3>1. 1 \in DOMAIN r /\ r[1] = 0
        BY DEF Journal!Unreadable
      <3>2. r[1] \in 1..appended
        BY <2>2, <3>1, Members, Zenon
      <3> QED
        BY <1>1, <3>1, <3>2
    <2>4. flushed \in SUBSET ToSet(r)
      BY <1>1, <2>2
    <2>5. row <= Len(r)
      <3>1. Len(r) \in Nat /\ DOMAIN r = 1..Len(r)
        BY <2>2
      <3>2. IsFiniteSet(1..Len(r)) /\ Cardinality(1..Len(r)) = Len(r)
        <4>1. 1 \in Int /\ Len(r) \in Int /\ (1 > Len(r) => Len(r) = 0) /\ Len(r) - 1 + 1 = Len(r)
          BY <3>1
        <4>2. /\ IsFiniteSet(1..Len(r))
              /\ Cardinality(1..Len(r)) = IF 1 > Len(r) THEN 0 ELSE Len(r) - 1 + 1
          BY ONLY <4>1, FS_Interval
        <4> QED
          BY <4>1, <4>2
      <3>3. r \in Surjection(1..Len(r), ToSet(r))
        <4>1. r = [j \in 1..Len(r) |-> r[j]]
          BY <2>2, <3>1
        <4>2. \A j \in 1..Len(r) : r[j] \in ToSet(r)
          BY <3>1 DEF ToSet
        <4>3. r \in [1..Len(r) -> ToSet(r)]
          BY <4>1, <4>2
        <4>4. \A x \in ToSet(r) : \E j \in 1..Len(r) : r[j] = x
          BY <3>1 DEF ToSet
        <4> QED
          BY <4>3, <4>4 DEF Surjection
      <3>4. IsFiniteSet(ToSet(r)) /\ Cardinality(ToSet(r)) <= Len(r)
        BY <3>2, <3>3, FS_Surjection
      <3>5. IsFiniteSet(flushed) /\ Cardinality(flushed) <= Cardinality(ToSet(r))
        BY <2>4, <3>4, FS_Subset
      <3>6. Cardinality(flushed) \in Nat /\ Cardinality(ToSet(r)) \in Nat
        BY <3>4, <3>5, FS_CardinalityType
      <3> QED
        BY <1>1, <3>1, <3>4, <3>5, <3>6
    <2>6. \A n \in 0..Len(r) :
             Journal!ReadRange(r, 0, n) \o Journal!ReadRange(r, n, Len(r) + 1) = r
      BY <2>2, PagesMeet
    <2>7. flushed \subseteq Journal!ToSet(r)
      BY <2>4 DEF Journal!ToSet, ToSet
    <2> QED
      BY <2>2, <2>3, <2>5, <2>6, <2>7, Zenon DEF Journal!FlushedIsRead, r
  <1>3. CASE ~(\A k \in Journal!Begins(file) : Journal!IsEntry(file, k))
    <2>1. r = Journal!Unreadable
      BY <1>3, Zenon DEF Journal!Read
    <2>2. kills # 0
      BY <1>1, <1>3, RegularIsReadable DEF Written
    <2>3. kills > 0
      BY <1>1, <2>2
    <2> QED
      BY <2>1, <2>3, Zenon DEF Journal!FlushedIsRead
  <1> QED
    BY <1>2, <1>3

\* Where no write fails, whatever was flushed is read back once and in order,
\* whatever killed processes left in the file (session/: SessionWriter::create appends, SessionReader).
THEOREM FlushedAreRead == Spec => []FlushedIsRead
  <1>1. Init => JournalInv
    BY JournalInductive
  <1>2. JournalInv /\ [Next]_vars => JournalInv'
    BY JournalInductive
  <1>3. JournalInv => FlushedIsRead
    BY JournalIsRead
  <1> QED
    BY <1>1, <1>2, <1>3, PTL DEF Spec
=============================================================================
