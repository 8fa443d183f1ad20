----------------------------- MODULE RespProofs -----------------------------
(***************************************************************************)
(* Theorems about Resp, for every nesting depth, every set of numbers and  *)
(* every value of the limits.                                              *)
(*                                                                         *)
(* The reader has one number and the peer a stack of them.  The invariant  *)
(* relates the two by the partial sums of the stack: a function S whose    *)
(* last value is the number.  S is changed at one level and shifted above  *)
(* it by every line, so no induction over the depth is needed.             *)
(***************************************************************************)
EXTENDS Resp, TLAPS

\* S holds the sums of o from the outermost level; the levels above d are
\* empty, and all of them together owe t.
Tally(S, o, d, t) ==
  /\ S \in [0 .. MaxDepth -> Nat]
  /\ S[0] = 0
  /\ \A i \in Level : S[i] = S[i - 1] + o[i]
  /\ \A i, j \in 0 .. MaxDepth : i <= j => S[i] <= S[j]
  /\ \A i \in d .. MaxDepth : S[i] = t

\* What the reader still has to see of the peer's values: the payload of a blob
\* is counted when it has been read.
Outstanding == IF pc = "payload" THEN remaining - 1 ELSE remaining

RespInv ==
  /\ TypeOK
  /\ skew = 0
  /\ pc \in {"peek", "line", "payload"} => remaining > 0
  /\ pc = "ok" => remaining = 0
  /\ fn = "readCommand" /\ raw = 0 /\ pc \in {"peek", "line"} => remaining = 1
  /\ fn = "copyRESP" => pc # "peek"
  /\ pc = "peek" => raw = 0
  /\ fn = "readCommand" /\ pc \in {"payload", "ok"} => raw > 0
  /\ pc \in {"peek", "line", "payload", "ok"} =>
       \E S : Tally(S, owed, depth, Outstanding)

-----------------------------------------------------------------------------
\* The peer leaves a level on which it owes nothing.
LEMMA TallyCloses ==
  ASSUME NEW S, NEW o \in [Level -> Nat], NEW d \in Level, NEW t \in Nat,
         Tally(S, o, d, t), o[d] = 0
  PROVE  Tally(S, o, d - 1, t)
<1>1. /\ MaxDepth \in Nat /\ d \in 1 .. MaxDepth
      /\ d \in d .. MaxDepth /\ d - 1 \in 0 .. MaxDepth
  BY RespAssumption DEF Level
<1>2. S[d] = t /\ S[d] = S[d - 1] + o[d] /\ S[d - 1] \in Nat
  BY <1>1 DEF Tally
<1>3. S[d - 1] = t
  BY <1>2
<1>4. \A i \in d - 1 .. MaxDepth : i = d - 1 \/ i \in d .. MaxDepth
  BY <1>1
<1>. QED
  BY <1>3, <1>4 DEF Tally

\* The peer sends a line on level d that leaves l values owed there, and k one
\* level down.
LEMMA TallySends ==
  ASSUME NEW S, NEW o \in [Level -> Nat], NEW d \in Level, NEW t \in Nat,
         Tally(S, o, d, t),
         NEW l \in Nat, l <= o[d], NEW k \in Nat, NEW e \in Level,
         k = 0 => e = d, k > 0 => e = d + 1,
         NEW p \in [Level -> Nat],
         \A i \in Level : i # d /\ i # e => p[i] = o[i],
         p[d] = l, k > 0 => p[e] = k
  PROVE  \E T : Tally(T, p, e, t - o[d] + l + k)
<1>1. MaxDepth \in Nat /\ d \in 1 .. MaxDepth /\ e \in 1 .. MaxDepth
  BY RespAssumption DEF Level
<1>2. /\ S \in [0 .. MaxDepth -> Nat] /\ S[0] = 0
      /\ \A i \in Level : S[i] = S[i - 1] + o[i]
      /\ \A i, j \in 0 .. MaxDepth : i <= j => S[i] <= S[j]
      /\ \A i \in d .. MaxDepth : S[i] = t
  BY DEF Tally
<1>3. S[d] = t /\ S[d - 1] \in Nat /\ o[d] \in Nat /\ t = S[d - 1] + o[d]
  BY <1>1, <1>2
<1>4. PICK u \in Nat : u = t - o[d] + l /\ u = S[d - 1] + l
  BY <1>3
<1> DEFINE T == [i \in 0 .. MaxDepth |->
                   IF i < d THEN S[i] ELSE IF i = d THEN u ELSE u + k]
<1>5. T \in [0 .. MaxDepth -> Nat] /\ T[0] = 0
  <2>1. \A i \in 0 .. MaxDepth : S[i] \in Nat
    BY <1>2
  <2>2. T \in [0 .. MaxDepth -> Nat]
    BY <2>1, <1>4
  <2>3. T[0] = S[0]
    BY <1>1
  <2>. QED
    BY <2>2, <2>3, <1>2
<1>6. /\ \A i \in 0 .. MaxDepth : i < d => T[i] = S[i]
      /\ T[d] = u
      /\ \A i \in 0 .. MaxDepth : i > d => T[i] = u + k
  BY <1>1
<1> HIDE DEF T
<1>7. \A i \in Level : i > d => o[i] = 0
  <2>1. TAKE i \in Level
  <2>2. HAVE i > d
  <2>3. i \in d .. MaxDepth /\ i - 1 \in d .. MaxDepth
    BY <1>1, <2>2 DEF Level
  <2>4. S[i] = t /\ S[i - 1] = t /\ S[i] = S[i - 1] + o[i] /\ o[i] \in Nat
    BY <1>2, <2>3
  <2>. QED
    BY <2>4
<1>8. \A i \in Level : T[i] = T[i - 1] + p[i]
  <2>1. TAKE i \in Level
  <2>2. i \in 1 .. MaxDepth /\ i \in 0 .. MaxDepth /\ i - 1 \in 0 .. MaxDepth
    BY <1>1 DEF Level
  <2>3. CASE i < d
    <3>1. T[i] = S[i] /\ T[i - 1] = S[i - 1]
      BY <1>1, <1>6, <2>2, <2>3
    <3>2. p[i] = o[i]
      BY <1>1, <2>2, <2>3
    <3>. QED
      BY <3>1, <3>2, <1>2
  <2>4. CASE i = d
    <3>1. T[i - 1] = S[d - 1]
      BY <1>1, <1>6, <2>2, <2>4
    <3>. QED
      BY <3>1, <1>3, <1>4, <1>6, <2>4
  <2>5. CASE i = d + 1
    <3>1. T[i] = u + k /\ T[i - 1] = u
      BY <1>1, <1>6, <2>2, <2>5
    <3>2. p[i] = k
      BY <1>1, <1>7, <2>2, <2>5
    <3>. QED
      BY <3>1, <3>2
  <2>6. CASE i > d + 1
    <3>1. T[i] = u + k /\ T[i - 1] = u + k
      BY <1>1, <1>6, <2>2, <2>6
    <3>2. p[i] = 0
      BY <1>1, <1>7, <2>2, <2>6
    <3>. QED
      BY <3>1, <3>2
  <2>. QED
    BY <1>1, <2>2, <2>3, <2>4, <2>5, <2>6
<1>9. \A i, j \in 0 .. MaxDepth : i <= j => T[i] <= T[j]
  <2>1. ASSUME NEW i \in 0 .. MaxDepth, i < d
        PROVE  S[i] <= S[d - 1] /\ S[i] \in Nat
    <3>1. d - 1 \in 0 .. MaxDepth /\ i <= d - 1
      BY <1>1, <2>1
    <3>. QED
      BY <1>2, <3>1
  <2>2. \A i \in 0 .. MaxDepth : i < d => T[i] <= u
    BY <1>3, <1>4, <1>6, <2>1
  <2>3. TAKE i, j \in 0 .. MaxDepth
  <2>4. HAVE i <= j
  <2>5. CASE j < d
    <3>1. i < d
      BY <1>1, <2>4, <2>5
    <3>. QED
      BY <3>1, <1>2, <1>6, <2>4, <2>5
  <2>6. CASE j = d
    BY <1>1, <1>6, <2>2, <2>4, <2>6
  <2>7. CASE j > d
    <3>1. T[j] = u + k
      BY <1>6, <2>7
    <3>2. T[i] <= u \/ T[i] = u + k
      BY <1>1, <1>6, <2>2
    <3>. QED
      BY <1>5, <3>1, <3>2
  <2>. QED
    BY <1>1, <2>5, <2>6, <2>7
<1>10. \A i \in e .. MaxDepth : T[i] = u + k
  <2>1. TAKE i \in e .. MaxDepth
  <2>2. i \in 0 .. MaxDepth /\ (i > d \/ (i = d /\ k = 0))
    BY <1>1
  <2>. QED
    BY <2>2, <1>6
<1>11. Tally(T, p, e, u + k)
  BY <1>5, <1>8, <1>9, <1>10 DEF Tally
<1>. QED
  BY <1>4, <1>11

\* Nothing is owed on any level when nothing is owed altogether.
LEMMA TallyZero ==
  ASSUME NEW S, NEW o \in [Level -> Nat], NEW d \in 0 .. MaxDepth,
         Tally(S, o, d, 0)
  PROVE  \A i \in Level : o[i] = 0
<1>1. TAKE i \in Level
<1>2. /\ i \in 0 .. MaxDepth /\ i - 1 \in 0 .. MaxDepth
      /\ MaxDepth \in d .. MaxDepth /\ MaxDepth \in 0 .. MaxDepth /\ i <= MaxDepth
  BY RespAssumption DEF Level
<1>3. S[MaxDepth] = 0 /\ S[i] <= S[MaxDepth] /\ S[i - 1] \in Nat /\ S[i] \in Nat
  BY <1>2 DEF Tally
<1>4. S[i] = S[i - 1] + o[i] /\ o[i] \in Nat
  BY DEF Tally
<1>. QED
  BY <1>3, <1>4

-----------------------------------------------------------------------------
\* The number of a line is an integer.
LEMMA LineNumber == \A ln \in Line : ln.n \in Int
<1>1. TAKE ln \in Line
<1>2. CASE ln \in [type : Counted, n : Lengths]
  <2>1. ln.n \in Lengths
    BY <1>2
  <2>. QED
    BY <2>1, RespAssumption, Zenon
<1>3. CASE ln \in [type : {"single", "garbled", "unknown"}, n : {0}]
  BY <1>3
<1>. QED
  BY <1>2, <1>3 DEF Line

\* How a line changes what the peer owes.
LEMMA SendsTally ==
  ASSUME TypeOK, NEW ln \in Line, Sends(ln), NEW S, NEW t \in Nat,
         Tally(S, owed, depth, t)
  PROVE  /\ owed' \in [Level -> Nat] /\ depth' \in 1 .. MaxDepth /\ extras' \in Nat
         /\ Children(ln) \in Nat /\ t > 0
         /\ \E T : Tally(T, owed', depth',
                         (IF Extra(ln) THEN t ELSE t - 1) + Children(ln))
<1> DEFINE l == IF Extra(ln) THEN owed[depth] ELSE owed[depth] - 1
           k == Children(ln)
<1>1. depth \in Level /\ owed \in [Level -> Nat] /\ owed[depth] \in Nat \ {0}
  BY DEF TypeOK, Sends, Level
<1>2. k \in Nat
  <2>1. Positive(ln.n) \in Nat
    <3>1. ln.n \in Int
      BY LineNumber
    <3>. QED
      BY <3>1 DEF Positive
  <2>. QED
    BY <2>1 DEF Children
<1>3. l \in Nat /\ l <= owed[depth]
  BY <1>1
<1>4. t > 0
  <2>1. S[depth] = t /\ S[depth] = S[depth - 1] + owed[depth] /\ S[depth - 1] \in Nat
    BY <1>1, RespAssumption DEF Tally, Level
  <2>. QED
    BY <2>1, <1>1
<1>5. extras' \in Nat
  BY DEF TypeOK, Sends
<1>6. /\ owed' \in [Level -> Nat] /\ depth' \in Level
      /\ k = 0 => depth' = depth
      /\ k > 0 => depth' = depth + 1 /\ owed'[depth'] = k
      /\ owed'[depth] = l
      /\ \A i \in Level : i # depth /\ i # depth' => owed'[i] = owed[i]
  <2>1. CASE k = 0
    <3>1. owed' = [owed EXCEPT ![depth] = l] /\ depth' = depth
      BY <2>1 DEF Sends
    <3>. QED
      BY <3>1, <2>1, <1>1, <1>3
  <2>2. CASE k > 0
    <3>1. /\ owed' = [owed EXCEPT ![depth] = l, ![depth + 1] = k]
          /\ depth' = depth + 1 /\ depth < MaxDepth
      BY <2>2 DEF Sends
    <3>2. depth + 1 \in Level /\ depth + 1 # depth
      BY <3>1, <1>1, RespAssumption DEF Level
    <3>. QED
      BY <3>1, <3>2, <2>2, <1>1, <1>2, <1>3
  <2>. QED
    BY <2>1, <2>2, <1>2
<1>7. \E T : Tally(T, owed', depth', t - owed[depth] + l + k)
  BY <1>1, <1>2, <1>3, <1>6, TallySends
<1>8. t - owed[depth] + l = IF Extra(ln) THEN t ELSE t - 1
  BY <1>1
<1>. QED
  BY <1>2, <1>4, <1>5, <1>6, <1>7, <1>8 DEF Level

-----------------------------------------------------------------------------
\* Init establishes the invariant.
LEMMA RespInit == Init => RespInv
<1> SUFFICES ASSUME Init PROVE RespInv
  OBVIOUS
<1> DEFINE S == [i \in 0 .. MaxDepth |-> IF i = 0 THEN 0 ELSE 1]
<1>1. TypeOK
  BY RespAssumption DEF Init, TypeOK, Level
<1>2. Tally(S, owed, depth, 1)
  <2>1. S \in [0 .. MaxDepth -> Nat] /\ S[0] = 0
    BY RespAssumption
  <2>2. \A i \in Level : S[i] = S[i - 1] + owed[i]
    BY RespAssumption DEF Init, Level
  <2>3. \A i, j \in 0 .. MaxDepth : i <= j => S[i] <= S[j]
    BY RespAssumption
  <2>4. \A i \in depth .. MaxDepth : S[i] = 1
    BY RespAssumption DEF Init
  <2>. QED
    BY <2>1, <2>2, <2>3, <2>4, Zenon DEF Tally
<1>3. Outstanding = 1
  BY DEF Init, Outstanding
<1>. QED
  BY <1>1, <1>2, <1>3 DEF Init, RespInv

\* A line that the reader counts like the peer keeps the two in step.
LEMMA LineInStep ==
  ASSUME RespInv, NEW ln \in Line, Sends(ln), pc = "line",
         Outstanding' = (IF Extra(ln) THEN remaining ELSE remaining - 1) + Children(ln)
  PROVE  /\ owed' \in [Level -> Nat] /\ depth' \in 0 .. MaxDepth /\ extras' \in Nat
         /\ Outstanding' \in Nat
         /\ \E T : Tally(T, owed', depth', Outstanding')
<1>1. PICK S : Tally(S, owed, depth, remaining)
  BY DEF RespInv, Outstanding
<1>2. TypeOK /\ remaining \in Nat /\ remaining > 0
  BY DEF RespInv, TypeOK
<1>3. /\ owed' \in [Level -> Nat] /\ depth' \in 1 .. MaxDepth /\ extras' \in Nat
      /\ Children(ln) \in Nat
      /\ \E T : Tally(T, owed', depth',
                      (IF Extra(ln) THEN remaining ELSE remaining - 1) + Children(ln))
  BY <1>1, <1>2, SendsTally
<1>. QED
  BY <1>2, <1>3, RespAssumption

\* Every step keeps the invariant.
LEMMA RespStep == RespInv /\ [Next]_vars => RespInv'
<1> SUFFICES ASSUME RespInv, [Next]_vars PROVE RespInv'
  OBVIOUS
<1>1. CASE PeerCloses
  <2>1. TypeOK'
    BY <1>1, RespAssumption DEF PeerCloses, RespInv, TypeOK
  <2>2. depth \in Level /\ owed \in [Level -> Nat] /\ owed[depth] = 0
    BY <1>1 DEF PeerCloses, RespInv, TypeOK, Level
  <2>3. ASSUME pc \in {"peek", "line", "payload", "ok"}
        PROVE  \E T : Tally(T, owed', depth', Outstanding')
    <3>1. PICK S : Tally(S, owed, depth, Outstanding)
      BY <2>3 DEF RespInv
    <3>2. Outstanding \in Nat
      BY DEF RespInv, TypeOK, Outstanding
    <3>3. Tally(S, owed, depth - 1, Outstanding)
      BY <2>2, <3>1, <3>2, TallyCloses
    <3>4. Outstanding' = Outstanding /\ owed' = owed /\ depth' = depth - 1
      BY <1>1 DEF PeerCloses, Outstanding
    <3>. QED
      BY <3>3, <3>4
  <2>. QED
    BY <1>1, <2>1, <2>3 DEF PeerCloses, RespInv
<1>2. CASE FillBuffer
  <2>1. TypeOK'
    BY <1>2, RespAssumption DEF FillBuffer, Fails, RespInv, TypeOK
  <2>2. Outstanding' = Outstanding
    BY <1>2 DEF FillBuffer, Fails, Outstanding
  <2>. QED
    BY <1>2, <2>1, <2>2 DEF FillBuffer, Fails, RespInv
<1>3. CASE BadLine \/ Breaks
  BY <1>3, Zenon DEF BadLine, Breaks, Fails, RespInv, TypeOK
<1>4. CASE Peek
  <2>1. Outstanding' = Outstanding
    BY <1>4 DEF Peek, Outstanding
  <2>. QED
    BY <1>4, <2>1 DEF Peek, RespInv, TypeOK
<1>5. CASE ReadPayload
  <2>1. TypeOK' /\ skew' = 0
    BY <1>5 DEF ReadPayload, RespInv, TypeOK, PayloadLen, LoopEnds
  <2>2. Outstanding' = Outstanding
    BY <1>5 DEF ReadPayload, Outstanding, LoopEnds
  <2>3. fn = "readCommand" => raw' > 0
    BY <1>5 DEF ReadPayload, RespInv, TypeOK, PayloadLen
  <2>. QED
    BY <1>5, <2>1, <2>2, <2>3 DEF ReadPayload, RespInv, TypeOK, LoopEnds
<1>6. ASSUME NEW ln \in Line, NEW r \in 1 .. BufSize, CopyBadLine(ln, r)
      PROVE  RespInv'
  BY <1>6 DEF CopyBadLine, GoodLine, Fails, RespInv, TypeOK
<1>7. ASSUME NEW ln \in Line, NEW r \in 1 .. BufSize, CopyLine(ln, r)
      PROVE  RespInv'
  <2>1. pc = "line" /\ Sends(ln) /\ remaining \in Nat /\ ln.n \in Int
    BY <1>7, LineNumber DEF CopyLine, GoodLine, RespInv, TypeOK
  <2>2. Outstanding' = (IF Extra(ln) THEN remaining ELSE remaining - 1) + Children(ln)
    <3>1. CASE ln.type = "single" \/ (ln.type = "blob" /\ ln.n < 0)
      BY <1>7, <2>1, <3>1 DEF CopyLine, Outstanding, LoopEnds, Extra, Children, Counted
    <3>2. CASE ln.type = "blob" /\ ln.n >= 0
      BY <1>7, <2>1, <3>2 DEF CopyLine, Outstanding, Extra, Children, Counted
    <3>3. CASE ln.type \in Counted \ {"blob"}
      BY <1>7, <2>1, <3>3 DEF CopyLine, CountElements, Outstanding, LoopEnds, Extra,
                              Children, Counted, Positive
    <3>. QED
      BY <1>7, <3>1, <3>2, <3>3 DEF CopyLine
  <2>3. /\ owed' \in [Level -> Nat] /\ depth' \in 0 .. MaxDepth /\ extras' \in Nat
        /\ Outstanding' \in Nat
        /\ \E T : Tally(T, owed', depth', Outstanding')
    BY <2>1, <2>2, LineInStep
  <2>4. /\ fn' = "copyRESP" /\ raw' = raw /\ skew' = skew /\ lineLen' = 0
        /\ clean' \in BOOLEAN
    BY <1>7 DEF CopyLine, GoodLine
  <2>5. /\ pc' \in {"line", "payload", "ok"} /\ blob' \in Nat /\ remaining' \in Nat
        /\ pc' \in {"line", "payload"} => remaining' > 0
        /\ pc' = "ok" => remaining' = 0
    <3>1. CASE ln.type = "blob" /\ ln.n >= 0
      BY <1>7, <2>1, <3>1 DEF CopyLine, RespInv, TypeOK, Counted
    <3>2. CASE ~(ln.type = "blob" /\ ln.n >= 0)
      <4>1. pc' = LoopEnds(remaining') /\ blob' = blob
        BY <1>7, <3>2 DEF CopyLine
      <4>2. remaining' \in Nat
        BY <4>1, <2>3 DEF Outstanding, LoopEnds
      <4>. QED
        BY <4>1, <4>2 DEF LoopEnds, RespInv, TypeOK
    <3>. QED
      BY <3>1, <3>2
  <2>. QED
    BY <2>3, <2>4, <2>5 DEF RespInv, TypeOK
<1>8. ASSUME NEW ln \in Line, NEW r \in 1 .. BufSize, CommandHeader(ln, r)
      PROVE  RespInv'
  <2>1. /\ pc = "line" /\ fn = "readCommand" /\ fn' = fn /\ lineLen' = 0
        /\ lineLen \in Nat /\ raw' \in Nat /\ raw' > 0
        /\ blob' = blob /\ skew' = skew /\ clean' \in BOOLEAN
        /\ remaining = 1 /\ ln.n \in Int
    BY <1>8, RespAssumption, LineNumber DEF CommandHeader, GoodLine, RespInv, TypeOK
  <2>2. CASE pc' = "error"
    <3>1. UNCHANGED <<remaining, owed, depth, extras>>
      BY <1>8, <2>2 DEF CommandHeader, LoopEnds
    <3>. QED
      BY <2>1, <2>2, <3>1 DEF RespInv, TypeOK
  <2>3. CASE pc' # "error"
    <3>1. /\ Sends(ln) /\ ln.type = "array" /\ remaining' = Positive(ln.n)
          /\ pc' = LoopEnds(remaining')
      BY <1>8, <2>3 DEF CommandHeader
    <3>2. Outstanding' = (IF Extra(ln) THEN remaining ELSE remaining - 1) + Children(ln)
      BY <2>1, <3>1 DEF Outstanding, LoopEnds, Extra, Children, Positive
    <3>3. /\ owed' \in [Level -> Nat] /\ depth' \in 0 .. MaxDepth /\ extras' \in Nat
          /\ \E T : Tally(T, owed', depth', Outstanding')
      BY <2>1, <3>1, <3>2, LineInStep
    <3>4. remaining' \in Nat
      BY <2>1, <3>1 DEF Positive
    <3>. QED
      BY <2>1, <3>1, <3>3, <3>4 DEF RespInv, TypeOK, LoopEnds
  <2>. QED
    BY <2>2, <2>3
<1>9. ASSUME NEW ln \in Line, NEW r \in 1 .. BufSize, CommandArg(ln, r)
      PROVE  RespInv'
  <2>1. /\ pc = "line" /\ fn = "readCommand" /\ fn' = fn /\ lineLen' = 0
        /\ raw' \in Nat /\ raw' > 0
        /\ remaining' = remaining /\ skew' = skew /\ clean' \in BOOLEAN
        /\ remaining \in Nat /\ remaining > 0 /\ ln.n \in Int
    BY <1>9, RespAssumption, LineNumber DEF CommandArg, GoodLine, RespInv, TypeOK
  <2>2. CASE pc' = "error"
    <3>1. UNCHANGED <<blob, owed, depth, extras>>
      BY <1>9, <2>2 DEF CommandArg
    <3>. QED
      BY <2>1, <2>2, <3>1 DEF RespInv, TypeOK
  <2>3. CASE pc' # "error"
    <3>1. /\ Sends(ln) /\ ln.type = "blob" /\ ~BadBulkLen(ln.n) /\ blob' = ln.n
          /\ pc' = "payload"
      BY <1>9, <2>3 DEF CommandArg
    <3>2. Outstanding' = (IF Extra(ln) THEN remaining ELSE remaining - 1) + Children(ln)
      BY <2>1, <3>1 DEF Outstanding, Extra, Children
    <3>3. /\ owed' \in [Level -> Nat] /\ depth' \in 0 .. MaxDepth /\ extras' \in Nat
          /\ \E T : Tally(T, owed', depth', Outstanding')
      BY <2>1, <3>1, <3>2, LineInStep
    <3>4. blob' \in Nat
      BY <2>1, <3>1 DEF BadBulkLen
    <3>. QED
      BY <2>1, <3>1, <3>3, <3>4 DEF RespInv, TypeOK
  <2>. QED
    BY <2>2, <2>3
<1>10. CASE UNCHANGED vars
  <2>1. Outstanding' = Outstanding
    BY <1>10 DEF vars, Outstanding
  <2>. QED
    BY <1>10, <2>1 DEF vars, RespInv, TypeOK
<1>. QED
  BY <1>1, <1>2, <1>3, <1>4, <1>5, <1>6, <1>7, <1>8, <1>9, <1>10 DEF Next

\* ReadsExactlyOne follows from the invariant.
LEMMA RespInvExact == RespInv => ReadsExactlyOne
<1> SUFFICES ASSUME RespInv PROVE ReadsExactlyOne
  OBVIOUS
<1>1. ASSUME pc = "ok" PROVE \A i \in Level : owed[i] = 0
  <2>1. PICK S : Tally(S, owed, depth, 0)
    BY <1>1 DEF RespInv, Outstanding
  <2>. QED
    BY <2>1, TallyZero DEF RespInv, TypeOK
<1>2. ASSUME depth = 0 PROVE pc \notin {"peek", "line"}
  <2>1. SUFFICES ASSUME pc \in {"peek", "line"} PROVE FALSE
    OBVIOUS
  <2>2. PICK S : Tally(S, owed, 0, remaining)
    BY <1>2, <2>1 DEF RespInv, Outstanding
  <2>3. S[0] = 0 /\ S[0] = remaining
    BY <2>2, RespAssumption DEF Tally
  <2>. QED
    BY <2>1, <2>3 DEF RespInv, TypeOK
<1>. QED
  BY <1>1, <1>2 DEF RespInv, ReadsExactlyOne

\* copyRESP and readCommand take exactly one reply or command from the stream,
\* whatever its nesting, its attributes and the push messages before it.
THEOREM ExactlyOne == Spec => []ReadsExactlyOne
<1>1. Init => RespInv
  BY RespInit
<1>2. RespInv /\ [Next]_vars => RespInv'
  BY RespStep
<1>3. RespInv => ReadsExactlyOne
  BY RespInvExact
<1>. QED
  BY <1>1, <1>2, <1>3, PTL DEF Spec

-----------------------------------------------------------------------------
\* A peer that keeps to the protocol and to the limits is never refused,
\* whatever the limits are.
THEOREM WellFormedAccepted == Spec => []AcceptsWellFormed
<1>1. Init => AcceptsWellFormed
  BY DEF Init, AcceptsWellFormed
<1>2. RespInv /\ AcceptsWellFormed /\ [Next]_vars => AcceptsWellFormed'
  <2> SUFFICES ASSUME RespInv, AcceptsWellFormed, [Next]_vars PROVE AcceptsWellFormed'
    OBVIOUS
  <2>1. CASE PeerCloses
    BY <2>1 DEF PeerCloses, AcceptsWellFormed
  <2>2. CASE FillBuffer
    <3>1. lineLen' \in Nat
      BY <2>2, RespAssumption DEF FillBuffer, RespInv, TypeOK
    <3>2. clean' => lineLen' < maxLineLen
      BY <2>2, Zenon DEF FillBuffer
    <3>3. pc' = "error" => lineLen' > maxLineLen
      BY <2>2 DEF FillBuffer, LineTooLong
    <3>. QED
      BY <3>1, <3>2, <3>3, RespAssumption DEF AcceptsWellFormed
  <2>3. CASE BadLine \/ Breaks
    BY <2>3 DEF BadLine, Breaks, AcceptsWellFormed
  <2>4. CASE Peek \/ ReadPayload
    BY <2>4, Zenon DEF Peek, ReadPayload, LoopEnds, AcceptsWellFormed
  <2>5. ASSUME NEW ln \in Line, NEW r \in 1 .. BufSize, CopyBadLine(ln, r)
        PROVE  AcceptsWellFormed'
    <3>1. ln.n \in Int
      BY LineNumber
    <3>2. ~Proper(ln)
      <4>1. TooMany(ln) \/ Unreadable(ln)
        BY <2>5 DEF CopyBadLine
      <4>2. CASE ln.type = "blob" /\ ln.n > maxBulkLen
        BY <4>2, <3>1, RespAssumption DEF Proper
      <4>3. CASE ln.type # "blob" /\ ln.n > maxRESPElements
        BY <4>3, <3>1, RespAssumption DEF Proper
      <4>. QED
        BY <4>1, <4>2, <4>3 DEF TooMany, Unreadable, Proper
    <3>. QED
      BY <2>5, <3>2, Zenon DEF CopyBadLine, AcceptsWellFormed
  <2>6. ASSUME NEW ln \in Line, NEW r \in 1 .. BufSize, CopyLine(ln, r)
        PROVE  AcceptsWellFormed'
    BY <2>6 DEF CopyLine, LoopEnds, AcceptsWellFormed
  <2>7. ASSUME NEW ln \in Line, NEW r \in 1 .. BufSize, CommandHeader(ln, r)
        PROVE  AcceptsWellFormed'
    <3>1. ln.n \in Int
      BY LineNumber
    <3>2. pc' = "error" => ~Proper(ln)
      BY <2>7, <3>1, RespAssumption
      DEF CommandHeader, TooMany, Proper, Counted, LoopEnds
    <3>. QED
      BY <2>7, <3>2, Zenon DEF CommandHeader, AcceptsWellFormed
  <2>8. ASSUME NEW ln \in Line, NEW r \in 1 .. BufSize, CommandArg(ln, r)
        PROVE  AcceptsWellFormed'
    <3>1. ln.n \in Int
      BY LineNumber
    <3>2. pc' = "error" => ~(Proper(ln) /\ ln.type = "blob" /\ ln.n >= 0)
      BY <2>8, <3>1, RespAssumption DEF CommandArg, BadBulkLen, Proper
    <3>. QED
      BY <2>8, <3>2, Zenon DEF CommandArg, AcceptsWellFormed
  <2>9. CASE UNCHANGED vars
    BY <2>9 DEF vars, AcceptsWellFormed
  <2>. QED
    BY <2>1, <2>2, <2>3, <2>4, <2>5, <2>6, <2>7, <2>8, <2>9 DEF Next
<1>. QED
  BY <1>1, <1>2, RespInit, RespStep, PTL DEF Spec

-----------------------------------------------------------------------------
\* What one argument can add to raw.
ArgBound == LineBound + maxBulkLen + 2

\* The arguments still to come fit under the bound.
RoomInv ==
  /\ lineLen <= LineBound
  /\ pc = "line" => lineLen <= maxLineLen
  /\ pc \in {"peek", "payload", "ok"} => lineLen = 0
  /\ pc = "payload" => blob <= maxBulkLen
  /\ fn = "copyRESP" => raw = 0
  /\ fn = "readCommand" /\ raw > 0 =>
       /\ pc \in {"line", "ok"} =>
            raw + remaining * ArgBound <= LineBound + maxRESPElements * ArgBound
       /\ pc = "payload" =>
            raw + blob + 2 + (remaining - 1) * ArgBound
              <= LineBound + maxRESPElements * ArgBound
  /\ raw <= LineBound + maxRESPElements * ArgBound

\* Two facts of arithmetic that the steps below use.
LEMMA Products ==
  ASSUME NEW w \in Nat
  PROVE  /\ \A a \in Nat \ {0} : (a - 1) * w \in Nat /\ a * w = (a - 1) * w + w
         /\ \A a, b \in Nat : a <= b => a * w <= b * w /\ a * w \in Nat
<1>1. \A a, b \in Nat : a * b \in Nat
  OBVIOUS
<1>2. \A a \in Nat \ {0} : (a - 1) * w \in Nat /\ a * w = (a - 1) * w + w
  <2>1. TAKE a \in Nat \ {0}
  <2>2. (a - 1) * w \in Nat
    BY <1>1
  <2>3. a * w = (a - 1) * w + w
    OBVIOUS
  <2>. QED
    BY <2>2, <2>3
<1>3. \A a, b \in Nat : a <= b => a * w <= b * w /\ a * w \in Nat
  <2>1. TAKE a, b \in Nat
  <2>2. HAVE a <= b
  <2>3. (b - a) * w \in Nat /\ a * w \in Nat /\ b - a \in Nat
    BY <1>1, <2>2
  <2>4. b * w = (b - a) * w + a * w
    OBVIOUS
  <2>. QED
    BY <2>3, <2>4
<1>. QED
  BY <1>2, <1>3

\* Every step keeps RoomInv.
LEMMA RoomStep == RespInv /\ RoomInv /\ [Next]_vars => RoomInv'
<1> SUFFICES ASSUME RespInv, RoomInv, [Next]_vars PROVE RoomInv'
  OBVIOUS
<1> DEFINE Most == LineBound + maxRESPElements * ArgBound
<1>1. /\ LineBound \in Nat /\ ArgBound \in Nat /\ maxRESPElements \in Nat
      /\ BufSize \in Nat /\ maxLineLen \in Nat /\ maxBulkLen \in Nat
      /\ LineBound = maxLineLen + BufSize /\ ArgBound = LineBound + maxBulkLen + 2
  BY RespAssumption DEF LineBound, ArgBound
<1>2. Most \in Nat
  BY <1>1, Products
<1> HIDE DEF Most
<1>3. /\ lineLen \in Nat /\ raw \in Nat /\ remaining \in Nat /\ blob \in Nat
      /\ fn \in {"copyRESP", "readCommand"}
  BY DEF RespInv, TypeOK
<1>4. /\ lineLen <= LineBound /\ raw <= Most
      /\ pc = "line" => lineLen <= maxLineLen
      /\ pc \in {"peek", "payload", "ok"} => lineLen = 0
      /\ pc = "payload" => blob <= maxBulkLen
      /\ fn = "copyRESP" => raw = 0
      /\ fn = "readCommand" /\ raw > 0 /\ pc \in {"line", "ok"} =>
           raw + remaining * ArgBound <= Most
      /\ fn = "readCommand" /\ raw > 0 /\ pc = "payload" =>
           raw + blob + 2 + (remaining - 1) * ArgBound <= Most
  BY DEF RoomInv, Most
<1>5. ASSUME
        /\ lineLen' <= LineBound /\ raw' <= Most
        /\ pc' = "line" => lineLen' <= maxLineLen
        /\ pc' \in {"peek", "payload", "ok"} => lineLen' = 0
        /\ pc' = "payload" => blob' <= maxBulkLen
        /\ fn' = "copyRESP" => raw' = 0
        /\ fn' = "readCommand" /\ raw' > 0 /\ pc' \in {"line", "ok"} =>
             raw' + remaining' * ArgBound <= Most
        /\ fn' = "readCommand" /\ raw' > 0 /\ pc' = "payload" =>
             raw' + blob' + 2 + (remaining' - 1) * ArgBound <= Most
      PROVE RoomInv'
  BY <1>5 DEF RoomInv, Most
<1>6. CASE PeerCloses \/ UNCHANGED vars
  BY <1>4, <1>5, <1>6 DEF PeerCloses, vars
<1>7. CASE FillBuffer
  BY <1>1, <1>3, <1>4, <1>5, <1>7 DEF FillBuffer, LineTooLong, Fails
<1>8. CASE BadLine \/ Breaks
  BY <1>4, <1>5, <1>8 DEF BadLine, Breaks, Fails
<1>9. CASE Peek
  <2>1. raw = 0
    BY <1>9 DEF Peek, RespInv
  <2>. QED
    BY <1>1, <1>4, <1>5, <1>9, <2>1 DEF Peek
<1>10. CASE ReadPayload
  <2>1. /\ pc = "payload" /\ remaining > 0 /\ remaining' = remaining - 1
        /\ pc' \in {"line", "ok"} /\ lineLen' = 0 /\ fn' = fn
        /\ raw' = IF fn = "readCommand" THEN raw + blob + 2 ELSE raw
    BY <1>3, <1>4, <1>10 DEF ReadPayload, RespInv, LoopEnds, PayloadLen
  <2>2. fn = "readCommand" => raw > 0
    BY <2>1 DEF RespInv
  <2>3. (remaining - 1) * ArgBound \in Nat
    BY <1>1, <1>3, <2>1, Products
  <2>4. fn = "readCommand" => raw + blob + 2 + (remaining - 1) * ArgBound <= Most
    BY <1>4, <2>1, <2>2
  <2>. QED
    BY <1>1, <1>2, <1>3, <1>4, <1>5, <2>1, <2>3, <2>4
<1>11. ASSUME NEW ln \in Line, NEW r \in 1 .. BufSize, CopyBadLine(ln, r)
       PROVE  RoomInv'
  BY <1>1, <1>4, <1>5, <1>11 DEF CopyBadLine, GoodLine, Fails
<1>12. ASSUME NEW ln \in Line, NEW r \in 1 .. BufSize, CopyLine(ln, r)
       PROVE  RoomInv'
  <2>1. fn = "copyRESP" /\ fn' = fn /\ raw' = raw /\ lineLen' = 0
    BY <1>12 DEF CopyLine, GoodLine
  <2>2. pc' = "payload" => blob' <= maxBulkLen
    <3>1. ln.n \in Int
      BY LineNumber
    <3>2. pc' = "payload" => blob' = ln.n /\ ln.type = "blob"
      BY <1>12 DEF CopyLine, LoopEnds
    <3>3. ~TooMany(ln)
      BY <1>12 DEF CopyLine
    <3>. QED
      BY <1>1, <3>1, <3>2, <3>3 DEF TooMany
  <2>. QED
    BY <1>1, <1>4, <1>5, <2>1, <2>2
<1>13. ASSUME NEW ln \in Line, NEW r \in 1 .. BufSize, CommandHeader(ln, r)
       PROVE  RoomInv'
  <2>1. /\ pc = "line" /\ fn = "readCommand" /\ fn' = fn /\ lineLen' = 0
        /\ raw' = lineLen + r
    BY <1>13 DEF CommandHeader, GoodLine
  <2>2. raw' \in Nat /\ raw' <= LineBound
    BY <1>1, <1>3, <1>4, <2>1
  <2>3. maxRESPElements * ArgBound \in Nat /\ Most = LineBound + maxRESPElements * ArgBound
    BY <1>1, Products DEF Most
  <2>4. CASE pc' = "error"
    BY <1>1, <1>5, <2>1, <2>2, <2>3, <2>4
  <2>5. CASE pc' # "error"
    <3>1. /\ ln.type = "array" /\ ~TooMany(ln) /\ remaining' = Positive(ln.n)
          /\ pc' \in {"line", "ok"}
      BY <1>13, <2>5 DEF CommandHeader, LoopEnds
    <3>2. remaining' \in Nat /\ remaining' <= maxRESPElements
      BY <1>1, <3>1, LineNumber DEF TooMany, Counted, Positive
    <3>3. /\ remaining' * ArgBound <= maxRESPElements * ArgBound
          /\ remaining' * ArgBound \in Nat
      BY <1>1, <3>2, Products, Zenon
    <3>4. raw' + remaining' * ArgBound <= Most /\ raw' <= Most
      BY <1>1, <2>2, <2>3, <3>3
    <3>. QED
      BY <1>1, <1>5, <2>1, <3>1, <3>4
  <2>. QED
    BY <2>4, <2>5
<1>14. ASSUME NEW ln \in Line, NEW r \in 1 .. BufSize, CommandArg(ln, r)
       PROVE  RoomInv'
  <2>1. /\ pc = "line" /\ fn = "readCommand" /\ fn' = fn /\ lineLen' = 0 /\ raw > 0
        /\ raw' = raw + lineLen + r /\ remaining' = remaining
        /\ pc' \in {"error", "payload"} /\ remaining > 0
    BY <1>14 DEF CommandArg, GoodLine, RespInv
  <2>2. raw' \in Nat /\ raw' <= raw + LineBound
    BY <1>1, <1>3, <1>4, <2>1
  <2>3. /\ (remaining - 1) * ArgBound \in Nat
        /\ remaining * ArgBound = (remaining - 1) * ArgBound + ArgBound
    BY <1>1, <1>3, <2>1, Products
  <2>4. raw + (remaining - 1) * ArgBound + ArgBound <= Most
    BY <1>1, <1>2, <1>3, <1>4, <2>1, <2>3
  <2>5. raw' <= Most
    BY <1>1, <1>2, <1>3, <2>2, <2>3, <2>4
  <2>6. pc' = "payload" => blob' \in Nat /\ blob' <= maxBulkLen
    <3>1. pc' = "payload" => blob' = ln.n /\ ~BadBulkLen(ln.n)
      BY <1>14 DEF CommandArg
    <3>. QED
      BY <1>1, <3>1, LineNumber DEF BadBulkLen
  <2>7. pc' = "payload" => raw' + blob' + 2 + (remaining' - 1) * ArgBound <= Most
    BY <1>1, <1>2, <1>3, <2>1, <2>2, <2>3, <2>4, <2>6
  <2>. QED
    BY <1>1, <1>5, <2>1, <2>5, <2>6, <2>7
<1>. QED
  BY <1>5, <1>6, <1>7, <1>8, <1>9, <1>10, <1>11, <1>12, <1>13, <1>14 DEF Next

\* What the proxy holds of a line or of a command is bounded by the limits of
\* the protocol, for any limits and any size of the read buffer.
THEOREM BoundedBuffers == Spec => []BufferBounded
<1>1. Init => RoomInv
  <2>1. LineBound \in Nat /\ ArgBound \in Nat /\ maxRESPElements * ArgBound \in Nat
    BY RespAssumption, Products DEF LineBound, ArgBound
  <2>. QED
    BY <2>1, RespAssumption DEF Init, RoomInv
<1>2. RoomInv => BufferBounded
  BY DEF RoomInv, BufferBounded, ArgBound
<1>. QED
  BY <1>1, <1>2, RespInit, RespStep, RoomStep, PTL DEF Spec
=============================================================================
