-------------------------------- MODULE Resp --------------------------------
(***************************************************************************)
(* The reader of the redis protocol (src/pkg/proxy/resp.go): copyRESP      *)
(* relays one reply of a node, readCommand reads one command of a client,  *)
(* both line by line through readLine.                                     *)
(*                                                                         *)
(* The reader knows one number, the values still to come.  The peer is the *)
(* reference: it nests values as the protocol says, with what it still     *)
(* owes on every level, and may at any time send something malformed, go   *)
(* past a limit or break off.  A line is its type and its number.          *)
(***************************************************************************)
EXTENDS Integers

CONSTANTS
  maxRESPElements, maxBulkLen, maxLineLen,  \* the limits of resp.go
  BufSize,    \* the buffer of bufio.Reader: the longest slice of ReadSlice
  Lengths,    \* the numbers a line can carry
  MaxDepth,   \* bound: how deep the peer nests
  MaxExtras   \* bound: attribute and push lines per reply

ASSUME RespAssumption ==
  /\ maxRESPElements \in Nat /\ maxBulkLen \in Nat /\ maxLineLen \in Nat
  /\ BufSize \in Nat \ {0} /\ Lengths \subseteq Int
  /\ MaxDepth \in Nat \ {0} /\ MaxExtras \in Nat

VARIABLES
  fn,         \* the function that reads: "copyRESP" or "readCommand"
  pc,         \* "peek", "line", "payload", "ok", "error" or "inline"
  lineLen,    \* readLine: len(line) so far
  remaining,  \* values still to read; n - i in the loop of readCommand
  blob,       \* the announced length of the payload being read
  raw,        \* readCommand: raw.Len()
  owed,       \* peer: the values it still owes on each level
  depth,      \* peer: the innermost level that is open, 0 when all is sent
  extras,     \* peer: attribute and push lines sent
  skew,       \* bytes of a payload that the reader has left unread
  clean       \* history: the peer kept to the protocol and to the limits

vars == <<fn, pc, lineLen, remaining, blob, raw, owed, depth, extras, skew, clean>>

Level == 1 .. MaxDepth
Counted == {"blob", "array", "map", "attribute", "push"}
Line == [type : Counted, n : Lengths]
          \cup [type : {"single", "garbled", "unknown"}, n : {0}]

Init ==
  /\ fn \in {"copyRESP", "readCommand"}
  /\ pc = IF fn = "copyRESP" THEN "line" ELSE "peek"
  /\ lineLen = 0 /\ blob = 0 /\ raw = 0
  /\ remaining = 1
  /\ owed = [i \in Level |-> IF i = 1 THEN 1 ELSE 0] /\ depth = 1
  /\ extras = 0 /\ skew = 0 /\ clean = TRUE

-----------------------------------------------------------------------------
(***************************************************************************)
(* The peer.                                                               *)
(***************************************************************************)
Positive(n) == IF n > 0 THEN n ELSE 0

\* A push or an attribute comes before the value that is owed; every other
\* line is that value.
Extra(ln) == ln.type \in {"attribute", "push"}

\* The values that follow the line one level down.
Children(ln) ==
  CASE ln.type \in {"array", "push"} -> Positive(ln.n)
    [] ln.type \in {"map", "attribute"} -> 2 * Positive(ln.n)
    [] OTHER -> 0

\* The line is one the protocol knows, with a number within the limits.
Proper(ln) ==
  /\ ln.type \notin {"garbled", "unknown"}
  /\ ln.n <= IF ln.type = "blob" THEN maxBulkLen ELSE maxRESPElements

Sends(ln) ==
  /\ depth > 0 /\ owed[depth] > 0
  /\ Extra(ln) => extras < MaxExtras
  /\ ln.type = "push" => depth = 1
  /\ extras' = IF Extra(ln) THEN extras + 1 ELSE extras
  /\ LET left == IF Extra(ln) THEN owed[depth] ELSE owed[depth] - 1
     IN \/ /\ Children(ln) = 0
           /\ owed' = [owed EXCEPT ![depth] = left]
           /\ UNCHANGED depth
        \/ /\ Children(ln) > 0 /\ depth < MaxDepth
           /\ owed' = [owed EXCEPT ![depth] = left, ![depth + 1] = Children(ln)]
           /\ depth' = depth + 1

\* The last value of a level is sent: the peer is back on the level above.
PeerCloses ==
  /\ depth > 0 /\ owed[depth] = 0
  /\ depth' = depth - 1
  /\ UNCHANGED <<fn, pc, lineLen, remaining, blob, raw, owed, extras, skew, clean>>

-----------------------------------------------------------------------------
(***************************************************************************)
(* readLine.                                                               *)
(***************************************************************************)
Fails ==
  /\ pc' = "error"
  /\ UNCHANGED <<fn, remaining, blob, raw, owed, depth, extras, skew>>

LineLimitIgnored(len) == FALSE

\* len(line) > maxLineLen
LineTooLong(len) == len > maxLineLen

\* ReadSlice fills its buffer without finding the end of the line, so the line
\* has at least one more byte.
FillBuffer ==
  /\ pc = "line"
  /\ lineLen' = lineLen + BufSize
  /\ clean' = (clean /\ lineLen' < maxLineLen)
  /\ \/ /\ LineTooLong(lineLen')
        /\ Fails
     \/ /\ ~LineTooLong(lineLen')
        /\ UNCHANGED <<fn, pc, remaining, blob, raw, owed, depth, extras, skew>>

\* The line ends r bytes into the buffer, but it is too short or has no \r.
BadLine ==
  /\ pc = "line"
  /\ Fails
  /\ clean' = FALSE
  /\ UNCHANGED lineLen

\* The line ends r bytes into the buffer and is well-formed.
GoodLine(r) ==
  /\ pc = "line" /\ lineLen + r >= 3
  /\ lineLen' = 0

\* EOF, a deadline, or (copyRESP) a failed Write.
Breaks ==
  /\ pc \in {"peek", "line", "payload"}
  /\ Fails
  /\ clean' = FALSE
  /\ UNCHANGED lineLen

-----------------------------------------------------------------------------
(***************************************************************************)
(* copyRESP.                                                               *)
(***************************************************************************)
TooManyOrEqual(ln) ==
  \/ ln.type = "blob" /\ ln.n > maxBulkLen
  \/ ln.type \in Counted \ {"blob"} /\ ln.n >= maxRESPElements

\* The number of the line exceeds the limit for its type.
TooMany(ln) ==
  \/ ln.type = "blob" /\ ln.n > maxBulkLen
  \/ ln.type \in Counted \ {"blob"} /\ ln.n > maxRESPElements

\* parseRESPInt fails, or the switch has no case for the type.
Unreadable(ln) == ln.type \in {"garbled", "unknown"}

PushIsReply(ln) ==
  remaining' = CASE ln.type \in {"array", "push"} -> remaining - 1 + Positive(ln.n)
                 [] ln.type = "map" -> remaining - 1 + 2 * Positive(ln.n)
                 [] ln.type = "attribute" -> remaining + 2 * Positive(ln.n)

\* remaining after an aggregate, an attribute or a push.
CountElements(ln) ==
  remaining' = CASE ln.type = "array" -> remaining - 1 + Positive(ln.n)
                 [] ln.type = "map" -> remaining - 1 + 2 * Positive(ln.n)
                 [] ln.type = "attribute" -> remaining + 2 * Positive(ln.n)
                 [] ln.type = "push" -> remaining + Positive(ln.n)

\* for remaining > 0
LoopEnds(left) == IF left > 0 THEN "line" ELSE "ok"

\* The reply goes wrong.  The line itself has been relayed.
CopyBadLine(ln, r) ==
  /\ fn = "copyRESP" /\ GoodLine(r)
  /\ TooMany(ln) \/ Unreadable(ln)
  /\ Fails
  /\ clean' = (clean /\ Proper(ln))

CopyLine(ln, r) ==
  /\ fn = "copyRESP" /\ GoodLine(r)
  /\ ~TooMany(ln) /\ ~Unreadable(ln)
  /\ Sends(ln)
  /\ clean' = (clean /\ Proper(ln))
  /\ \/ /\ ln.type = "single" \/ (ln.type = "blob" /\ ln.n < 0)
        /\ remaining' = remaining - 1
        /\ pc' = LoopEnds(remaining')
        /\ UNCHANGED blob
     \/ /\ ln.type = "blob" /\ ln.n >= 0
        /\ blob' = ln.n
        /\ pc' = "payload"
        /\ UNCHANGED remaining
     \/ /\ ln.type \in Counted \ {"blob"}
        /\ CountElements(ln)
        /\ pc' = LoopEnds(remaining')
        /\ UNCHANGED blob
  /\ UNCHANGED <<fn, raw, skew>>

-----------------------------------------------------------------------------
(***************************************************************************)
(* readCommand.                                                            *)
(***************************************************************************)
Peek ==
  /\ pc = "peek"
  /\ pc' \in {"line", "inline"}
  /\ UNCHANGED <<fn, lineLen, remaining, blob, raw, owed, depth, extras, skew, clean>>

\* The first line; Peek has seen its '*'.
CommandHeader(ln, r) ==
  /\ fn = "readCommand" /\ raw = 0 /\ GoodLine(r)
  /\ raw' = lineLen + r
  /\ \/ /\ ln.type = "garbled" \/ (ln.type = "array" /\ TooMany(ln))
        /\ pc' = "error"
        /\ UNCHANGED <<remaining, owed, depth, extras>>
     \/ /\ ln.type = "array" /\ ~TooMany(ln)
        /\ Sends(ln)
        /\ remaining' = Positive(ln.n)
        /\ pc' = LoopEnds(remaining')
  /\ clean' = (clean /\ Proper(ln))
  /\ UNCHANGED <<fn, blob, skew>>

\* l < 0 || l > maxBulkLen
BadBulkLen(l) == l < 0 \/ l > maxBulkLen

\* The line of an argument.
CommandArg(ln, r) ==
  /\ fn = "readCommand" /\ raw > 0 /\ GoodLine(r)
  /\ raw' = raw + lineLen + r
  /\ \/ /\ ln.type # "blob" \/ BadBulkLen(ln.n)
        /\ pc' = "error"
        /\ UNCHANGED <<blob, owed, depth, extras>>
     \/ /\ ln.type = "blob" /\ ~BadBulkLen(ln.n)
        /\ Sends(ln)
        /\ blob' = ln.n
        /\ pc' = "payload"
  /\ clean' = (clean /\ Proper(ln) /\ ln.type = "blob" /\ ln.n >= 0)
  /\ UNCHANGED <<fn, remaining, skew>>

\* What is read of a payload: its \r\n too.
PayloadLen(n) == n + 2

\* io.CopyN relays a payload of a reply, io.ReadFull keeps one of a command.
ReadPayload ==
  /\ pc = "payload"
  /\ remaining' = remaining - 1
  /\ pc' = LoopEnds(remaining')
  /\ raw' = IF fn = "readCommand" THEN raw + PayloadLen(blob) ELSE raw
  /\ skew' = skew + (blob + 2) - PayloadLen(blob)
  /\ blob' = 0
  /\ UNCHANGED <<fn, lineLen, owed, depth, extras, clean>>

-----------------------------------------------------------------------------
Next ==
  \/ PeerCloses \/ FillBuffer \/ BadLine \/ Breaks \/ Peek \/ ReadPayload
  \/ \E ln \in Line, r \in 1 .. BufSize :
       CopyBadLine(ln, r) \/ CopyLine(ln, r) \/ CommandHeader(ln, r) \/ CommandArg(ln, r)

Spec == Init /\ [][Next]_vars

-----------------------------------------------------------------------------
(***************************************************************************)
(* Properties.                                                             *)
(***************************************************************************)
\* Every variable has its type.
TypeOK ==
  /\ fn \in {"copyRESP", "readCommand"}
  /\ pc \in {"peek", "line", "payload", "ok", "error", "inline"}
  /\ lineLen \in Nat /\ remaining \in Nat /\ blob \in Nat /\ raw \in Nat
  /\ owed \in [Level -> Nat] /\ depth \in 0 .. MaxDepth
  /\ extras \in Nat /\ skew \in Int /\ clean \in BOOLEAN

\* One number is enough to follow any nesting: copyRESP and readCommand return
\* when the peer owes nothing more on any level, neither in the middle of a
\* reply nor waiting for a line that is not to come, and they leave no byte of
\* a payload behind.  Otherwise every later reply of the connection would go
\* to the wrong command.
ReadsExactlyOne ==
  /\ pc = "ok" => (\A i \in Level : owed[i] = 0) /\ skew = 0
  /\ depth = 0 => pc \notin {"peek", "line"}

\* A peer that keeps to the protocol and to the limits is never refused: the
\* limits are inclusive, nulls and empty aggregates are values, and a long line
\* is put together from several buffers.
AcceptsWellFormed == clean => pc # "error"

LineBound == maxLineLen + BufSize

\* What the proxy holds of a peer's data is bounded: a line passes its limit by
\* at most one buffer, and a command holds at most maxRESPElements arguments.
BufferBounded ==
  /\ lineLen <= LineBound
  /\ raw <= LineBound + maxRESPElements * (LineBound + maxBulkLen + 2)
=============================================================================
