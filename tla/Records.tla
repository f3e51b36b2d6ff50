------------------------------ MODULE Records ------------------------------
(***************************************************************************)
(* Records over HTTP (server/keys.go, batch.go, scan.go, ndjson.go and     *)
(* errors.go): bodies that arrive in pieces and may end anywhere, batches  *)
(* that are stored whole or not at all, ranges that are cut at a limit,    *)
(* and bytes that a JSON string cannot hold.                               *)
(*                                                                         *)
(* Bytes are a handful of values: text, and what is not.  A body is a      *)
(* sequence of lines, each of some size; what is counted in it is bytes.   *)
(***************************************************************************)
EXTENDS Integers, Sequences, SequencesExt, FiniteSetsExt

CONSTANTS
    Request,
    Text, Binary,  \* keys and values that are valid UTF-8, and that are not
    Empty,         \* no bytes at all, which is text
    Replacement,   \* U+FFFD, which is text too
    Surrogate,     \* a lone surrogate, which JSON can escape and UTF-8 cannot hold
    Oversized,     \* the values over -max-value
    Ordered,       \* keys in the order of the store
    Begins,        \* prefix -> the keys that begin with it
    Bodies,        \* batches a client may post
    Contents,      \* what the store may hold to begin with
    MaxBatch, MaxScan,
    Buffer,        \* the Scanner's starting buffer, 64 KiB
    Queries,       \* ranges a client may ask for
    Malformed,     \* what no field and no line says
    None

Bytes == Text \cup Binary

Record    == [value : Bytes, expires : BOOLEAN]
Operation == [op : {"write", "delete"}, key : Bytes, value : Bytes, expires : BOOLEAN]

\* A line of JSON: what sort of thing it is, and the fields of it.
Json == [shape    : {"object", "strayBrace", "unknownField"},
         op       : {"write", "delete", "", None},
         expires  : {"aTime", "notATime", None},
         key      : Bytes \cup {Surrogate, None},
         keyB64   : Bytes \cup {Malformed, None},
         value    : Bytes \cup {Surrogate, None},
         valueB64 : Bytes \cup {Malformed, None}]

\* A line of a body, or a blank one, with its newline if that was sent.
Line == [size : Nat \ {0}, ended : BOOLEAN, what : Json \cup {None}]

ASSUME RecordsAssumption ==
    /\ {Empty, Replacement} \subseteq Text /\ Text \cap Binary = {}
    /\ Surrogate \notin Bytes /\ Oversized \subseteq Bytes
    /\ {Malformed, None} \cap (Bytes \cup {Surrogate}) = {} /\ Malformed # None
    /\ None \notin Json \cup Operation \cup Record \cup {"aTime", "notATime"}
    /\ Ordered \in Seq(Bytes) /\ Range(Ordered) = Bytes
    /\ Contents \subseteq [Bytes -> Record \cup {None}]
    /\ \A b \in Bodies : b \in Seq(Line) /\ \A i \in 1..(Len(b) - 1) : b[i].ended
    /\ {MaxBatch, MaxScan, Buffer} \subseteq Nat \ {0}
    /\ Queries \subseteq [prefix : DOMAIN Begins \cup {None}, from : Bytes \cup {None},
                          to : Bytes \cup {None}, limit : Nat \cup {None}]

VARIABLES
    data,     \* key -> the record under it, or None
    healthy,  \* "open", "closed" or "fenced"
    guarded,  \* parseBatch has a MaxBytesReader in front of it
    doing,    \* request -> where its handler is
    status,   \* request -> what it was answered, 0 before
    body,     \* request -> the lines of its body
    copies,   \* request -> the range it posts back, if it does
    fed,      \* request -> what the Scanner has made of its body
    ops,      \* request -> the litekv.Batch, in order
    saw,      \* request -> the pairs its range was called back with
    answer    \* request -> the lines it was answered with

store    == <<data, healthy, guarded>>
requests == <<doing, status, body, copies, fed, ops, saw, answer>>
vars     == <<store, requests>>

(***************************************************************************)
(* ndjson.go.                                                              *)
(***************************************************************************)

\* Mutant of onTheWire: the encoder takes any bytes for a string.
onTheWireAsText(b) == [plain |-> IF b \in Text THEN b ELSE Replacement, coded |-> None]

onTheWire(b) == IF b \in Text THEN [plain |-> b, coded |-> None]
                              ELSE [plain |-> None, coded |-> b]

encodePair(p) ==
    LET key == onTheWire(p.key)  value == onTheWire(p.value)
    IN  [shape |-> "object", op |-> None, expires |-> None,
         key |-> key.plain, keyB64 |-> key.coded,
         value |-> value.plain, valueB64 |-> value.coded]

\* Malformed also for a coded form that is not base64url.
fromTheWire(plain, coded) ==
    IF plain # None /\ coded # None THEN Malformed
    ELSE IF coded # None             THEN coded
    ELSE IF plain = Surrogate        THEN Replacement
    ELSE IF plain # None             THEN plain
    ELSE Empty

\* decodePair: not text, not an object, a field it does not know, or a second
\* value.  More says no at a closing bracket, whatever comes after it.
decodable(p) == p.shape \in {"object", "strayBrace"}

\* addTo, for one line: the operation it says, or Malformed.
operation(p) ==
    LET key    == fromTheWire(p.key, p.keyB64)
        value  == fromTheWire(p.value, p.valueB64)
        reads  == CASE p.op = "write"  -> value # Malformed /\ p.expires # "notATime"
                    [] p.op = "delete" -> {p.value, p.valueB64, p.expires} = {None}
                    [] OTHER           -> FALSE
    IN  IF decodable(p) /\ key # Malformed /\ reads
        THEN [op |-> p.op, key |-> key, value |-> value, expires |-> p.expires # None]
        ELSE Malformed

\* litekv: what a batch does to the store, later records over earlier ones.
Effect(batch) ==
    LET after[i \in 0..Len(batch)] ==
          IF i = 0 THEN data
          ELSE [after[i - 1] EXCEPT ![batch[i].key] =
                   IF batch[i].op = "delete" THEN None
                   ELSE [value |-> batch[i].value, expires |-> batch[i].expires]]
    IN  after[Len(batch)]

(***************************************************************************)
(* errors.go: the errors a handler here can meet.                          *)
(***************************************************************************)

statusOf(err) ==
    CASE err = "fenced"               -> 409
      [] err \in {"tooLarge", "tooLong"} -> 413
      [] err = "closed"               -> 503
      [] err = "client"               -> 400
      [] OTHER                        -> 500

answers(r, code) ==
    /\ doing' = [doing EXCEPT ![r] = "answered"]
    /\ status' = [status EXCEPT ![r] = code]

(***************************************************************************)
(* POST /v1/batch.                                                         *)
(***************************************************************************)

\* How many bytes the first i lines of a body have.
upTo(b, i) ==
    LET bytes[j \in 0..Len(b)] == IF j = 0 THEN 0 ELSE bytes[j - 1] + b[j].size
    IN  bytes[i]
total(b)   == upTo(b, Len(b))

\* What of a line comes before its newline.
object(l) == IF l.ended THEN l.size - 1 ELSE l.size

pending(r) == fed[r].got - fed[r].used
next(r)    == body[r][fed[r].line]
hasLine(r) ==
    /\ fed[r].line <= Len(body[r])
    /\ next(r).ended /\ pending(r) >= next(r).size

\* Mutant of startingBuffer: no larger than the limit is forgotten.
startingBufferFixed == Buffer
startingBuffer == Min({Buffer, MaxBatch})

unread == [got |-> 0, used |-> 0, line |-> 1, cap |-> startingBuffer, err |-> "none"]

\* A range posted back, each pair of it a write.
copied(s) == [i \in DOMAIN answer[s] |->
                [size |-> 2, ended |-> TRUE,
                 what |-> [answer[s][i] EXCEPT !.op = "write"]]]

\* Its length may be declared, and is refused on that where there is a limit.
PostBatch(r) ==
    /\ doing[r] = "new"
    /\ \/ \E b \in Bodies : body' = [body EXCEPT ![r] = b] /\ UNCHANGED copies
       \/ \E s \in Request :
             /\ status[s] = 200
             /\ body' = [body EXCEPT ![r] = copied(s)]
             /\ copies' = [copies EXCEPT ![r] = s]
    /\ \/ doing' = [doing EXCEPT ![r] = "body"] /\ UNCHANGED status
       \/ guarded /\ total(body'[r]) > MaxBatch /\ answers(r, 413)
    /\ fed' = [fed EXCEPT ![r] = unread]
    /\ UNCHANGED <<store, ops, saw, answer>>

\* The Scanner reads when it has no line to hand out: as much as there is room
\* for, or less, with an error on the same call or on the next.
ReadBody(r) ==
    LET f     == fed[r]
        space == f.cap - pending(r)
        left  == Min({total(body[r]) - f.got} \cup
                     IF guarded THEN {MaxBatch - f.got} ELSE {})
    IN  /\ doing[r] = "body" /\ f.err = "none"
        /\ ~hasLine(r) /\ space > 0
        /\ \E k \in 0..Min({space, left}), err \in {"none", "EOF", "tooLarge", "gone"} :
              /\ err = "none" => k > 0
              /\ err = "EOF" => f.got + k = total(body[r])
              /\ err = "tooLarge" =>
                    guarded /\ f.got + k = MaxBatch /\ total(body[r]) > MaxBatch /\ k < space
              /\ fed' = [fed EXCEPT ![r] = [f EXCEPT !.got = @ + k, !.err = err]]
        /\ UNCHANGED <<store, doing, status, body, copies, ops, saw, answer>>

\* A full buffer without a newline in it is doubled, up to the limit.
Grow(r) ==
    LET f == fed[r]
    IN  /\ doing[r] = "body" /\ f.err = "none"
        /\ ~hasLine(r) /\ pending(r) = f.cap
        /\ fed' = [fed EXCEPT ![r] =
              IF f.cap >= MaxBatch THEN [f EXCEPT !.err = "tooLong"]
              ELSE [f EXCEPT !.cap = Min({2 * @, MaxBatch})]]
        /\ UNCHANGED <<store, doing, status, body, copies, ops, saw, answer>>

\* A line with its newline, or once there is an error what is left.
hasToken(r) ==
    \/ hasLine(r)
    \/ fed[r].err \notin {"none", "tooLong"} /\ pending(r) > 0

\* What the line says, cut short or not: None, Malformed or an operation.
said(r) ==
    IF next(r).what = None THEN None
    ELSE IF pending(r) >= object(next(r)) THEN operation(next(r).what)
    ELSE Malformed

\* The line is taken off the buffer, and what it said added to the batch.
takes(r) ==
    /\ LET f == fed[r]
       IN  fed' = [fed EXCEPT ![r] = [f EXCEPT !.line = @ + 1,
                                                !.used = Min({@ + next(r).size, f.got})]]
    /\ ops' = [ops EXCEPT ![r] = IF said(r) = None THEN @ ELSE Append(@, said(r))]

AddLine(r) ==
    /\ doing[r] = "body" /\ hasToken(r) /\ said(r) # Malformed
    /\ takes(r)
    /\ UNCHANGED <<store, doing, status, body, copies, saw, answer>>

\* Mutant of RefuseLine: the line is blamed whatever the reader has to say.
RefuseLineAlways(r) ==
    /\ doing[r] = "body" /\ hasToken(r) /\ said(r) = Malformed
    /\ answers(r, statusOf("client"))
    /\ UNCHANGED <<store, body, copies, fed, ops, saw, answer>>

\* What the reader has to say comes first.
RefuseLine(r) ==
    /\ doing[r] = "body" /\ hasToken(r) /\ said(r) = Malformed
    /\ answers(r, statusOf(IF fed[r].err \in {"none", "EOF"} THEN "client" ELSE fed[r].err))
    /\ UNCHANGED <<store, body, copies, fed, ops, saw, answer>>

\* Mutant of Parsed: a body that ended is a body that was read.
ParsedAnyhow(r) ==
    /\ doing[r] = "body" /\ fed[r].err # "none" /\ ~hasToken(r)
    /\ doing' = [doing EXCEPT ![r] = "parsed"]
    /\ UNCHANGED <<store, status, body, copies, fed, ops, saw, answer>>

\* Scan returns false.
Parsed(r) ==
    /\ doing[r] = "body" /\ fed[r].err # "none" /\ ~hasToken(r)
    /\ IF fed[r].err = "EOF"
       THEN doing' = [doing EXCEPT ![r] = "parsed"] /\ UNCHANGED status
       ELSE answers(r, statusOf(fed[r].err))
    /\ UNCHANGED <<store, body, copies, fed, ops, saw, answer>>

\* The writer's queue and the store: all of the batch, or an error and none.
Store(r) ==
    /\ doing[r] = "parsed"
    /\ IF healthy = "open"
       THEN data' = Effect(ops[r]) /\ answers(r, 204)
       ELSE answers(r, statusOf(healthy)) /\ UNCHANGED data
    /\ UNCHANGED <<healthy, guarded, body, copies, fed, ops, saw, answer>>

(***************************************************************************)
(* PUT, DELETE and GET of one key, which a path cannot spell if it is empty.*)
(***************************************************************************)

\* The expiry is read, then the body, up to -max-value; the client may go.
Put(r) ==
    /\ doing[r] = "new"
    /\ \E key \in Bytes \ {Empty}, value \in Bytes, expires \in {"", "aTime", "notATime"},
          gone \in BOOLEAN :
          LET err == IF expires = "notATime"     THEN "client"
                     ELSE IF value \in Oversized THEN "tooLarge"
                     ELSE IF gone                THEN "gone"
                     ELSE None
          IN  IF err # None THEN answers(r, statusOf(err)) /\ UNCHANGED ops
              ELSE /\ doing' = [doing EXCEPT ![r] = "parsed"]
                   /\ ops' = [ops EXCEPT ![r] = << [op |-> "write", key |-> key,
                                value |-> value, expires |-> expires # ""] >>]
                   /\ UNCHANGED status
    /\ UNCHANGED <<store, body, copies, fed, saw, answer>>

Delete(r) ==
    /\ doing[r] = "new"
    /\ \E key \in Bytes \ {Empty} :
          ops' = [ops EXCEPT ![r] = << [op |-> "delete", key |-> key,
                                        value |-> Empty, expires |-> FALSE] >>]
    /\ doing' = [doing EXCEPT ![r] = "parsed"]
    /\ UNCHANGED <<store, status, body, copies, fed, saw, answer>>

(***************************************************************************)
(* GET /v1/keys.                                                           *)
(***************************************************************************)

\* The limit it will stop at, or 0 for one that is refused.
scanned(limit) == CASE limit = None                 -> MaxScan
                    [] limit \in 1..MaxScan         -> limit
                    [] OTHER                        -> 0

\* litekv: the pairs under a prefix, or from one key to before another.
matches(q) ==
    LET at(k)  == CHOOSE i \in DOMAIN Ordered : Ordered[i] = k
        in(k)  == IF q.prefix # None THEN k \in Begins[q.prefix]
                  ELSE /\ q.from # None => at(q.from) <= at(k)
                       /\ q.to \notin {None, Empty} => at(k) < at(q.to)
        pair(k) == [key |-> k, value |-> data[k].value]
        found[i \in 0..Len(Ordered)] ==
          IF i = 0 THEN <<>>
          ELSE IF in(Ordered[i]) /\ data[Ordered[i]] # None
          THEN Append(found[i - 1], pair(Ordered[i]))
          ELSE found[i - 1]
    IN  found[Len(Ordered)]

\* The callback: it says stop at the pair that fills the answer.
over(pairs, limit) ==
    LET sent[i \in 0..Len(pairs)] ==
          IF i = 0 THEN <<>>
          ELSE IF i = 1 \/ i - 1 < limit THEN Append(sent[i - 1], pairs[i])
          ELSE sent[i - 1]
    IN  sent[Len(pairs)]

\* A range is called back under the store's read lock, and sent after it.
ScanKeys(r, q) ==
    LET refused == \/ scanned(q.limit) = 0
                   \/ q.prefix # None /\ {q.from, q.to} # {None}
    IN  /\ doing[r] = "new"
        /\ IF refused \/ healthy = "closed"
           THEN /\ answers(r, statusOf(IF refused THEN "client" ELSE "closed"))
                /\ UNCHANGED <<saw, answer>>
           ELSE /\ answers(r, 200)
                /\ saw' = [saw EXCEPT ![r] = over(matches(q), scanned(q.limit))]
                /\ answer' = [answer EXCEPT ![r] =
                                [i \in DOMAIN saw'[r] |-> encodePair(saw'[r][i])]]
        /\ UNCHANGED <<store, body, copies, fed, ops>>

(***************************************************************************)
(* The store, under all of them.                                           *)
(***************************************************************************)

Expire(k) ==
    /\ data[k] # None /\ data[k].expires
    /\ data' = [data EXCEPT ![k] = None]
    /\ UNCHANGED <<healthy, guarded, requests>>

Ends ==
    /\ healthy = "open"
    /\ healthy' \in {"closed", "fenced"}
    /\ UNCHANGED <<data, guarded, requests>>

Init ==
    /\ data \in Contents
    /\ healthy = "open"
    /\ guarded \in BOOLEAN
    /\ doing = [r \in Request |-> "new"]
    /\ status = [r \in Request |-> 0]
    /\ body = [r \in Request |-> <<>>]
    /\ copies = [r \in Request |-> None]
    /\ fed = [r \in Request |-> unread]
    /\ ops = [r \in Request |-> <<>>]
    /\ saw = [r \in Request |-> <<>>]
    /\ answer = [r \in Request |-> <<>>]

Handle(r) == \/ PostBatch(r) \/ ReadBody(r) \/ Grow(r) \/ AddLine(r) \/ RefuseLine(r)
             \/ Parsed(r) \/ Store(r) \/ Put(r) \/ Delete(r)
             \/ \E q \in Queries : ScanKeys(r, q)

Next == Ends \/ (\E k \in Bytes : Expire(k)) \/ (\E r \in Request : Handle(r))

Spec == Init /\ [][Next]_vars

(***************************************************************************)
(* Properties.                                                             *)
(***************************************************************************)

\* Every variable holds what its Go type lets it hold, and a Scanner's buffer
\* never grows past the limit its body is held to (batch.go 106).
TypeOK ==
    /\ \A k \in Bytes : data[k] = None \/ data[k].value \in Bytes
    /\ healthy \in {"open", "closed", "fenced"} /\ guarded \in BOOLEAN
    /\ doing \in [Request -> {"new", "body", "parsed", "answered"}]
    /\ status \in [Request -> {0, 200, 204, 400, 409, 413, 500, 503}]
    /\ \A r \in Request :
          /\ fed[r].used <= fed[r].got
          /\ fed[r].cap \in 1..MaxBatch /\ pending(r) <= fed[r].cap

\* The operations the lines of a batch are meant as, if every one says one: the
\* first i of them, and all.
wellFormed(b) == \A i \in DOMAIN b : b[i].what # None => operation(b[i].what) # Malformed
meantBy(b, i) ==
    LET says[j \in 0..Len(b)] ==
          IF j = 0 THEN <<>>
          ELSE IF b[j].what = None THEN says[j - 1]
          ELSE Append(says[j - 1], operation(b[j].what))
    IN  says[i]
meant(b) == meantBy(b, Len(b))

\* batch.go 17: a batch is stored all of it or none of it, torn neither on the
\* disk nor on the wire.  Whatever changes the store is a record that expires,
\* a request for one key, or a whole body, each line in its place, whose client
\* is told 204 by the same step.
AllOrNothing ==
    [][\A r \in Request :
          /\ status'[r] = 204 /\ status[r] # 204 /\ body[r] # <<>>
                => wellFormed(body[r]) /\ data' = Effect(meant(body[r]))
          /\ status'[r] # 204 /\ doing'[r] # doing[r] => data' = data]_vars

\* batch.go 113: what a client is told is what was wrong.  A line is blamed only
\* if it is wrong and was sent whole within the limit; the limit is blamed only
\* if the body, or a line of it, is as long as it.
BlamesTheRightThing ==
    \A r \in Request : LET b == body[r] IN
        b # <<>> =>
        /\ status[r] = 400 =>
              \E i \in DOMAIN b :
                 /\ b[i].what # None /\ operation(b[i].what) = Malformed
                 /\ guarded => upTo(b, i - 1) < MaxBatch
        /\ status[r] = 413 =>
              total(b) > MaxBatch \/ \E i \in DOMAIN b : b[i].size >= MaxBatch
        /\ status[r] = 204 => \A i \in DOMAIN b : object(b[i]) <= MaxBatch

\* ndjson.go 23: bytes are never lost on the way out or on the way in.  A range
\* posted back as a batch writes the keys and values the store had.
RoundTrip ==
    \A r \in Request : copies[r] # None /\ status[r] = 204 =>
        LET was == saw[copies[r]]
        IN  ops[r] = [i \in DOMAIN was |->
                [op |-> "write", key |-> was[i].key, value |-> was[i].value,
                 expires |-> FALSE]]

\* batch.go 89: "a body is at most max bytes, so a line cannot honestly be
\* longer": a body within the limit is never refused for its length.
NeverTooLargeWithinTheLimit ==
    \A r \in Request : status[r] = 413 /\ body[r] # <<>> =>
        \/ total(body[r]) > MaxBatch
        \/ \E i \in DOMAIN body[r] : body[r][i].size > MaxBatch

\* ndjson.go 156: "A second JSON value on the line is refused."
OneValueOnALine ==
    \A r \in Request : status[r] = 204 =>
        \A i \in DOMAIN body[r] :
           body[r][i].what # None => body[r][i].what.shape # "strayBrace"
=============================================================================
