----------------------------- MODULE MCRecords -----------------------------
(***************************************************************************)
(* Small instances of Records.  A write or a delete is two bytes before    *)
(* its newline, so a batch of five bytes is two lines, the last one open.  *)
(***************************************************************************)
EXTENDS Records, TLC

pair(op, key, value) ==
    [shape |-> "object", op |-> op, key |-> key, keyB64 |-> None,
     value |-> value, valueB64 |-> None, expires |-> None]

put     == pair("write", "a", "a")
expiring == [put EXCEPT !.expires = "aTime", !.value = Empty]
coded   == [put EXCEPT !.value = None, !.valueB64 = "bin"]
unnamed == [put EXCEPT !.key = None, !.value = None]   \* the empty key and value
gone    == pair("delete", "a", None)
carries == pair("delete", "a", "a")                    \* a delete with a value
twice   == [put EXCEPT !.keyB64 = "bin"]               \* both spellings of a key
nothing == pair("", "a", "a")
dated   == [put EXCEPT !.expires = "notATime"]
padded  == [coded EXCEPT !.valueB64 = Malformed]
typo    == [put EXCEPT !.shape = "unknownField"]

line(what) == [size |-> 3, ended |-> TRUE, what |-> what]
last(what) == [size |-> 2, ended |-> FALSE, what |-> what]
blank      == [size |-> 1, ended |-> TRUE, what |-> None]
long(n)    == [size |-> n, ended |-> FALSE, what |-> put]
longer(n)  == [size |-> n, ended |-> TRUE, what |-> put]

WellFormed == {<<line(put), last(gone)>>, <<line(gone), last(coded)>>, <<blank, line(expiring)>>,
               <<last(unnamed)>>, <<line(put), line(gone)>>, <<line(put), blank, line(coded)>>}
IllFormed  == {<<line(put), last(w)>> : w \in {carries, twice, nothing, typo}}
              \cup {<<line(w), line(put)>> : w \in {dated, padded}}
TooLong    == {<<long(5)>>, <<long(6)>>, <<longer(5)>>, <<longer(6)>>, <<line(put), longer(6)>>}
Bracketed  == {<<last([put EXCEPT !.shape = "strayBrace"])>>}
Escaped    == {<<last([put EXCEPT !.value = Surrogate])>>}
Posted     == WellFormed \cup IllFormed \cup TooLong \cup Bracketed \cup Escaped

\* In the order of their bytes.
Keys == <<"", "a", "fffd", "bin">>

held(v) == [value |-> v, expires |-> FALSE]
Held == {[k \in Bytes |-> None],
         [k \in Bytes |-> held(IF k = "bin" THEN "a" ELSE "bin")]}

Beginning == [p \in {"", "a"} |-> IF p = "" THEN Bytes ELSE {"a"}]

all == [prefix |-> None, from |-> None, to |-> None, limit |-> None]
Asked == {all} \cup {[all EXCEPT !.limit = n] : n \in {0, 1, 2, 4}}
         \cup {[all EXCEPT !.prefix = "a"], [all EXCEPT !.prefix = "", !.limit = 2],
               [all EXCEPT !.prefix = "a", !.to = "bin"],
               [all EXCEPT !.from = "a", !.to = "bin"], [all EXCEPT !.from = "bin", !.to = ""]}

Symmetry == Permutations(Request)
=============================================================================
