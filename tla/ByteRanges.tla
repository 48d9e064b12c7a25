------------------------------ MODULE ByteRanges ------------------------------
(***************************************************************************)
(* The part of a file a download is answered with (objects/download.go): a *)
(* Range header is a sequence of parts "first-last", where either position *)
(* may be absent.  An interrupted download is resumed with "bytes=k-".     *)
(***************************************************************************)
EXTENDS Integers, Sequences

CONSTANTS
    Absent,    \* an empty position: "500-", "-500"
    Malformed  \* a part without exactly one "-", or with no number in it

ASSUME AbsentAssumption == Absent \notin Int

Position == Nat \cup {Absent}
WellFormed == [first : Position, last : Position]
Part == WellFormed \cup {Malformed}

ASSUME MalformedAssumption == Malformed \notin WellFormed

-----------------------------------------------------------------------------
(***************************************************************************)
(* parseRange and the answer of ServeFile.                                 *)
(***************************************************************************)

\* "-n" is the last n bytes, "k-" everything from k on; positions are int64
\* and never negative, for a second "-" makes the part malformed.
Start(p, size) ==
    IF p.first # Absent THEN p.first
    ELSE IF size - p.last < 0 THEN 0 ELSE size - p.last

End(p, size) ==
    IF p.first # Absent /\ p.last # Absent THEN p.last ELSE size - 1

Parses(p, size) ==
    /\ p # Malformed
    /\ p.first # Absent \/ p.last # Absent
    /\ Start(p, size) >= 0
    /\ End(p, size) < size
    /\ Start(p, size) <= End(p, size)

\* One part that does not parse refuses the whole header, and so do several.
Served(header, size) ==
    /\ \A i \in DOMAIN header : Parses(header[i], size)
    /\ Len(header) = 1

Refused == [status |-> 416, from |-> 0, length |-> 0]

\* The file is copied from the start on (Seek), for the length of the range
\* (CopyN), which is also the Content-Length.
Answer(header, size) ==
    IF Served(header, size)
    THEN [status |-> 206,
          from   |-> Start(header[1], size),
          length |-> End(header[1], size) - Start(header[1], size) + 1]
    ELSE Refused

-----------------------------------------------------------------------------
(***************************************************************************)
(* What a header asks for, by the meaning of a range of positions: the     *)
(* bytes of the file that lie in it.                                       *)
(***************************************************************************)
Positions(size) == 0 .. size - 1

Meant(p, size) ==
    {x \in Positions(size) :
        IF p.first = Absent THEN x + p.last >= size
        ELSE p.first <= x /\ (p.last = Absent \/ x <= p.last)}

Sent(a) == {x \in Nat : a.from <= x /\ x < a.from + a.length}

AsksSomething(p) == p \in WellFormed /\ (p.first # Absent \/ p.last # Absent)

\* A position beyond the end of the file is not cut off at its end.
ReachesBeyond(p, size) == p.first # Absent /\ p.last # Absent /\ p.last >= size
=============================================================================
