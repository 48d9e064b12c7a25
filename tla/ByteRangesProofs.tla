-------------------------- MODULE ByteRangesProofs --------------------------
(***************************************************************************)
(* What every Range header is answered with, for files of every size.      *)
(***************************************************************************)
EXTENDS ByteRanges, TLAPS

(***************************************************************************)
(* The bytes an accepted header is answered with are some bytes of the     *)
(* file, and exactly those it asks for (download.go:157).                  *)
(***************************************************************************)
THEOREM AnswerIsMeant ==
    ASSUME NEW header \in Seq(Part), NEW size \in Nat,
           Answer(header, size).status = 206
    PROVE  /\ Answer(header, size).length > 0
           /\ Sent(Answer(header, size)) = Meant(header[1], size)
           /\ Meant(header[1], size) \subseteq Positions(size)
<1> DEFINE p == header[1]
           a == Answer(header, size)
<1>1. Served(header, size)
  BY DEF Answer, Refused
<1>2. Len(header) = 1 /\ 1 \in DOMAIN header /\ Parses(p, size)
  BY <1>1 DEF Served
<1>3. p \in WellFormed
  BY <1>2 DEF Parses, Part
<1>4. p.first \in Position /\ p.last \in Position
  BY <1>3 DEF WellFormed
<1>5. Start(p, size) \in Nat /\ End(p, size) \in Int
  BY <1>2, <1>4, AbsentAssumption DEF Start, End, Position, Parses
<1>6. /\ a.from = Start(p, size)
      /\ a.length = End(p, size) - Start(p, size) + 1
  BY <1>1 DEF Answer
<1>7. a.length > 0
  BY <1>2, <1>5, <1>6 DEF Parses
<1>8. ASSUME NEW x \in Nat
      PROVE  x \in Sent(a) <=> x \in Meant(p, size)
  <2>1. x \in Sent(a) <=> Start(p, size) <= x /\ x <= End(p, size)
    BY <1>5, <1>6 DEF Sent
  <2>2. x \in Meant(p, size) <=> Start(p, size) <= x /\ x <= End(p, size)
    BY <1>2, <1>4, AbsentAssumption
    DEF Meant, Positions, Start, End, Parses, Position
  <2> QED BY <2>1, <2>2
<1>9. Meant(p, size) \subseteq Positions(size) /\ Positions(size) \subseteq Nat
  BY DEF Meant, Positions
<1>10. Sent(a) \subseteq Nat
  BY DEF Sent
<1> QED BY <1>7, <1>8, <1>9, <1>10

(***************************************************************************)
(* When a single range is refused: it is no range, it asks for no byte of  *)
(* the file, or it reaches beyond the file's end, though some of the bytes *)
(* it asks for are there (download.go:188).                                *)
(***************************************************************************)
THEOREM RefusedExactly ==
    ASSUME NEW p \in Part, NEW size \in Nat
    PROVE  Answer(<<p>>, size).status = 416 <=>
              \/ ~AsksSomething(p)
              \/ Meant(p, size) = {}
              \/ ReachesBeyond(p, size)
<1>1. Answer(<<p>>, size).status = 416 <=> ~Parses(p, size)
  BY DEF Answer, Refused, Served
<1>2. CASE ~AsksSomething(p)
  <2>1. ~Parses(p, size)
    BY <1>2 DEF AsksSomething, Parses, Part
  <2> QED BY <1>1, <1>2, <2>1
<1>3. CASE AsksSomething(p)
  <2>1. /\ p \in WellFormed
        /\ p # Malformed
        /\ p.first \in Position /\ p.last \in Position
        /\ p.first # Absent \/ p.last # Absent
    BY <1>3, MalformedAssumption DEF AsksSomething, WellFormed
  <2>2. Start(p, size) \in Nat /\ End(p, size) \in Int
    BY <2>1, AbsentAssumption DEF Start, End, Position
  <2>3. ASSUME Parses(p, size)
        PROVE  Meant(p, size) # {} /\ ~ReachesBeyond(p, size)
    <3>1. Start(p, size) \in Meant(p, size)
      BY <2>1, <2>2, <2>3, AbsentAssumption
      DEF Meant, Positions, Parses, Start, End, Position
    <3>2. ~ReachesBeyond(p, size)
      BY <2>1, <2>3, AbsentAssumption DEF ReachesBeyond, Parses, End, Position
    <3> QED BY <3>1, <3>2
  <2>4. ASSUME Meant(p, size) # {}, ~ReachesBeyond(p, size)
        PROVE  Parses(p, size)
    <3>1. PICK x \in Positions(size) : x \in Meant(p, size)
      BY <2>4 DEF Meant
    <3>2. x \in Int /\ 0 <= x /\ x < size
      BY <3>1 DEF Positions
    <3>3. Start(p, size) <= x /\ x <= End(p, size) /\ End(p, size) < size
      BY <2>1, <2>4, <3>1, <3>2, AbsentAssumption
      DEF Meant, Start, End, ReachesBeyond, Position
    <3> QED BY <2>1, <2>2, <3>2, <3>3 DEF Parses
  <2> QED BY <1>1, <1>3, <2>3, <2>4
<1> QED BY <1>2, <1>3

(***************************************************************************)
(* A download broken off after k bytes and resumed with "bytes=k-" gets    *)
(* the bytes it lacks and no other; one that had them all is refused.      *)
(***************************************************************************)
THEOREM ResumeIsExact ==
    ASSUME NEW size \in Nat, NEW k \in 0 .. size
    PROVE  LET a == Answer(<<[first |-> k, last |-> Absent]>>, size)
           IN  IF k < size
               THEN a.status = 206 /\ Sent(a) = Positions(size) \ Positions(k)
               ELSE a.status = 416
<1> DEFINE p == [first |-> k, last |-> Absent]
           a == Answer(<<p>>, size)
<1> HIDE DEF p
<1>1. p \in WellFormed /\ p \in Part /\ p.first = k /\ p.last = Absent /\ k \in Nat
  BY DEF p, WellFormed, Part, Position
<1>2. k # Absent
  BY AbsentAssumption
<1>3. AsksSomething(p) /\ ~ReachesBeyond(p, size)
  BY <1>1, <1>2 DEF AsksSomething, ReachesBeyond
<1>4. Meant(p, size) = Positions(size) \ Positions(k)
  BY <1>1, <1>2 DEF Meant, Positions
<1>5. a.status = 416 <=> Meant(p, size) = {}
  BY <1>1, <1>3, RefusedExactly
<1>6. a.status \in {206, 416}
  BY DEF Answer, Refused
<1>7. CASE k < size
  <2>1. k \in Meant(p, size)
    BY <1>1, <1>4, <1>7 DEF Positions
  <2>2. a.status = 206
    BY <1>5, <1>6, <2>1
  <2>3. <<p>> \in Seq(Part) /\ <<p>>[1] = p
    BY <1>1
  <2>4. Sent(a) = Meant(p, size)
    BY <2>2, <2>3, AnswerIsMeant
  <2> QED BY <1>4, <1>7, <2>2, <2>4 DEF p
<1>8. CASE ~(k < size)
  <2>1. Meant(p, size) = {}
    BY <1>1, <1>4, <1>8 DEF Positions
  <2> QED BY <1>5, <1>8, <2>1 DEF p
<1> QED BY <1>7, <1>8
=============================================================================
