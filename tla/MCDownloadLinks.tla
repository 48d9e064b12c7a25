--------------------------- MODULE MCDownloadLinks ---------------------------
(***************************************************************************)
(* Instances of DownloadLinks for TLC: one object, which an MCP tool or a  *)
(* zip request creates and admins issue links for; and the answers to all  *)
(* Range headers of at most two parts for files of at most three bytes.    *)
(***************************************************************************)
EXTENDS DownloadLinksProps, ByteRanges, TLC

CONSTANTS o1, a1, a2, t1, r1

ToolOwn == [i \in Tool |-> o1]

SmallPosition == 0 .. 4 \cup {Absent}
SmallPart == [first : SmallPosition, last : SmallPosition] \cup {Malformed}
SmallHeader == {<<p>> : p \in SmallPart} \cup (SmallPart \X SmallPart)

\* The statements ByteRangesProofs proves for files and headers of all sizes.
ASSUME SmallRanges ==
    \A size \in 0 .. 3, header \in SmallHeader :
        LET p == header[1]
            a == Answer(header, size)
        IN  /\ a.status = 206 =>
                  /\ a.length > 0
                  /\ {x \in 0 .. 9 : a.from <= x /\ x < a.from + a.length}
                         = Meant(p, size)
            /\ Len(header) = 1 =>
                  (a.status = 416 <=>
                      \/ ~(p # Malformed /\ (p.first # Absent \/ p.last # Absent))
                      \/ Meant(p, size) = {}
                      \/ ReachesBeyond(p, size))
=============================================================================
