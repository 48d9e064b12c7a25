\* Two clients that share a session id, and a stream.  Two session objects are one
\* in the table and one that was removed while somebody held it.
CONSTANTS
    i1 = i1  s1 = s1  s2 = s2
    d1 = d1  d2 = d2  r1 = r1  r2 = r2  c1 = c1
    Id = {i1}
    Session = {s1, s2}
    Device = {d1, d2}
    Request = {r1, r2}
    Linker = {r1}
    Stream = {c1}
    NoSession = NoSession
    NoDevice = NoDevice
    Timeout = 1
    Patience = 1
    Nested = 1
SPECIFICATION FairSpec
INVARIANTS TypeOK ReachableIsOpen OutlivedOnly OneTarget
PROPERTIES ImplementsContext AllEnd
