----------------------------- MODULE ObjectLife ------------------------------
(***************************************************************************)
(* What the object storage promises of one object to those who ask for it, *)
(* download it and delete it: its content is written at most while it is   *)
(* wanted, it completes once and with a content, a completed content is    *)
(* never replaced, and it is taken away only by a deletion.  Whoever asked *)
(* for the object may call it failed at any time, even a complete one.     *)
(*                                                                         *)
(* The objects live side by side: a step may move several of them.         *)
(***************************************************************************)
CONSTANTS Object, Content, None

VARIABLES
    stage,      \* "none", "wanted", "complete", "failed" or "gone"
    content,    \* what a download of the object would get, or None
    doomed,     \* the objects whose deletion has begun
    loose       \* the objects of which nothing is promised any more

vars == <<stage, content, doomed, loose>>

Init ==
    /\ stage = [o \in Object |-> "none"]
    /\ content = [o \in Object |-> None]
    /\ doomed = {}
    /\ loose = {}

Stays(o) == stage'[o] = stage[o] /\ content'[o] = content[o]

Ask(o) == stage[o] = "none" /\ stage'[o] = "wanted" /\ content'[o] = content[o]

\* An upload that was under way when the row was deleted still stores.
Store(o) ==
    /\ stage[o] = "wanted" \/ (stage[o] = "gone" /\ o \in doomed)
    /\ stage'[o] = stage[o]
    /\ content'[o] \in Content

Complete(o) ==
    /\ stage[o] = "wanted" /\ stage'[o] = "complete"
    /\ content[o] # None \/ o \in doomed
    /\ content'[o] = content[o]

Fail(o) ==
    /\ stage[o] \in {"wanted", "complete"} /\ stage'[o] = "failed"
    /\ content'[o] = content[o]

\* A deletion takes the content first, the row then.
Vanish(o) == o \in doomed /\ stage'[o] = stage[o] /\ content'[o] = None

Go(o) ==
    /\ o \in doomed /\ stage[o] # "none" /\ stage'[o] = "gone"
    /\ content'[o] = content[o]

Step(o) ==
    Stays(o) \/ Ask(o) \/ Store(o) \/ Complete(o) \/ Fail(o) \/ Vanish(o) \/ Go(o)

Next ==
    /\ doomed \subseteq doomed' /\ loose \subseteq loose'
    /\ \A o \in Object \ loose' : Step(o)

Spec == Init /\ [][Next]_vars
=============================================================================
