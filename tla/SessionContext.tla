---------------------------- MODULE SessionContext ----------------------------
(***************************************************************************)
(* What the MCP server promises about session ids: "Use the same session   *)
(* ID across requests to maintain context" and "Sessions expire after 30   *)
(* minutes of inactivity".  An id has a context from its first use until   *)
(* it has not been used for longer than the timeout.                       *)
(***************************************************************************)
EXTENDS Naturals

CONSTANTS Id, Device, NoDevice, Absent, Timeout

VARIABLES
    context,    \* the device selected under an id, if the id has a context
    age         \* the time since its last use

contextVars == <<context, age>>

ContextInit ==
    /\ context = [i \in Id |-> Absent]
    /\ age = [i \in Id |-> 0]

Has(i) == context[i] # Absent

Use(i) ==
    /\ context' = IF Has(i) THEN context ELSE [context EXCEPT ![i] = NoDevice]
    /\ age' = [age EXCEPT ![i] = 0]

Select(i, d) ==
    /\ Has(i)
    /\ context' = [context EXCEPT ![i] = d]
    /\ UNCHANGED age

\* What expires has been idle for longer than the timeout, and all that has
\* expires together.
Expire ==
    LET old == {i \in Id : Has(i) /\ age[i] > Timeout}
    IN  /\ context' = [i \in Id |-> IF i \in old THEN Absent ELSE context[i]]
        /\ age' = [i \in Id |-> IF i \in old THEN 0 ELSE age[i]]

\* Ages beyond the timeout are not told apart.
Pass ==
    /\ age' = [i \in Id |-> IF Has(i) /\ age[i] <= Timeout THEN age[i] + 1 ELSE age[i]]
    /\ UNCHANGED context

ContextNext ==
    \/ Expire \/ Pass
    \/ \E i \in Id : Use(i) \/ \E d \in Device : Select(i, d)

Contexts == ContextInit /\ [][ContextNext]_contextVars
=============================================================================
