---------------------------- MODULE EntityStore ----------------------------
(***************************************************************************)
(* What the entity store promises its clients: one log of puts in a total  *)
(* order; a get that succeeds answers with the latest value of the name    *)
(* after some prefix of that log, and that prefix holds every put that was *)
(* acknowledged, to any client, before the get began.  A failed operation  *)
(* promises nothing else.                                                  *)
(***************************************************************************)
EXTENDS Integers, Sequences

CONSTANTS Client, Name, Value

VARIABLES log,     \* the puts, in the order that took effect
          acked,   \* every put up to this position is acknowledged or older
          op,      \* what each client is waiting for
          got      \* the last answer each client got to a get

vars == <<log, acked, op, got>>

NoAnswer == <<>>

\* The value of name after the first i puts, as a set with at most one member.
Latest(i, name) ==
    {log[j].val : j \in {j \in 1..i : /\ log[j].name = name
                                      /\ \A k \in j+1..i : log[k].name # name}}

Init ==
    /\ log = <<>>
    /\ acked = 0
    /\ op = [c \in Client |-> [kind |-> "idle", at |-> 0]]
    /\ got = [c \in Client |-> NoAnswer]

BeginPut(c, n, v) ==
    /\ op[c].kind = "idle"
    /\ op' = [op EXCEPT ![c] = [kind |-> "put", name |-> n, val |-> v, at |-> 0]]
    /\ UNCHANGED <<log, acked, got>>

\* The put takes its place in the total order.
OrderPut(c) ==
    /\ op[c].kind = "put" /\ op[c].at = 0
    /\ log' = Append(log, [name |-> op[c].name, val |-> op[c].val])
    /\ op' = [op EXCEPT ![c].at = Len(log) + 1]
    /\ UNCHANGED <<acked, got>>

AckPut(c) ==
    /\ op[c].kind = "put" /\ op[c].at > 0
    /\ acked' = IF op[c].at > acked THEN op[c].at ELSE acked
    /\ op' = [op EXCEPT ![c] = [kind |-> "idle", at |-> 0]]
    /\ UNCHANGED <<log, got>>

BeginGet(c, n) ==
    /\ op[c].kind = "idle"
    /\ op' = [op EXCEPT ![c] = [kind |-> "get", name |-> n, at |-> acked]]
    /\ UNCHANGED <<log, acked, got>>

EndGet(c) ==
    /\ op[c].kind = "get"
    /\ \E i \in op[c].at..Len(log) : \E v \in Latest(i, op[c].name) :
          got' = [got EXCEPT ![c] = <<op[c].name, v>>]
    /\ op' = [op EXCEPT ![c] = [kind |-> "idle", at |-> 0]]
    /\ UNCHANGED <<log, acked>>

\* The caller is told of a failure.  Only a put that was never ordered fails.
Fail(c) ==
    /\ op[c].kind = "get" \/ (op[c].kind = "put" /\ op[c].at = 0)
    /\ op' = [op EXCEPT ![c] = [kind |-> "idle", at |-> 0]]
    /\ UNCHANGED <<log, acked, got>>

Next ==
    \E c \in Client :
       \/ \E n \in Name, v \in Value : BeginPut(c, n, v)
       \/ OrderPut(c)
       \/ AckPut(c)
       \/ \E n \in Name : BeginGet(c, n)
       \/ EndGet(c)
       \/ Fail(c)

Spec == Init /\ [][Next]_vars
=============================================================================
