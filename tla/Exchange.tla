------------------------------ MODULE Exchange ------------------------------
(***************************************************************************)
(* What the caller of the parallel I/O library's all-to-all exchange       *)
(* relies on: a task that comes out of its r-th call has received, from    *)
(* every task that sends to it in that round, what this one sent in that   *)
(* round, and it could not come out before they had come in.               *)
(***************************************************************************)
EXTENDS Naturals

CONSTANTS
    NTasks,     \* the number of tasks of the communicator
    Rounds      \* how many exchanges are made one after the other

Task == 0..(NTasks - 1)

VARIABLES
    traffic,    \* who sends to whom in each round
    entered,    \* the last round each task has begun
    left,       \* the last round each task has ended
    out         \* what each task received in the last round it ended

exchangeVars == <<traffic, entered, left, out>>

SendersTo(t, r) == {s \in Task : <<s, t>> \in traffic[r]}

ExchangeInit(Patterns) ==
    /\ traffic \in [1..Rounds -> Patterns]
    /\ entered = [t \in Task |-> 0]
    /\ left = [t \in Task |-> 0]
    /\ out = [t \in Task |-> {}]

Enter(t) ==
    /\ entered[t] = left[t] /\ left[t] < Rounds
    /\ entered' = [entered EXCEPT ![t] = @ + 1]
    /\ UNCHANGED <<traffic, left, out>>

Leave(t) ==
    /\ left[t] < entered[t]
    /\ \A s \in SendersTo(t, entered[t]) : entered[s] >= entered[t]
    /\ left' = [left EXCEPT ![t] = entered[t]]
    /\ out' = [out EXCEPT ![t] = {<<s, entered[t]>> : s \in SendersTo(t, entered[t])}]
    /\ UNCHANGED <<traffic, entered>>

ExchangeNext == \E t \in Task : Enter(t) \/ Leave(t)

ExchangeSpec == ExchangeInit(SUBSET (Task \X Task)) /\ [][ExchangeNext]_exchangeVars
=============================================================================
