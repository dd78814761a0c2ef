------------------------------- MODULE PioSwap -------------------------------
(***************************************************************************)
(* pio_swapm (pio_spmd.c): the all-to-all exchange of the parallel I/O     *)
(* library, made of point-to-point messages with flow control.  Each task  *)
(* goes through its partners in an order of its own; it posts the receives *)
(* for the first maxreq of them, and one more for each that it has waited  *)
(* for.  With handshakes a receiver tells its partner that the receive is  *)
(* posted, and with isend on top of that the data go out as ready sends,   *)
(* which are an error when no receive is posted.                           *)
(***************************************************************************)
EXTENDS Integers, Sequences, FiniteSets, FiniteSetsExt

CONSTANTS
    NTasks,     \* the number of tasks
    Rounds,     \* how many calls follow one another on the same communicator
    Patterns,   \* who may send to whom in a call: sets of pairs of tasks
    Options,    \* the flow control options: [hs, isend : BOOLEAN, max_pend_req : Int]
    Eager       \* whether MPI may buffer a message whose receive is not posted yet: values tried

VARIABLES
    traffic, entered, left, out,    \* see module Exchange
    fc,         \* the flow control options of the run
    eager,      \* whether messages are buffered
    pc,         \* where each task is in the call
    swapids,    \* its partners in this call, in its order
    istep,      \* the partner it sends to
    rstep,      \* the next partner to receive from
    rcvids,     \* its requests for data from each partner: null, posted or complete
    hs_rcvids,  \* its requests for handshakes
    sndids,     \* its requests for immediate sends
    chan,       \* the messages sent that have found no receive yet
    recvbuf     \* what has come into its buffer in this call

flow == <<traffic, fc, eager>>
requests == <<rcvids, hs_rcvids, sndids, chan, recvbuf>>
vars == <<flow, entered, left, out, pc, swapids, istep, rstep, requests>>

Swap == INSTANCE Exchange
Task == Swap!Task
Kind == {"data", "hs"}
Links == Task \X Task \X Kind

UNLIMITED == -1     \* PIO_REARR_COMM_UNLIMITED_PEND_REQ

\* PIOc_set_rearr_opts refuses other limits.
ASSUME SwapAssumption ==
    /\ NTasks \in Nat \ {0} /\ Rounds \in Nat
    /\ Patterns \subseteq SUBSET (Task \X Task)
    /\ Options \subseteq [hs : BOOLEAN, isend : BOOLEAN, max_pend_req : Nat \cup {UNLIMITED}]

-----------------------------------------------------------------------------
(***************************************************************************)
(* The order of the partners, and how many are dealt with at a time.       *)
(***************************************************************************)
ceil2(i) == Min({p \in {2 ^ k : k \in 0..i} : p >= i})

Bit(n, k) == (n \div 2 ^ k) % 2
Xor(a, b) == MapThenSumSet(LAMBDA k : IF Bit(a, k) # Bit(b, k) THEN 2 ^ k ELSE 0, 0..NTasks)

pair(np, p, k) == LET q == Xor(p + 1, k) IN IF q > np - 1 THEN -1 ELSE q

Sends(t, p) == <<t, p>> \in traffic[entered[t]]
Receives(t, p) == <<p, t>> \in traffic[entered[t]]

\* The partners of task t in a call in which the pairs of S exchange data.
Partners(t, S) ==
    SelectSeq([i \in 1..(ceil2(NTasks) - 1) |-> pair(NTasks, i - 1, t)],
              LAMBDA p : p >= 0 /\ {<<t, p>>, <<p, t>>} \cap S # {})

\* What pair, a matter of bits, comes to: all the other tasks that data are exchanged
\* with, each of them once.
ASSUME PartnersAssumption ==
    \A t \in Task, S \in Patterns :
        LET ids == Partners(t, S)
        IN  /\ ids \in Seq(Task \ {t})
            /\ \A i, j \in DOMAIN ids : ids[i] = ids[j] => i = j
            /\ \A p \in Task \ {t} :
                   {<<t, p>>, <<p, t>>} \cap S # {} => \E i \in DOMAIN ids : ids[i] = p

steps(t) == Len(swapids[t])
Partner(t, i) == swapids[t][i]

Limited(t) == fc.max_pend_req > 1 /\ fc.max_pend_req < steps(t)

\* Receives posted at a time.
maxreq(t) ==
    CASE steps(t) <= 1 -> 1
      [] steps(t) > 1 /\ Limited(t) -> fc.max_pend_req
      [] steps(t) > 1 /\ fc.max_pend_req = 1 -> 2
      [] OTHER -> steps(t)

\* How far sending is ahead of waiting.
maxreqh(t) ==
    CASE steps(t) > 1 /\ Limited(t) -> maxreq(t) \div 2
      [] steps(t) > 1 /\ fc.max_pend_req = 1 -> 1
      [] OTHER -> maxreq(t)

-----------------------------------------------------------------------------
(***************************************************************************)
(* Point-to-point messages of MPI: receives and messages of a link match   *)
(* in the order in which they are posted and sent.                         *)
(***************************************************************************)
Requests(k) == IF k = "data" THEN rcvids ELSE hs_rcvids

\* The position of partner p's request at task t that waits for a message.
Posted(t, p, k) == {i \in DOMAIN swapids[t] : Partner(t, i) = p /\ Requests(k)[t][i] = "posted"}

\* What a message brings: whose data, of which round, and the sender's request.
Message(t, i) == [from |-> t, round |-> entered[t], req |-> i]

\* The state of requests and links after receives for the partners in
\* positions I, of kind k, are posted.
Ready(t, I, k) == {i \in I : chan[<<Partner(t, i), t, k>>] # <<>>}
First(t, i, k) == Head(chan[<<Partner(t, i), t, k>>])
AfterPosting(t, I, k) ==
    [j \in DOMAIN swapids[t] |->
        IF j \in Ready(t, I, k) THEN "complete" ELSE IF j \in I THEN "posted" ELSE Requests(k)[t][j]]

PostData(t, I) ==
    LET found == Ready(t, I, "data")
        taken == {First(t, i, "data") : i \in found}
    IN  /\ rcvids' = [rcvids EXCEPT ![t] = AfterPosting(t, I, "data")]
        /\ recvbuf' = [recvbuf EXCEPT ![t] = @ \cup {<<m.from, m.round>> : m \in taken}]
        /\ sndids' = [s \in Task |-> [j \in DOMAIN sndids[s] |->
                         IF \E m \in taken : m.from = s /\ m.req = j THEN "complete" ELSE sndids[s][j]]]

PostHandshakes(t, I) == hs_rcvids' = [hs_rcvids EXCEPT ![t] = AfterPosting(t, I, "hs")]

TakeFrom(t, D, H) ==
    LET taken == {<<Partner(t, i), t, "data">> : i \in Ready(t, D, "data")}
                 \cup {<<Partner(t, i), t, "hs">> : i \in Ready(t, H, "hs")}
    IN  chan' = [l \in Links |-> IF l \in taken THEN Tail(chan[l]) ELSE chan[l]]

\* A message finds a receive, or waits for one.
Deliver(t, p, k, m) ==
    LET at == Posted(p, t, k)
        Done(f) == [f EXCEPT ![p] = [i \in DOMAIN @ |-> IF i \in at THEN "complete" ELSE @[i]]]
    IN  /\ rcvids' = IF k = "data" THEN Done(rcvids) ELSE rcvids
        /\ hs_rcvids' = IF k = "hs" THEN Done(hs_rcvids) ELSE hs_rcvids
        /\ recvbuf' = IF k = "data" /\ at # {} THEN [recvbuf EXCEPT ![p] = @ \cup {<<t, m.round>>}]
                      ELSE recvbuf
        /\ chan' = IF at # {} THEN chan ELSE [chan EXCEPT ![<<t, p, k>>] = Append(@, m)]

MaySend(t, p, k) == eager \/ Posted(p, t, k) # {}

-----------------------------------------------------------------------------
(***************************************************************************)
(* The call.                                                               *)
(***************************************************************************)
\* The task's own data go first; without partners that is all.
Begin(t) ==
    /\ Swap!Enter(t)
    /\ LET r == entered'[t]
           ids == Partners(t, traffic[r])
           null == [i \in DOMAIN ids |-> "null"]
       IN  /\ swapids' = [swapids EXCEPT ![t] = ids]
           /\ rcvids' = [rcvids EXCEPT ![t] = null]
           /\ hs_rcvids' = [hs_rcvids EXCEPT ![t] = null]
           /\ sndids' = [sndids EXCEPT ![t] = null]
           /\ recvbuf' = [recvbuf EXCEPT ![t] = IF fc.max_pend_req # 0 /\ <<t, t>> \in traffic[r]
                                                THEN {<<t, r>>} ELSE {}]
           /\ istep' = [istep EXCEPT ![t] = 1]
           /\ rstep' = [rstep EXCEPT ![t] = 1]
           /\ pc' = [pc EXCEPT ![t] = CASE fc.max_pend_req = 0 -> "alltoall"
                                        [] fc.max_pend_req # 0 /\ ids = <<>> -> "return"
                                        [] OTHER -> "handshakes"]
    /\ UNCHANGED <<fc, eager, chan>>

\* MPI_Alltoallw: one call exchanges everything.
Alltoallw(t) ==
    /\ pc[t] = "alltoall"
    /\ \A s \in Swap!SendersTo(t, entered[t]) : entered[s] >= entered[t]
    /\ recvbuf' = [recvbuf EXCEPT ![t] = {<<s, entered[t]>> : s \in Swap!SendersTo(t, entered[t])}]
    /\ pc' = [pc EXCEPT ![t] = "return"]
    /\ UNCHANGED <<flow, entered, left, out, swapids, istep, rstep, rcvids, hs_rcvids, sndids, chan>>

\* Receives for the handshakes of the first partners that data are sent to.
FirstHandshakes(t) ==
    /\ pc[t] = "handshakes"
    /\ LET H == IF fc.hs THEN {i \in 1..maxreq(t) : Sends(t, Partner(t, i))} ELSE {}
       IN  PostHandshakes(t, H) /\ TakeFrom(t, {}, H)
    /\ pc' = [pc EXCEPT ![t] = "receive"]
    /\ UNCHANGED <<flow, entered, left, out, swapids, istep, rstep, rcvids, sndids, recvbuf>>

Expected(t, i) == IF Receives(t, Partner(t, i)) THEN {i} ELSE {}

\* Mutant: the partners are not told that the first receives are posted.
FirstReceiveSilently(t) ==
    /\ pc[t] = "receive"
    /\ LET D == Expected(t, rstep[t])
       IN  /\ PostData(t, D) /\ TakeFrom(t, D, {})
           /\ pc' = [pc EXCEPT ![t] = IF rstep[t] < maxreq(t) THEN "receive" ELSE "send"]
    /\ rstep' = [rstep EXCEPT ![t] = @ + 1]
    /\ UNCHANGED <<flow, entered, left, out, swapids, istep, hs_rcvids>>

\* Receives for the data of the first partners, with a handshake each.
FirstReceive(t) ==
    /\ pc[t] = "receive"
    /\ LET D == Expected(t, rstep[t])
       IN  /\ PostData(t, D) /\ TakeFrom(t, D, {})
           /\ pc' = [pc EXCEPT ![t] = IF fc.hs /\ D # {} THEN "tell"
                                      ELSE IF rstep[t] < maxreq(t) THEN "receive" ELSE "send"]
    /\ rstep' = [rstep EXCEPT ![t] = @ + 1]
    /\ UNCHANGED <<flow, entered, left, out, swapids, istep, hs_rcvids>>

\* The handshake: the receive posted last is there.
Tell(t) ==
    /\ pc[t] = "tell"
    /\ LET p == Partner(t, rstep[t] - 1)
       IN  MaySend(t, p, "hs") /\ Deliver(t, p, "hs", Message(t, 0))
    /\ pc' = [pc EXCEPT ![t] = IF rstep[t] <= maxreq(t) THEN "receive" ELSE "send"]
    /\ UNCHANGED <<flow, entered, left, out, swapids, istep, rstep, sndids>>

\* Mutant: data are sent without waiting for the partner's handshake.
SendDataBlindly(t) ==
    /\ pc[t] = "send" /\ istep[t] <= steps(t)
    /\ LET i == istep[t]
           p == Partner(t, i)
       IN  IF Sends(t, p)
           THEN /\ fc.isend \/ MaySend(t, p, "data")
                /\ Deliver(t, p, "data", Message(t, IF fc.isend THEN i ELSE 0))
                /\ sndids' = [sndids EXCEPT ![t][i] =
                                  IF fc.isend /\ ~MaySend(t, p, "data") THEN "posted" ELSE @]
           ELSE UNCHANGED requests
    /\ pc' = [pc EXCEPT ![t] = "wait"]
    /\ UNCHANGED <<flow, entered, left, out, swapids, istep, rstep>>

\* Data for partner istep, once it has told that it waits for them.
SendData(t) ==
    /\ pc[t] = "send" /\ istep[t] <= steps(t)
    /\ LET i == istep[t]
           p == Partner(t, i)
       IN  IF Sends(t, p)
           THEN /\ hs_rcvids[t][i] # "posted"
                /\ fc.isend \/ MaySend(t, p, "data")
                /\ Deliver(t, p, "data", Message(t, IF fc.isend THEN i ELSE 0))
                /\ sndids' = [sndids EXCEPT ![t][i] =
                                  IF fc.isend /\ ~MaySend(t, p, "data") THEN "posted" ELSE @]
           ELSE UNCHANGED requests
    /\ pc' = [pc EXCEPT ![t] = "wait"]
    /\ UNCHANGED <<flow, entered, left, out, swapids, istep, rstep>>

\* Further receives are posted as the first ones are waited for.
WaitAndPost(t) ==
    /\ pc[t] = "wait"
    /\ LET i == istep[t]
           waits == i > maxreqh(t)
           more == waits /\ rstep[t] <= steps(t)
           D == IF more THEN Expected(t, rstep[t]) ELSE {}
           H == IF more /\ fc.hs THEN {j \in {rstep[t]} : Sends(t, Partner(t, j))} ELSE {}
       IN  /\ waits => rcvids[t][i - maxreqh(t)] # "posted"
           /\ PostHandshakes(t, H) /\ PostData(t, D) /\ TakeFrom(t, D, H)
           /\ rstep' = [rstep EXCEPT ![t] = IF more THEN @ + 1 ELSE @]
           /\ pc' = [pc EXCEPT ![t] = IF fc.hs /\ D # {} THEN "tell" ELSE "send"]
    /\ istep' = [istep EXCEPT ![t] = @ + 1]
    /\ UNCHANGED <<flow, entered, left, out, swapids>>

\* Mutant: only the immediate sends are waited for.
WaitallSends(t) ==
    /\ pc[t] = "send" /\ istep[t] > steps(t)
    /\ \A i \in DOMAIN swapids[t] : sndids[t][i] # "posted"
    /\ pc' = [pc EXCEPT ![t] = "return"]
    /\ UNCHANGED <<flow, entered, left, out, swapids, istep, rstep, requests>>

\* All receives, and the immediate sends, are waited for in the end.
Waitall(t) ==
    /\ pc[t] = "send" /\ istep[t] > steps(t)
    /\ \A i \in DOMAIN swapids[t] : rcvids[t][i] # "posted" /\ sndids[t][i] # "posted"
    /\ pc' = [pc EXCEPT ![t] = "return"]
    /\ UNCHANGED <<flow, entered, left, out, swapids, istep, rstep, requests>>

Return(t) ==
    /\ pc[t] = "return"
    /\ left' = [left EXCEPT ![t] = entered[t]]
    /\ out' = [out EXCEPT ![t] = recvbuf[t]]
    /\ pc' = [pc EXCEPT ![t] = "out"]
    /\ UNCHANGED <<flow, entered, swapids, istep, rstep, requests>>

-----------------------------------------------------------------------------
Init ==
    /\ Swap!ExchangeInit(Patterns)
    /\ fc \in Options /\ eager \in Eager
    /\ pc = [t \in Task |-> "out"]
    /\ swapids = [t \in Task |-> <<>>]
    /\ istep = [t \in Task |-> 1] /\ rstep = [t \in Task |-> 1]
    /\ rcvids = [t \in Task |-> <<>>] /\ hs_rcvids = [t \in Task |-> <<>>]
    /\ sndids = [t \in Task |-> <<>>]
    /\ chan = [l \in Links |-> <<>>]
    /\ recvbuf = [t \in Task |-> {}]

Step(t) ==
    \/ Begin(t) \/ Alltoallw(t) \/ FirstHandshakes(t) \/ FirstReceive(t) \/ Tell(t)
    \/ SendData(t) \/ WaitAndPost(t) \/ Waitall(t) \/ Return(t)

Done == (\A t \in Task : left[t] = Rounds) /\ UNCHANGED vars

Next == (\E t \in Task : Step(t)) \/ Done

\* The tasks run, and MPI makes progress.
Spec == Init /\ [][Next]_vars /\ \A t \in Task : WF_vars(Step(t))

-----------------------------------------------------------------------------
(***************************************************************************)
(* Properties.                                                             *)
(***************************************************************************)
\* A call gives each task exactly what the others sent to it in the same call,
\* whatever the order of the messages, the options and the calls that the
\* others are in (pio_swapm as a whole).
Exchanges == Swap!ExchangeSpec

\* Flow control holds: a ready send finds its receive posted, and a task never has more
\* receives outstanding than max_pend_req says (two if it says one).
FlowControl ==
    \A t \in Task :
        /\ fc.hs /\ fc.isend => \A p \in Task : chan[<<t, p, "data">>] = <<>>
        /\ fc.max_pend_req > 0 =>
               Cardinality({i \in DOMAIN swapids[t] : rcvids[t][i] = "posted"})
                   <= Max({2, fc.max_pend_req})

\* The exchange ends on all tasks: no order of partners, no limit and no lack of
\* buffers makes the tasks wait for each other for ever.
ExchangeEnds == <>(\A t \in Task : left[t] = Rounds)
=============================================================================
