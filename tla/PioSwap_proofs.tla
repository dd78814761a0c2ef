---------------------------- MODULE PioSwap_proofs ----------------------------
(***************************************************************************)
(* Theorems about PioSwap for any number of tasks, any traffic, any number *)
(* of calls in a row and all options of flow control.                      *)
(***************************************************************************)
EXTENDS PioSwap, FiniteSetTheorems, SequenceTheorems, TLAPS

Stage == {"out", "alltoall", "handshakes", "receive", "tell", "send", "wait", "return"}
Status == {"null", "posted", "complete"}
Messages == [from : Task, round : Nat, req : Nat]

TypeOK ==
    /\ traffic \in [1..Rounds -> Patterns]
    /\ fc \in Options
    /\ entered \in [Task -> 0..Rounds]
    /\ left \in [Task -> 0..Rounds]
    /\ pc \in [Task -> Stage]
    /\ swapids \in [Task -> Seq(Task)]
    /\ istep \in [Task -> Nat \ {0}]
    /\ rstep \in [Task -> Nat \ {0}]
    /\ rcvids \in [Task -> Seq(Status)]
    /\ hs_rcvids \in [Task -> Seq(Status)]
    /\ chan \in [Links -> Seq(Messages)]

\* Each task's lists are about its partners, and a partner is there once.
Distinct ==
    \A t \in Task :
        /\ DOMAIN rcvids[t] = DOMAIN swapids[t]
        /\ DOMAIN hs_rcvids[t] = DOMAIN swapids[t]
        /\ \A i, j \in DOMAIN swapids[t] : swapids[t][i] = swapids[t][j] => i = j
        /\ \A i \in DOMAIN swapids[t] : swapids[t][i] # t

-----------------------------------------------------------------------------
\* How far receives are posted when the task is about to send to partner istep.
Ahead(t) ==
    CASE istep[t] <= maxreqh(t) + 1 -> maxreq(t) + 1
      [] istep[t] > maxreqh(t) + 1 /\ maxreq(t) + istep[t] - maxreqh(t) <= steps(t) + 1 ->
             maxreq(t) + istep[t] - maxreqh(t)
      [] OTHER -> steps(t) + 1

Exchanging(t) == pc[t] \in {"handshakes", "receive", "tell", "send", "wait"}

PaceOf(t) ==
    /\ Exchanging(t) => steps(t) > 0
    /\ pc[t] = "handshakes" => istep[t] = 1 /\ rstep[t] = 1
    /\ pc[t] = "receive" => istep[t] = 1 /\ rstep[t] <= maxreq(t)
    /\ pc[t] = "tell" => /\ rstep[t] > 1 /\ istep[t] <= steps(t) + 1
                         /\ rstep[t] = Ahead(t) \/ (istep[t] = 1 /\ rstep[t] <= maxreq(t))
    /\ pc[t] = "send" => rstep[t] = Ahead(t) /\ istep[t] <= steps(t) + 1
    /\ pc[t] = "wait" => rstep[t] = Ahead(t) /\ istep[t] <= steps(t)

\* Receives are outstanding in a window that ends before rstep.
WindowOf(t) ==
    \A j \in DOMAIN swapids[t] :
        rcvids[t][j] = "posted" =>
            /\ pc[t] \in {"receive", "tell", "send", "wait"}
            /\ j < rstep[t] /\ istep[t] <= j + maxreqh(t)

-----------------------------------------------------------------------------
\* The partners a task has dealt with as a sender.
nsent(t) == IF pc[t] = "wait" THEN istep[t] ELSE istep[t] - 1

\* A handshake has come in whose data are not sent yet.
Unsent(t, j) == hs_rcvids[t][j] = "complete" /\ j > nsent(t)

HandshakesOf(t) ==
    fc.hs => \A j \in DOMAIN swapids[t] :
        /\ pc[t] \in {"alltoall", "handshakes"} => hs_rcvids[t][j] = "null"
        /\ pc[t] \in {"receive", "tell", "send", "wait"} =>
               (hs_rcvids[t][j] # "null" <=> Sends(t, Partner(t, j)) /\ (j <= maxreq(t) \/ j < rstep[t]))
        /\ hs_rcvids[t][j] = "posted" => Exchanging(t) /\ j > nsent(t)
        /\ Unsent(t, j) => Exchanging(t)

\* Task p is about to tell task t that its receive is posted; the handshake is
\* under way; or it has come in and the data are not sent.
Telling(p, t) == pc[p] = "tell" /\ rstep[p] - 1 \in DOMAIN swapids[p] /\ Partner(p, rstep[p] - 1) = t
Underway(p, t) == chan[<<p, t, "hs">>] # <<>>
Told(p, t) == \E j \in DOMAIN swapids[t] : Partner(t, j) = p /\ Unsent(t, j)

\* A handshake stands for a posted receive, and it is in one place only.
OneHandshake(p, t) ==
    fc.hs /\ fc.isend =>
        /\ Telling(p, t) \/ Underway(p, t) \/ Told(p, t) => Posted(p, t, "data") # {}
        /\ ~(Telling(p, t) /\ Underway(p, t))
        /\ ~(Telling(p, t) /\ Told(p, t))
        /\ ~(Underway(p, t) /\ Told(p, t))
        /\ Len(chan[<<p, t, "hs">>]) <= 1
        /\ chan[<<p, t, "data">>] = <<>>

\* A task is in a call, or not.
Inside == \A t \in Task : pc[t] = "out" \/ left[t] < entered[t]

Inv ==
    /\ TypeOK /\ Distinct /\ Inside
    /\ \A t \in Task : PaceOf(t) /\ WindowOf(t) /\ HandshakesOf(t)
    /\ \A p, t \in Task : OneHandshake(p, t)

-----------------------------------------------------------------------------
(* The numbers maxreq and maxreqh make a window of receives that is not    *)
(* empty, and sending is not ahead of it.                                  *)
LEMMA Limits ==
    ASSUME TypeOK, NEW t \in Task, steps(t) > 0
    PROVE  /\ steps(t) \in Nat
           /\ maxreq(t) \in 1..steps(t)
           /\ maxreqh(t) \in 1..maxreq(t)
           /\ maxreqh(t) = maxreq(t) => maxreq(t) = steps(t)
           /\ fc.max_pend_req > 0 => maxreq(t) <= 2 \/ maxreq(t) <= fc.max_pend_req
<1>1. fc.max_pend_req \in Int
  BY SwapAssumption DEF TypeOK, UNLIMITED
<1>2. steps(t) \in Nat \ {0}
  BY DEF TypeOK, steps
<1>3. CASE Limited(t) /\ steps(t) > 1
  BY <1>1, <1>2, <1>3 DEF Limited, maxreq, maxreqh
<1>4. CASE ~Limited(t) /\ steps(t) > 1 /\ fc.max_pend_req = 1
  BY <1>1, <1>2, <1>4 DEF Limited, maxreq, maxreqh
<1>5. CASE ~Limited(t) /\ steps(t) > 1 /\ fc.max_pend_req # 1
  BY <1>1, <1>2, <1>5 DEF Limited, maxreq, maxreqh
<1>6. CASE steps(t) <= 1
  BY <1>1, <1>2, <1>6 DEF Limited, maxreq, maxreqh
<1> QED
  BY <1>2, <1>3, <1>4, <1>5, <1>6

-----------------------------------------------------------------------------
(* What posting receives for data does.                                    *)
LEMMA PostDataEffect ==
    ASSUME TypeOK, Distinct, NEW t \in Task, NEW I \in SUBSET DOMAIN swapids[t], PostData(t, I)
    PROVE  /\ rcvids' \in [Task -> Seq(Status)]
           /\ \A q \in Task \ {t} : rcvids'[q] = rcvids[q]
           /\ DOMAIN rcvids'[t] = DOMAIN swapids[t]
           /\ \A j \in DOMAIN swapids[t] \ I : rcvids'[t][j] = rcvids[t][j]
           /\ \A j \in I : chan[<<swapids[t][j], t, "data">>] = <<>> => rcvids'[t][j] = "posted"
<1>1. /\ swapids[t] \in Seq(Task) /\ rcvids \in [Task -> Seq(Status)]
      /\ DOMAIN rcvids[t] = DOMAIN swapids[t]
  BY DEF TypeOK, Distinct
<1> DEFINE new == [j \in DOMAIN swapids[t] |->
                      IF j \in Ready(t, I, "data") THEN "complete"
                      ELSE IF j \in I THEN "posted" ELSE rcvids[t][j]]
<1>2. rcvids' = [rcvids EXCEPT ![t] = new]
  BY DEF PostData, AfterPosting, Requests
<1>3. DOMAIN swapids[t] = 1..Len(swapids[t]) /\ Len(swapids[t]) \in Nat
  BY <1>1
<1>4. \A j \in DOMAIN swapids[t] : rcvids[t][j] \in Status
  BY <1>1
<1>5. new \in [1..Len(swapids[t]) -> Status]
  BY <1>3, <1>4 DEF Status
<1>6. new \in Seq(Status)
  BY <1>3, <1>5
<1>7. rcvids'[t] = new
  BY <1>1, <1>2
<1>8. rcvids' \in [Task -> Seq(Status)] /\ \A q \in Task \ {t} : rcvids'[q] = rcvids[q]
  BY <1>1, <1>2, <1>6
<1>9. Ready(t, I, "data") \subseteq I
  BY DEF Ready
<1>10. \A j \in DOMAIN swapids[t] \ I : rcvids'[t][j] = rcvids[t][j]
  BY <1>7, <1>9
<1>11. \A j \in I : chan[<<swapids[t][j], t, "data">>] = <<>> => rcvids'[t][j] = "posted"
  BY <1>7 DEF Ready, Partner
<1> HIDE DEF new
<1>12. DOMAIN rcvids'[t] = DOMAIN swapids[t]
  BY <1>7, <1>5, <1>3
<1> QED
  BY <1>8, <1>10, <1>11, <1>12

(* What posting receives for handshakes does.                              *)
LEMMA PostHandshakesEffect ==
    ASSUME TypeOK, Distinct, NEW t \in Task, NEW I \in SUBSET DOMAIN swapids[t], PostHandshakes(t, I)
    PROVE  /\ hs_rcvids' \in [Task -> Seq(Status)]
           /\ \A q \in Task \ {t} : hs_rcvids'[q] = hs_rcvids[q]
           /\ DOMAIN hs_rcvids'[t] = DOMAIN swapids[t]
           /\ \A j \in DOMAIN swapids[t] \ I : hs_rcvids'[t][j] = hs_rcvids[t][j]
           /\ \A j \in I : hs_rcvids'[t][j] = IF chan[<<swapids[t][j], t, "hs">>] = <<>>
                                              THEN "posted" ELSE "complete"
<1>1. /\ swapids[t] \in Seq(Task) /\ hs_rcvids \in [Task -> Seq(Status)]
      /\ DOMAIN hs_rcvids[t] = DOMAIN swapids[t]
  BY DEF TypeOK, Distinct
<1> DEFINE new == [j \in DOMAIN swapids[t] |->
                      IF j \in Ready(t, I, "hs") THEN "complete"
                      ELSE IF j \in I THEN "posted" ELSE hs_rcvids[t][j]]
<1>2. hs_rcvids' = [hs_rcvids EXCEPT ![t] = new]
  BY DEF PostHandshakes, AfterPosting, Requests
<1>3. DOMAIN swapids[t] = 1..Len(swapids[t]) /\ Len(swapids[t]) \in Nat
  BY <1>1
<1>4. \A j \in DOMAIN swapids[t] : hs_rcvids[t][j] \in Status
  BY <1>1
<1>5. new \in [1..Len(swapids[t]) -> Status]
  BY <1>3, <1>4 DEF Status
<1>6. new \in Seq(Status)
  BY <1>3, <1>5
<1>7. hs_rcvids'[t] = new
  BY <1>1, <1>2
<1>8. hs_rcvids' \in [Task -> Seq(Status)] /\ \A q \in Task \ {t} : hs_rcvids'[q] = hs_rcvids[q]
  BY <1>1, <1>2, <1>6
<1>9. Ready(t, I, "hs") \subseteq I
  BY DEF Ready
<1>10. \A j \in DOMAIN swapids[t] \ I : hs_rcvids'[t][j] = hs_rcvids[t][j]
  BY <1>7, <1>9
<1>11. \A j \in I : hs_rcvids'[t][j] = IF chan[<<swapids[t][j], t, "hs">>] = <<>>
                                      THEN "posted" ELSE "complete"
  BY <1>7 DEF Ready, Partner
<1> HIDE DEF new
<1>12. DOMAIN hs_rcvids'[t] = DOMAIN swapids[t]
  BY <1>7, <1>5, <1>3
<1> QED
  BY <1>8, <1>10, <1>11, <1>12

(* The handshakes that new receives find are taken from their links, and   *)
(* data may be.                                                            *)
Takes(t, H) ==
    /\ chan' \in [Links -> Seq(Messages)]
    /\ \A p, q \in Task :
          /\ chan[<<p, q, "data">>] = <<>> => chan'[<<p, q, "data">>] = <<>>
          /\ chan'[<<p, q, "hs">>] =
                IF q = t /\ chan[<<p, q, "hs">>] # <<>> /\ \E j \in H : swapids[t][j] = p
                THEN Tail(chan[<<p, q, "hs">>]) ELSE chan[<<p, q, "hs">>]

LEMMA TakeFromEffect ==
    ASSUME TypeOK, NEW t \in Task, NEW D \in SUBSET DOMAIN swapids[t], NEW H \in SUBSET DOMAIN swapids[t],
           TakeFrom(t, D, H)
    PROVE  Takes(t, H)
<1> DEFINE taken == {<<Partner(t, i), t, "data">> : i \in Ready(t, D, "data")}
                    \cup {<<Partner(t, i), t, "hs">> : i \in Ready(t, H, "hs")}
<1>1. chan' = [l \in Links |-> IF l \in taken THEN Tail(chan[l]) ELSE chan[l]]
  BY DEF TakeFrom
<1>2. chan \in [Links -> Seq(Messages)]
  BY DEF TypeOK
<1>3. \A l \in taken : chan[l] # <<>>
  BY DEF Ready
<1>4. \A l \in Links \cap taken : Tail(chan[l]) \in Seq(Messages)
  BY <1>2, <1>3
<1>5. chan' \in [Links -> Seq(Messages)]
  BY <1>1, <1>2, <1>4
<1>6. ASSUME NEW p \in Task, NEW q \in Task
      PROVE  /\ chan[<<p, q, "data">>] = <<>> => chan'[<<p, q, "data">>] = <<>>
             /\ chan'[<<p, q, "hs">>] =
                       IF q = t /\ chan[<<p, q, "hs">>] # <<>> /\ \E j \in H : swapids[t][j] = p
                       THEN Tail(chan[<<p, q, "hs">>]) ELSE chan[<<p, q, "hs">>]
  <2>1. <<p, q, "data">> \in Links /\ <<p, q, "hs">> \in Links
    BY DEF Links, Kind
  <2>2. chan[<<p, q, "data">>] = <<>> => chan'[<<p, q, "data">>] = <<>>
    BY <1>1, <1>3, <2>1
  <2>3. <<p, q, "hs">> \in taken <=> q = t /\ chan[<<p, q, "hs">>] # <<>> /\ \E j \in H : swapids[t][j] = p
    BY DEF Ready, Partner
  <2> HIDE DEF taken
  <2>4. QED
    BY <1>1, <2>1, <2>2, <2>3
<1> QED
  BY <1>5, <1>6 DEF Takes

(* A handshake finds the receive for it, or waits.                         *)
LEMMA DeliverHandshake ==
    ASSUME TypeOK, Distinct, NEW t \in Task, NEW p \in Task, NEW m \in Messages, Deliver(t, p, "hs", m)
    PROVE  /\ rcvids' = rcvids
           /\ hs_rcvids' \in [Task -> Seq(Status)]
           /\ \A q \in Task \ {p} : hs_rcvids'[q] = hs_rcvids[q]
           /\ DOMAIN hs_rcvids'[p] = DOMAIN swapids[p]
           /\ \A j \in DOMAIN swapids[p] :
                 hs_rcvids'[p][j] = IF swapids[p][j] = t /\ hs_rcvids[p][j] = "posted"
                                    THEN "complete" ELSE hs_rcvids[p][j]
           /\ chan' \in [Links -> Seq(Messages)]
           /\ \A l \in Links \ {<<t, p, "hs">>} : chan'[l] = chan[l]
           /\ IF \E j \in DOMAIN swapids[p] : swapids[p][j] = t /\ hs_rcvids[p][j] = "posted"
              THEN chan'[<<t, p, "hs">>] = chan[<<t, p, "hs">>]
              ELSE chan'[<<t, p, "hs">>] = Append(chan[<<t, p, "hs">>], m)
<1>1. /\ swapids[p] \in Seq(Task) /\ hs_rcvids \in [Task -> Seq(Status)]
      /\ DOMAIN hs_rcvids[p] = DOMAIN swapids[p]
      /\ chan \in [Links -> Seq(Messages)]
  BY DEF TypeOK, Distinct
<1> DEFINE at == {j \in DOMAIN swapids[p] : swapids[p][j] = t /\ hs_rcvids[p][j] = "posted"}
           new == [j \in DOMAIN hs_rcvids[p] |-> IF j \in at THEN "complete" ELSE hs_rcvids[p][j]]
<1>2. Posted(p, t, "hs") = at
  BY DEF Posted, Requests, Partner
<1>3. /\ rcvids' = rcvids
      /\ hs_rcvids' = [hs_rcvids EXCEPT ![p] = new]
      /\ chan' = IF at # {} THEN chan ELSE [chan EXCEPT ![<<t, p, "hs">>] = Append(@, m)]
  BY <1>2 DEF Deliver
<1>4. DOMAIN swapids[p] = 1..Len(swapids[p]) /\ Len(swapids[p]) \in Nat
  BY <1>1
<1>5. \A j \in DOMAIN swapids[p] : hs_rcvids[p][j] \in Status
  BY <1>1
<1>6. new \in [1..Len(swapids[p]) -> Status]
  BY <1>1, <1>4, <1>5 DEF Status
<1>7. new \in Seq(Status)
  BY <1>4, <1>6
<1>8. hs_rcvids'[p] = new
  BY <1>1, <1>3
<1>9. hs_rcvids' \in [Task -> Seq(Status)] /\ \A q \in Task \ {p} : hs_rcvids'[q] = hs_rcvids[q]
  BY <1>1, <1>3, <1>7
<1>10. \A j \in DOMAIN swapids[p] :
          hs_rcvids'[p][j] = IF swapids[p][j] = t /\ hs_rcvids[p][j] = "posted"
                             THEN "complete" ELSE hs_rcvids[p][j]
  BY <1>1, <1>8
<1>11. <<t, p, "hs">> \in Links
  BY DEF Links, Kind
<1>12. chan[<<t, p, "hs">>] \in Seq(Messages)
  BY <1>1, <1>11
<1>13. Append(chan[<<t, p, "hs">>], m) \in Seq(Messages)
  BY <1>12
<1>14. chan' \in [Links -> Seq(Messages)] /\ \A l \in Links \ {<<t, p, "hs">>} : chan'[l] = chan[l]
  BY <1>1, <1>3, <1>13
<1>15. IF at # {} THEN chan'[<<t, p, "hs">>] = chan[<<t, p, "hs">>]
       ELSE chan'[<<t, p, "hs">>] = Append(chan[<<t, p, "hs">>], m)
  BY <1>1, <1>3, <1>11
<1>16. DOMAIN hs_rcvids'[p] = DOMAIN swapids[p]
  <2> HIDE DEF new
  <2> QED BY <1>4, <1>6, <1>8
<1>17. IF \E j \in DOMAIN swapids[p] : swapids[p][j] = t /\ hs_rcvids[p][j] = "posted"
       THEN chan'[<<t, p, "hs">>] = chan[<<t, p, "hs">>]
       ELSE chan'[<<t, p, "hs">>] = Append(chan[<<t, p, "hs">>], m)
  BY <1>15
<1> QED
  BY <1>3, <1>9, <1>10, <1>14, <1>16, <1>17

(* Data find the receive for them, or wait.                                *)
LEMMA DeliverData ==
    ASSUME TypeOK, Distinct, NEW t \in Task, NEW p \in Task, NEW m \in Messages, Deliver(t, p, "data", m)
    PROVE  /\ hs_rcvids' = hs_rcvids
           /\ rcvids' \in [Task -> Seq(Status)]
           /\ \A q \in Task \ {p} : rcvids'[q] = rcvids[q]
           /\ DOMAIN rcvids'[p] = DOMAIN swapids[p]
           /\ \A j \in DOMAIN swapids[p] :
                 rcvids'[p][j] = IF swapids[p][j] = t /\ rcvids[p][j] = "posted"
                                 THEN "complete" ELSE rcvids[p][j]
           /\ chan' \in [Links -> Seq(Messages)]
           /\ \A l \in Links \ {<<t, p, "data">>} : chan'[l] = chan[l]
           /\ Posted(p, t, "data") # {} => chan'[<<t, p, "data">>] = chan[<<t, p, "data">>]
<1>1. /\ swapids[p] \in Seq(Task) /\ rcvids \in [Task -> Seq(Status)]
      /\ DOMAIN rcvids[p] = DOMAIN swapids[p]
      /\ chan \in [Links -> Seq(Messages)]
  BY DEF TypeOK, Distinct
<1> DEFINE at == {j \in DOMAIN swapids[p] : swapids[p][j] = t /\ rcvids[p][j] = "posted"}
           new == [j \in DOMAIN rcvids[p] |-> IF j \in at THEN "complete" ELSE rcvids[p][j]]
<1>2. Posted(p, t, "data") = at
  BY DEF Posted, Requests, Partner
<1>3. /\ hs_rcvids' = hs_rcvids
      /\ rcvids' = [rcvids EXCEPT ![p] = new]
      /\ chan' = IF at # {} THEN chan ELSE [chan EXCEPT ![<<t, p, "data">>] = Append(@, m)]
  BY <1>2 DEF Deliver
<1>4. DOMAIN swapids[p] = 1..Len(swapids[p]) /\ Len(swapids[p]) \in Nat
  BY <1>1
<1>5. \A j \in DOMAIN swapids[p] : rcvids[p][j] \in Status
  BY <1>1
<1>6. new \in [1..Len(swapids[p]) -> Status]
  BY <1>1, <1>4, <1>5 DEF Status
<1>7. new \in Seq(Status)
  BY <1>4, <1>6
<1>8. rcvids'[p] = new
  BY <1>1, <1>3
<1>9. rcvids' \in [Task -> Seq(Status)] /\ \A q \in Task \ {p} : rcvids'[q] = rcvids[q]
  BY <1>1, <1>3, <1>7
<1>10. \A j \in DOMAIN swapids[p] :
          rcvids'[p][j] = IF swapids[p][j] = t /\ rcvids[p][j] = "posted"
                          THEN "complete" ELSE rcvids[p][j]
  BY <1>1, <1>8
<1>11. <<t, p, "data">> \in Links
  BY DEF Links, Kind
<1>12. chan[<<t, p, "data">>] \in Seq(Messages)
  BY <1>1, <1>11
<1>13. Append(chan[<<t, p, "data">>], m) \in Seq(Messages)
  BY <1>12
<1>14. chan' \in [Links -> Seq(Messages)] /\ \A l \in Links \ {<<t, p, "data">>} : chan'[l] = chan[l]
  BY <1>1, <1>3, <1>13
<1>15. at # {} => chan'[<<t, p, "data">>] = chan[<<t, p, "data">>]
  BY <1>3
<1>16. DOMAIN rcvids'[p] = DOMAIN swapids[p]
  <2> HIDE DEF new
  <2> QED BY <1>4, <1>6, <1>8
<1> QED
  BY <1>2, <1>3, <1>9, <1>10, <1>14, <1>15, <1>16

-----------------------------------------------------------------------------
(* Within a call a task's partners and limits stay the same.               *)
LEMMA FixedFor ==
    ASSUME NEW q, UNCHANGED <<traffic, fc>>, entered'[q] = entered[q], swapids'[q] = swapids[q]
    PROVE  /\ steps(q)' = steps(q) /\ maxreq(q)' = maxreq(q) /\ maxreqh(q)' = maxreqh(q)
           /\ \A p : Sends(q, p)' = Sends(q, p) /\ Partner(q, p)' = Partner(q, p)
<1>1. steps(q)' = steps(q) /\ Limited(q)' = Limited(q)
  BY DEF steps, Limited
<1>2. maxreq(q)' = maxreq(q)
  BY <1>1 DEF maxreq
<1>3. maxreqh(q)' = maxreqh(q)
  BY <1>1, <1>2 DEF maxreqh
<1>4. \A p : Sends(q, p)' = Sends(q, p) /\ Partner(q, p)' = Partner(q, p)
  BY DEF Sends, Partner
<1> QED
  BY <1>1, <1>2, <1>3, <1>4

LEMMA Fixed ==
    ASSUME UNCHANGED <<traffic, fc, entered, swapids>>
    PROVE  /\ \A q : steps(q)' = steps(q) /\ maxreq(q)' = maxreq(q) /\ maxreqh(q)' = maxreqh(q)
           /\ \A q, p : Sends(q, p)' = Sends(q, p) /\ Partner(q, p)' = Partner(q, p)
BY FixedFor

(* A task that does nothing may see some of its receives complete.         *)
LEMMA Idle ==
    ASSUME NEW q \in Task, UNCHANGED <<traffic, fc>>, entered'[q] = entered[q], swapids'[q] = swapids[q],
           PaceOf(q), WindowOf(q),
           pc'[q] = pc[q], istep'[q] = istep[q], rstep'[q] = rstep[q],
           \A j \in DOMAIN swapids[q] : rcvids'[q][j] = "posted" => rcvids[q][j] = "posted"
    PROVE  PaceOf(q)' /\ WindowOf(q)'
<1>1. Ahead(q)' = Ahead(q)
  BY FixedFor DEF Ahead
<1>2. PaceOf(q)'
  BY FixedFor, <1>1 DEF PaceOf, Exchanging
<1>3. WindowOf(q)'
  BY FixedFor DEF WindowOf
<1> QED
  BY <1>2, <1>3

LEMMA IdleHandshakes ==
    ASSUME NEW q \in Task, UNCHANGED <<traffic, fc>>, entered'[q] = entered[q], swapids'[q] = swapids[q],
           HandshakesOf(q),
           pc'[q] = pc[q], istep'[q] = istep[q], rstep'[q] = rstep[q],
           hs_rcvids'[q] = hs_rcvids[q]
    PROVE  HandshakesOf(q)'
<1>1. nsent(q)' = nsent(q)
  BY DEF nsent
<1>2. \A j : Unsent(q, j)' = Unsent(q, j)
  BY <1>1 DEF Unsent
<1> QED
  BY FixedFor, <1>1, <1>2 DEF HandshakesOf, Exchanging

(* Handshakes that only become fewer leave one at most.                    *)
LEMMA FewerHandshakes ==
    ASSUME NEW p \in Task, NEW t \in Task, OneHandshake(p, t), fc' = fc,
           Telling(p, t)' => Telling(p, t),
           fc.hs /\ fc.isend /\ Told(p, t)' => Told(p, t),
           chan'[<<p, t, "hs">>] = chan[<<p, t, "hs">>],
           chan[<<p, t, "data">>] = <<>> => chan'[<<p, t, "data">>] = <<>>,
           fc.hs /\ fc.isend /\ (Telling(p, t)' \/ Underway(p, t) \/ Told(p, t)') /\ Posted(p, t, "data") # {}
               => Posted(p, t, "data")' # {}
    PROVE  OneHandshake(p, t)'
<1>1. Underway(p, t)' = Underway(p, t)
  BY DEF Underway
<1> QED
  BY <1>1 DEF OneHandshake

(* Nothing changes for a task that is not involved.                        *)
LEMMA SameTelling ==
    ASSUME UNCHANGED swapids, NEW p, NEW t, pc'[p] = pc[p], rstep'[p] = rstep[p]
    PROVE  Telling(p, t)' = Telling(p, t)
BY DEF Telling, Partner

LEMMA SameTold ==
    ASSUME UNCHANGED swapids, NEW p, NEW t, pc'[t] = pc[t], istep'[t] = istep[t],
           hs_rcvids'[t] = hs_rcvids[t]
    PROVE  Told(p, t)' = Told(p, t)
<1>1. \A j : Unsent(t, j)' = Unsent(t, j)
  BY DEF Unsent, nsent
<1> QED
  BY <1>1 DEF Told, Partner

LEMMA SamePosted ==
    ASSUME UNCHANGED swapids, NEW p, NEW t, rcvids'[p] = rcvids[p]
    PROVE  Posted(p, t, "data")' = Posted(p, t, "data")
BY DEF Posted, Partner, Requests

-----------------------------------------------------------------------------
(* In the middle of a call a task stays inside.                            *)
LEMMA StaysInside ==
    ASSUME Inside, NEW t \in Task, UNCHANGED <<entered, left>>, pc[t] # "out",
           \A q \in Task \ {t} : pc'[q] = pc[q]
    PROVE  Inside'
BY DEF Inside

(* A task goes on to a stage in which it neither tells nor waits: for the  *)
(* others, and for handshakes, nothing happened.                           *)
LEMMA Moves ==
    ASSUME Inv, UNCHANGED <<traffic, fc, entered, swapids, istep, rstep, rcvids, hs_rcvids, chan>>,
           NEW t \in Task, NEW s \in Stage \ {"tell", "wait"}, pc[t] # "wait",
           pc' = [pc EXCEPT ![t] = s]
    PROVE  /\ Distinct' /\ pc' \in [Task -> Stage] /\ pc'[t] = s
           /\ \A q \in Task \ {t} : PaceOf(q)' /\ WindowOf(q)' /\ HandshakesOf(q)'
           /\ \A p, q \in Task : OneHandshake(p, q)'
<1>1. pc \in [Task -> Stage]
  BY DEF Inv, TypeOK
<1>2. pc' \in [Task -> Stage] /\ pc'[t] = s /\ \A q \in Task \ {t} : pc'[q] = pc[q]
  BY <1>1
<1>3. Distinct'
  BY DEF Inv, Distinct
<1>4. ASSUME NEW q \in Task \ {t}
      PROVE  PaceOf(q)' /\ WindowOf(q)' /\ HandshakesOf(q)'
  BY <1>2, <1>4, Idle, IdleHandshakes DEF Inv
<1>5. ASSUME NEW p \in Task, NEW q \in Task
      PROVE  OneHandshake(p, q)'
  <2>1. Telling(p, q)' => Telling(p, q)
    BY <1>2 DEF Telling, Partner
  <2>2. nsent(q)' = nsent(q)
    BY <1>2 DEF nsent
  <2>3. Told(p, q)' => Told(p, q)
    BY <2>2 DEF Told, Unsent, Partner
  <2>4. Posted(p, q, "data")' = Posted(p, q, "data")
    BY SamePosted
  <2> QED
    BY <2>1, <2>3, <2>4, FewerHandshakes DEF Inv
<1> QED
  BY <1>2, <1>3, <1>4, <1>5

LEMMA AlltoallwKeeps ==
    ASSUME Inv, NEW t \in Task, Alltoallw(t)
    PROVE  Inv'
<1>1. /\ UNCHANGED <<traffic, fc, entered, swapids, istep, rstep, rcvids, hs_rcvids, chan, left>>
      /\ pc[t] = "alltoall" /\ pc' = [pc EXCEPT ![t] = "return"]
  BY DEF Alltoallw, flow
<1>2. /\ Distinct' /\ pc' \in [Task -> Stage] /\ pc'[t] = "return"
      /\ \A q \in Task \ {t} : PaceOf(q)' /\ WindowOf(q)' /\ HandshakesOf(q)'
      /\ \A p, q \in Task : OneHandshake(p, q)'
  BY <1>1, Moves DEF Stage
<1>3. TypeOK'
  BY <1>1, <1>2 DEF Inv, TypeOK
<1>4. PaceOf(t)'
  BY <1>2 DEF PaceOf, Exchanging
<1>5. WindowOf(t)'
  BY <1>1 DEF Inv, WindowOf
<1>6. HandshakesOf(t)'
  BY <1>1, <1>2 DEF Inv, HandshakesOf, Unsent, Exchanging
<1>7. Inside'
  <2>1. \A q \in Task \ {t} : pc'[q] = pc[q]
    BY <1>1 DEF Inv, TypeOK
  <2> QED
    BY <1>1, <2>1, StaysInside DEF Inv
<1> QED
  BY <1>2, <1>3, <1>4, <1>5, <1>6, <1>7 DEF Inv

LEMMA WaitallKeeps ==
    ASSUME Inv, NEW t \in Task, Waitall(t)
    PROVE  Inv'
<1>1. /\ UNCHANGED <<traffic, fc, entered, swapids, istep, rstep, rcvids, hs_rcvids, chan, left>>
      /\ pc[t] = "send" /\ istep[t] > steps(t) /\ pc' = [pc EXCEPT ![t] = "return"]
      /\ \A j \in DOMAIN swapids[t] : rcvids[t][j] # "posted"
  BY DEF Waitall, flow, requests
<1>2. /\ Distinct' /\ pc' \in [Task -> Stage] /\ pc'[t] = "return"
      /\ \A q \in Task \ {t} : PaceOf(q)' /\ WindowOf(q)' /\ HandshakesOf(q)'
      /\ \A p, q \in Task : OneHandshake(p, q)'
  BY <1>1, Moves DEF Stage
<1>3. TypeOK'
  BY <1>1, <1>2 DEF Inv, TypeOK
<1>4. PaceOf(t)'
  BY <1>2 DEF PaceOf, Exchanging
<1>5. WindowOf(t)'
  BY <1>1 DEF WindowOf
<1>6. HandshakesOf(t)'
  <2>1. swapids[t] \in Seq(Task) /\ istep[t] \in Nat
    BY DEF Inv, TypeOK
  <2>2. \A j \in DOMAIN swapids[t] : j \in Nat /\ j <= istep[t] - 1
    BY <1>1, <2>1 DEF steps
  <2> QED
    BY <1>1, <1>2, <2>1, <2>2 DEF Inv, HandshakesOf, Unsent, Exchanging, nsent
<1>7. Inside'
  <2>1. \A q \in Task \ {t} : pc'[q] = pc[q]
    BY <1>1 DEF Inv, TypeOK
  <2> QED
    BY <1>1, <2>1, StaysInside DEF Inv
<1> QED
  BY <1>2, <1>3, <1>4, <1>5, <1>6, <1>7 DEF Inv

LEMMA ReturnKeeps ==
    ASSUME Inv, NEW t \in Task, Return(t)
    PROVE  Inv'
<1>1. /\ UNCHANGED <<traffic, fc, entered, swapids, istep, rstep, rcvids, hs_rcvids, chan>>
      /\ pc[t] = "return" /\ pc' = [pc EXCEPT ![t] = "out"]
      /\ left' = [left EXCEPT ![t] = entered[t]]
  BY DEF Return, flow, requests
<1>2. /\ Distinct' /\ pc' \in [Task -> Stage] /\ pc'[t] = "out"
      /\ \A q \in Task \ {t} : PaceOf(q)' /\ WindowOf(q)' /\ HandshakesOf(q)'
      /\ \A p, q \in Task : OneHandshake(p, q)'
  BY <1>1, Moves DEF Stage
<1>3. TypeOK'
  <2>1. left' \in [Task -> 0..Rounds]
    BY <1>1 DEF Inv, TypeOK
  <2> QED
    BY <1>1, <1>2, <2>1 DEF Inv, TypeOK
<1>4. PaceOf(t)'
  BY <1>2 DEF PaceOf, Exchanging
<1>5. WindowOf(t)'
  BY <1>1 DEF Inv, WindowOf
<1>6. HandshakesOf(t)'
  BY <1>1, <1>2 DEF Inv, HandshakesOf, Unsent, Exchanging, nsent
<1>7. Inside'
  <2>1. \A q \in Task \ {t} : pc'[q] = pc[q] /\ left'[q] = left[q]
    BY <1>1 DEF Inv, TypeOK
  <2> QED
    BY <1>1, <1>2, <2>1 DEF Inv, Inside
<1> QED
  BY <1>2, <1>3, <1>4, <1>5, <1>6, <1>7 DEF Inv

-----------------------------------------------------------------------------
(* Taking the only message of a channel leaves the channel empty. *)
LEMMA TailOfOne ==
    ASSUME NEW M, NEW s \in Seq(M), s # <<>>, Len(s) <= 1
    PROVE  Tail(s) = <<>> /\ Len(Tail(s)) <= 1
<1>1. Len(s) = 1
  BY EmptySeq
<1>2. Tail(s) \in Seq(M) /\ Len(Tail(s)) = 0
  BY <1>1, HeadTailProperties
<1> QED
  BY <1>2, EmptySeq

(* A handshake that has come before the receive for it, or comes in as the *)
(* receive is posted, is one that has come in.                             *)
LEMMA TakenHandshake ==
    ASSUME NEW p \in Task, NEW t \in Task, OneHandshake(p, t), fc' = fc, TypeOK,
           Telling(p, t)' => Telling(p, t),
           Underway(p, t),
           chan'[<<p, t, "hs">>] = Tail(chan[<<p, t, "hs">>]),
           chan[<<p, t, "data">>] = <<>> => chan'[<<p, t, "data">>] = <<>>,
           Posted(p, t, "data") # {} => Posted(p, t, "data")' # {}
    PROVE  OneHandshake(p, t)'
<1> SUFFICES ASSUME fc.hs /\ fc.isend
             PROVE  /\ Telling(p, t)' \/ Underway(p, t)' \/ Told(p, t)' => Posted(p, t, "data")' # {}
                    /\ ~(Telling(p, t)' /\ Underway(p, t)')
                    /\ ~(Telling(p, t)' /\ Told(p, t)')
                    /\ ~(Underway(p, t)' /\ Told(p, t)')
                    /\ Len(chan'[<<p, t, "hs">>]) <= 1
                    /\ chan'[<<p, t, "data">>] = <<>>
  BY DEF OneHandshake
<1>1. <<p, t, "hs">> \in Links
  BY DEF Links, Kind
<1>2. chan[<<p, t, "hs">>] \in Seq(Messages)
  BY <1>1 DEF TypeOK
<1>3. chan[<<p, t, "hs">>] # <<>> /\ Len(chan[<<p, t, "hs">>]) <= 1
  BY DEF OneHandshake, Underway
<1>4. Tail(chan[<<p, t, "hs">>]) = <<>> /\ Len(Tail(chan[<<p, t, "hs">>])) <= 1
  BY <1>2, <1>3, TailOfOne
<1>5. ~Underway(p, t)'
  BY <1>4 DEF Underway
<1>6. ~Telling(p, t)'
  BY DEF OneHandshake
<1> QED
  BY <1>4, <1>5, <1>6 DEF OneHandshake

LEMMA FirstHandshakesKeeps ==
    ASSUME Inv, NEW t \in Task, FirstHandshakes(t)
    PROVE  Inv'
<1> DEFINE H == IF fc.hs THEN {i \in 1..maxreq(t) : Sends(t, Partner(t, i))} ELSE {}
<1>1. /\ UNCHANGED <<traffic, fc, entered, left, swapids, istep, rstep, rcvids>>
      /\ pc[t] = "handshakes" /\ pc' = [pc EXCEPT ![t] = "receive"]
      /\ PostHandshakes(t, H) /\ TakeFrom(t, {}, H)
  BY DEF FirstHandshakes, flow
<1>2. TypeOK /\ Distinct /\ PaceOf(t) /\ WindowOf(t) /\ HandshakesOf(t)
  BY DEF Inv
<1>3. /\ pc' \in [Task -> Stage] /\ pc'[t] = "receive"
      /\ \A q \in Task \ {t} : pc'[q] = pc[q]
  BY <1>1, <1>2 DEF TypeOK, Stage
<1>4. steps(t) > 0 /\ istep[t] = 1 /\ rstep[t] = 1
  BY <1>1, <1>2 DEF PaceOf, Exchanging
<1>5. /\ steps(t) \in Nat /\ maxreq(t) \in 1..steps(t)
  BY <1>2, <1>4, Limits
<1>6. swapids[t] \in Seq(Task) /\ DOMAIN swapids[t] = 1..steps(t)
  BY <1>2 DEF TypeOK, steps
<1>7. H \in SUBSET DOMAIN swapids[t]
  BY <1>5, <1>6
<1>8. \A j \in H : Sends(t, Partner(t, j)) /\ j <= maxreq(t)
  BY <1>5
<1>9. \A j \in DOMAIN swapids[t] : fc.hs /\ Sends(t, Partner(t, j)) /\ j <= maxreq(t) => j \in H
  BY <1>5, <1>6
<1>10. fc.hs \/ H = {}
  OBVIOUS
<1> HIDE DEF H
<1>11. /\ hs_rcvids' \in [Task -> Seq(Status)]
       /\ \A q \in Task \ {t} : hs_rcvids'[q] = hs_rcvids[q]
       /\ DOMAIN hs_rcvids'[t] = DOMAIN swapids[t]
       /\ \A j \in DOMAIN swapids[t] \ H : hs_rcvids'[t][j] = hs_rcvids[t][j]
       /\ \A j \in H : hs_rcvids'[t][j] = IF chan[<<swapids[t][j], t, "hs">>] = <<>>
                                          THEN "posted" ELSE "complete"
  BY <1>1, <1>2, <1>7, PostHandshakesEffect
<1>12. Takes(t, H)
  <2> DEFINE D == {}
  <2>1. D \in SUBSET DOMAIN swapids[t] /\ TakeFrom(t, D, H)
    BY <1>1
  <2> HIDE DEF D
  <2> QED
    BY <1>2, <1>7, <2>1, TakeFromEffect
<1>13. TypeOK'
  BY <1>1, <1>2, <1>3, <1>11, <1>12 DEF TypeOK, Takes
<1>14. Distinct'
  BY <1>1, <1>2, <1>11 DEF Distinct
<1>15. \A q \in Task \ {t} : PaceOf(q)' /\ WindowOf(q)' /\ HandshakesOf(q)'
  BY <1>1, <1>3, <1>11, Idle, IdleHandshakes DEF Inv
<1>16. PaceOf(t)'
  BY <1>1, <1>3, <1>4, <1>5, Fixed DEF PaceOf, Exchanging
<1>17. WindowOf(t)'
  BY <1>1, <1>2 DEF WindowOf
<1>18. HandshakesOf(t)'
  <2> SUFFICES ASSUME fc.hs, NEW j \in DOMAIN swapids[t]
               PROVE  /\ hs_rcvids'[t][j] # "null" <=>
                            Sends(t, Partner(t, j)) /\ (j <= maxreq(t) \/ j < rstep[t])
                      /\ j > nsent(t)'
    BY <1>1, <1>3, Fixed DEF HandshakesOf, Exchanging
  <2>1. hs_rcvids[t][j] = "null"
    BY <1>1, <1>2 DEF HandshakesOf
  <2>2. hs_rcvids'[t][j] # "null" <=> j \in H
    BY <1>11, <2>1
  <2>3. j \in Nat /\ j >= 1
    BY <1>5, <1>6
  <2> QED
    BY <1>1, <1>3, <1>4, <1>8, <1>9, <2>2, <2>3 DEF nsent
<1>19. ASSUME NEW p \in Task, NEW q \in Task
       PROVE  OneHandshake(p, q)'
  <2>1. Telling(p, q)' => Telling(p, q)
    BY <1>1, <1>3 DEF Telling, Partner
  <2>2. Posted(p, q, "data")' = Posted(p, q, "data")
    BY <1>1, SamePosted
  <2>3. OneHandshake(p, q)
    BY DEF Inv
  <2>4. CASE q = t /\ Underway(p, q) /\ \E j \in H : swapids[t][j] = p
    <3>1. chan'[<<p, q, "hs">>] = Tail(chan[<<p, q, "hs">>])
      BY <1>12, <2>4 DEF Underway, Takes
    <3> QED
      BY <1>1, <1>2, <1>12, <2>1, <2>2, <2>3, <2>4, <3>1, TakenHandshake DEF Takes
  <2>5. CASE ~(q = t /\ Underway(p, q) /\ \E j \in H : swapids[t][j] = p)
    <3>1. chan'[<<p, q, "hs">>] = chan[<<p, q, "hs">>]
      BY <1>12, <2>5 DEF Underway, Takes
    <3>2. fc.hs => (Told(p, q)' => Told(p, q))
      <4>1. CASE q # t
        BY <1>1, <1>3, <1>11, <4>1, SameTold
      <4>2. CASE q = t
        <5>1. ASSUME fc.hs, NEW j \in DOMAIN swapids[t], swapids[t][j] = p
              PROVE  hs_rcvids'[t][j] # "complete"
          <6>1. hs_rcvids[t][j] = "null"
            BY <1>1, <1>2, <5>1 DEF HandshakesOf
          <6>2. j \in H => chan[<<swapids[t][j], t, "hs">>] = <<>>
            BY <2>5, <4>2, <5>1 DEF Underway
          <6> QED
            BY <1>11, <6>1, <6>2
        <5>2. CASE fc.hs
          BY <1>1, <4>2, <5>1, <5>2 DEF Told, Unsent, Partner
        <5> QED
          BY <5>2
      <4> QED
        BY <4>1, <4>2
    <3> QED
      BY <1>1, <1>12, <2>1, <2>2, <2>3, <3>1, <3>2, FewerHandshakes DEF Takes
  <2> QED
    BY <2>4, <2>5
<1>20. Inside'
  BY <1>1, <1>3, StaysInside DEF Inv
<1> QED
  BY <1>13, <1>14, <1>15, <1>16, <1>17, <1>18, <1>19, <1>20 DEF Inv

-----------------------------------------------------------------------------
(* Task t posts receives for data from the partners in positions D and for *)
(* handshakes from those in H, and the rest of its step only concerns it.  *)
Posts(t, D, H) ==
    /\ UNCHANGED <<traffic, fc, entered, swapids>>
    /\ pc[t] \in {"receive", "wait"} /\ pc' \in [Task -> Stage]
    /\ D \subseteq {rstep[t]}
    /\ pc'[t] = "tell" => D # {} /\ rstep'[t] = rstep[t] + 1
    /\ nsent(t)' = nsent(t)
    /\ \A q \in Task \ {t} : /\ pc'[q] = pc[q] /\ istep'[q] = istep[q] /\ rstep'[q] = rstep[q]
                             /\ rcvids'[q] = rcvids[q] /\ hs_rcvids'[q] = hs_rcvids[q]
    /\ \A j \in DOMAIN swapids[t] \ D : rcvids'[t][j] = rcvids[t][j]
    /\ \A j \in D : chan[<<swapids[t][j], t, "data">>] = <<>> => rcvids'[t][j] = "posted"
    /\ \A j \in DOMAIN swapids[t] \ H : hs_rcvids'[t][j] = hs_rcvids[t][j]
    /\ \A j \in H : hs_rcvids'[t][j] = IF chan[<<swapids[t][j], t, "hs">>] = <<>>
                                       THEN "posted" ELSE "complete"
    /\ Takes(t, H)

(* In the other direction it then owes its partner a handshake, and none   *)
(* is about from before.                                                   *)
LEMMA Posting ==
    ASSUME Inv, NEW t \in Task, NEW D \in SUBSET DOMAIN swapids[t], NEW H \in SUBSET DOMAIN swapids[t],
           Posts(t, D, H), NEW p \in Task, NEW q \in Task
    PROVE  OneHandshake(p, q)'
<1> USE DEF Posts, Takes
<1>1. TypeOK /\ Distinct /\ WindowOf(t) /\ OneHandshake(p, q)
  BY DEF Inv
<1>2. swapids[t] \in Seq(Task) /\ rstep[t] \in Nat /\ DOMAIN swapids[t] \subseteq Nat
  <2>1. swapids[t] \in Seq(Task) /\ rstep[t] \in Nat
    BY <1>1 DEF TypeOK
  <2> QED
    BY <2>1
<1>3. \A j \in DOMAIN swapids[t] : rcvids[t][j] = "posted" => j < rstep[t] /\ j \notin D
  BY <1>1, <1>2 DEF WindowOf
<1>4. \A x \in Task : Posted(t, x, "data") \subseteq Posted(t, x, "data")'
  BY <1>3 DEF Posted, Partner, Requests
<1>5. \A x, y \in Task : x # t => Posted(x, y, "data")' = Posted(x, y, "data")
  BY DEF Posted, Partner, Requests
<1>6. \A x, y \in Task : x # t => Telling(x, y)' = Telling(x, y)
  BY DEF Telling, Partner
<1>7. \A x, y \in Task : y # t => Told(x, y)' = Told(x, y)
  BY SameTold
<1>8. CASE p # t /\ q # t
  <2>1. chan'[<<p, q, "hs">>] = chan[<<p, q, "hs">>]
    BY <1>8
  <2>2. Telling(p, q)' = Telling(p, q) /\ Told(p, q)' = Told(p, q)
    BY <1>6, <1>7, <1>8
  <2>3. Posted(p, q, "data")' = Posted(p, q, "data")
    BY <1>5, <1>8
  <2> QED
    BY <1>1, <2>1, <2>2, <2>3, FewerHandshakes
<1>9. CASE p = t /\ q = t
  <2>1. ~Telling(t, t) /\ ~Telling(t, t)' /\ ~Told(t, t) /\ ~Told(t, t)'
    BY <1>1 DEF Distinct, Telling, Told, Partner
  <2>2. Posted(t, t, "data") = {}
    BY <1>1 DEF Distinct, Posted, Partner
  <2>3. CASE fc.hs /\ fc.isend
    <3>1. chan[<<t, t, "hs">>] = <<>>
      BY <1>1, <1>9, <2>2, <2>3 DEF OneHandshake, Underway
    <3>2. chan'[<<t, t, "hs">>] = chan[<<t, t, "hs">>]
      BY <3>1
    <3> QED
      BY <1>1, <1>9, <2>1, <2>2, <3>2, FewerHandshakes
  <2> QED
    BY <2>3 DEF OneHandshake
<1>10. CASE p = t /\ q # t
  <2>1. chan'[<<t, q, "hs">>] = chan[<<t, q, "hs">>]
    BY <1>10
  <2>2. CASE Telling(t, q)' /\ fc.hs /\ fc.isend
    <3>1. D = {rstep[t]} /\ rstep'[t] - 1 = rstep[t] /\ swapids[t][rstep[t]] = q
      BY <1>2, <2>2 DEF Telling, Partner
    <3>2. Posted(t, q, "data") = {}
      BY <1>1, <1>3, <3>1 DEF Posted, Partner, Requests, Distinct
    <3>3. chan[<<q, t, "data">>] = <<>>
      BY <2>2 DEF Inv, OneHandshake
    <3>4. rcvids'[t][rstep[t]] = "posted"
      BY <3>1, <3>3
    <3>5. Posted(t, q, "data")' # {}
      BY <3>1, <3>4 DEF Posted, Partner, Requests
    <3>6. ~Underway(t, q) /\ ~Told(t, q)
      BY <1>1, <1>10, <2>2, <3>2 DEF OneHandshake
    <3>7. ~Underway(t, q)' /\ ~Told(t, q)'
      BY <1>7, <1>10, <2>1, <3>6 DEF Underway
    <3> QED
      BY <1>1, <1>10, <2>1, <3>5, <3>7 DEF OneHandshake
  <2>3. CASE ~Telling(t, q)'
    <3>1. Told(t, q)' = Told(t, q)
      BY <1>7, <1>10
    <3>2. Posted(t, q, "data") # {} => Posted(t, q, "data")' # {}
      BY <1>4
    <3> QED
      BY <1>1, <1>10, <2>1, <2>3, <3>1, <3>2, FewerHandshakes
  <2> QED
    BY <2>2, <2>3 DEF OneHandshake
<1>11. CASE p # t /\ q = t
  <2>1. CASE Underway(p, t) /\ \E j \in H : swapids[t][j] = p
    <3>1. chan'[<<p, t, "hs">>] = Tail(chan[<<p, t, "hs">>])
      BY <2>1 DEF Underway
    <3> QED
      BY <1>1, <1>5, <1>6, <1>11, <2>1, <3>1, TakenHandshake
  <2>2. CASE ~(Underway(p, t) /\ \E j \in H : swapids[t][j] = p)
    <3>1. chan'[<<p, t, "hs">>] = chan[<<p, t, "hs">>]
      BY <2>2 DEF Underway
    <3>2. ASSUME NEW j \in DOMAIN swapids[t], swapids[t][j] = p, hs_rcvids'[t][j] = "complete"
          PROVE  hs_rcvids[t][j] = "complete"
      BY <2>2, <3>2 DEF Underway
    <3>3. Told(p, t)' => Told(p, t)
      BY <3>2 DEF Told, Unsent, Partner
    <3>4. Telling(p, t)' = Telling(p, t) /\ Posted(p, t, "data")' = Posted(p, t, "data")
      BY <1>5, <1>6, <1>11
    <3> QED
      BY <1>1, <1>11, <3>1, <3>3, <3>4, FewerHandshakes
  <2> QED
    BY <2>1, <2>2
<1> QED
  BY <1>8, <1>9, <1>10, <1>11

LEMMA FirstReceiveKeeps ==
    ASSUME Inv, NEW t \in Task, FirstReceive(t)
    PROVE  Inv'
<1> DEFINE D == Expected(t, rstep[t])
           H == {}
<1>1. /\ UNCHANGED <<traffic, fc, entered, left, swapids, istep, hs_rcvids>>
      /\ pc[t] = "receive"
      /\ pc' = [pc EXCEPT ![t] = IF fc.hs /\ D # {} THEN "tell"
                                 ELSE IF rstep[t] < maxreq(t) THEN "receive" ELSE "send"]
      /\ rstep' = [rstep EXCEPT ![t] = @ + 1]
      /\ PostData(t, D) /\ TakeFrom(t, D, H)
  BY DEF FirstReceive, flow
<1>2. TypeOK /\ Distinct /\ PaceOf(t) /\ WindowOf(t) /\ HandshakesOf(t)
  BY DEF Inv
<1>3. steps(t) > 0 /\ istep[t] = 1 /\ rstep[t] <= maxreq(t) /\ rstep[t] \in Nat \ {0}
  BY <1>1, <1>2 DEF PaceOf, Exchanging, TypeOK
<1>4. steps(t) \in Nat /\ maxreq(t) \in 1..steps(t) /\ maxreqh(t) \in 1..maxreq(t)
  BY <1>2, <1>3, Limits
<1>5. swapids[t] \in Seq(Task) /\ DOMAIN swapids[t] = 1..steps(t)
  BY <1>2 DEF TypeOK, steps
<1>6. D \subseteq {rstep[t]} /\ D \in SUBSET DOMAIN swapids[t] /\ H \in SUBSET DOMAIN swapids[t]
  BY <1>3, <1>4, <1>5 DEF Expected
<1>7. \A j : j \notin H
  OBVIOUS
<1>8. /\ pc' \in [Task -> Stage] /\ pc'[t] \in {"receive", "tell", "send"}
      /\ pc'[t] = "tell" => D # {}
      /\ pc'[t] = "receive" => rstep[t] < maxreq(t)
      /\ pc'[t] = "send" => rstep[t] >= maxreq(t) \/ (fc.hs /\ D # {})
      /\ \A q \in Task \ {t} : pc'[q] = pc[q]
  BY <1>1, <1>2, <1>3, <1>4 DEF TypeOK, Stage
<1>9. /\ rstep' \in [Task -> Nat \ {0}] /\ rstep'[t] = rstep[t] + 1
      /\ \A q \in Task \ {t} : rstep'[q] = rstep[q]
  BY <1>1, <1>2, <1>3 DEF TypeOK
<1>10. pc'[t] = "send" => rstep[t] = maxreq(t)
  BY <1>1, <1>2, <1>3, <1>4 DEF TypeOK
<1> HIDE DEF D, H
<1>11. /\ rcvids' \in [Task -> Seq(Status)]
       /\ \A q \in Task \ {t} : rcvids'[q] = rcvids[q]
       /\ DOMAIN rcvids'[t] = DOMAIN swapids[t]
       /\ \A j \in DOMAIN swapids[t] \ D : rcvids'[t][j] = rcvids[t][j]
       /\ \A j \in D : chan[<<swapids[t][j], t, "data">>] = <<>> => rcvids'[t][j] = "posted"
  BY <1>1, <1>2, <1>6, PostDataEffect
<1>12. Takes(t, H)
  <2>1. TakeFrom(t, D, H)
    BY <1>1
  <2> QED
    BY <1>2, <1>6, <2>1, TakeFromEffect
<1>13. TypeOK'
  BY <1>1, <1>2, <1>8, <1>9, <1>11, <1>12 DEF TypeOK, Takes
<1>14. Distinct'
  BY <1>1, <1>2, <1>11 DEF Distinct
<1>15. \A q \in Task \ {t} : PaceOf(q)' /\ WindowOf(q)' /\ HandshakesOf(q)'
  BY <1>1, <1>8, <1>9, <1>11, Idle, IdleHandshakes DEF Inv
<1>16. PaceOf(t)'
  <2>1. Ahead(t)' = maxreq(t) + 1
    BY <1>1, <1>3, <1>4, Fixed DEF Ahead
  <2> QED
    BY <1>1, <1>3, <1>4, <1>8, <1>9, <1>10, <2>1, Fixed DEF PaceOf, Exchanging
<1>17. WindowOf(t)'
  <2> SUFFICES ASSUME NEW j \in DOMAIN swapids[t], rcvids'[t][j] = "posted"
               PROVE  j < rstep'[t] /\ istep'[t] <= j + maxreqh(t)
    BY <1>1, <1>8, Fixed DEF WindowOf
  <2>1. j \in 1..steps(t)
    BY <1>5
  <2>2. CASE j \in D
    BY <1>1, <1>3, <1>4, <1>6, <1>9, <2>1, <2>2
  <2>3. CASE j \notin D
    <3>1. j < rstep[t]
      BY <1>2, <1>11, <2>3 DEF WindowOf
    <3> QED
      BY <1>1, <1>3, <1>4, <1>9, <2>1, <3>1
  <2> QED
    BY <2>2, <2>3
<1>18. nsent(t)' = nsent(t)
  BY <1>1, <1>8 DEF nsent
<1>19. HandshakesOf(t)'
  <2> SUFFICES ASSUME fc.hs, NEW j \in DOMAIN swapids[t]
               PROVE  /\ hs_rcvids[t][j] # "null" <=>
                            Sends(t, Partner(t, j)) /\ (j <= maxreq(t) \/ j < rstep'[t])
                      /\ hs_rcvids[t][j] = "posted" => j > nsent(t)
    BY <1>1, <1>8, <1>18, Fixed DEF HandshakesOf, Exchanging
  <2>1. j \in 1..steps(t)
    BY <1>5
  <2>2. j < rstep'[t] => j <= maxreq(t)
    BY <1>3, <1>4, <1>9, <2>1
  <2>3. j < rstep[t] => j < rstep'[t]
    BY <1>3, <1>9, <2>1
  <2> QED
    BY <1>1, <1>2, <2>2, <2>3 DEF HandshakesOf, Exchanging
<1>20. \A p, q \in Task : OneHandshake(p, q)'
  <2>1. \A j \in DOMAIN swapids[t] : hs_rcvids'[t][j] = hs_rcvids[t][j]
    BY <1>1
  <2>2. \A q \in Task \ {t} : /\ pc'[q] = pc[q] /\ istep'[q] = istep[q] /\ rstep'[q] = rstep[q]
                              /\ rcvids'[q] = rcvids[q] /\ hs_rcvids'[q] = hs_rcvids[q]
    BY <1>1, <1>8, <1>9, <1>11
  <2>3. /\ \A j \in DOMAIN swapids[t] \ H : hs_rcvids'[t][j] = hs_rcvids[t][j]
        /\ \A j \in H : hs_rcvids'[t][j] = IF chan[<<swapids[t][j], t, "hs">>] = <<>>
                                            THEN "posted" ELSE "complete"
    BY <1>7, <2>1
  <2>4. Posts(t, D, H)
    BY <1>1, <1>6, <1>8, <1>9, <1>11, <1>12, <1>18, <2>2, <2>3 DEF Posts
  <2> QED
    BY <1>6, <2>4, Posting
<1>21. Inside'
  BY <1>1, <1>8, StaysInside DEF Inv
<1> QED
  BY <1>13, <1>14, <1>15, <1>16, <1>17, <1>19, <1>20, <1>21 DEF Inv

LEMMA WaitAndPostKeeps ==
    ASSUME Inv, NEW t \in Task, WaitAndPost(t)
    PROVE  Inv'
<1> DEFINE waits == istep[t] > maxreqh(t)
           more == waits /\ rstep[t] <= steps(t)
           D == IF more THEN Expected(t, rstep[t]) ELSE {}
           H == IF more /\ fc.hs THEN {j \in {rstep[t]} : Sends(t, Partner(t, j))} ELSE {}
<1>1. /\ UNCHANGED <<traffic, fc, entered, left, swapids>>
      /\ pc[t] = "wait"
      /\ pc' = [pc EXCEPT ![t] = IF fc.hs /\ D # {} THEN "tell" ELSE "send"]
      /\ waits => rcvids[t][istep[t] - maxreqh(t)] # "posted"
      /\ istep' = [istep EXCEPT ![t] = @ + 1]
      /\ rstep' = [rstep EXCEPT ![t] = IF more THEN @ + 1 ELSE @]
      /\ PostHandshakes(t, H) /\ PostData(t, D) /\ TakeFrom(t, D, H)
  BY DEF WaitAndPost, flow
<1>2. TypeOK /\ Distinct /\ PaceOf(t) /\ WindowOf(t) /\ HandshakesOf(t)
  BY DEF Inv
<1>3. /\ steps(t) > 0 /\ rstep[t] = Ahead(t) /\ istep[t] <= steps(t)
      /\ rstep[t] \in Nat \ {0} /\ istep[t] \in Nat \ {0}
  BY <1>1, <1>2 DEF PaceOf, Exchanging, TypeOK
<1>4. /\ steps(t) \in Nat /\ maxreq(t) \in 1..steps(t) /\ maxreqh(t) \in 1..maxreq(t)
      /\ maxreqh(t) = maxreq(t) => maxreq(t) = steps(t)
  BY <1>2, <1>3, Limits
<1>5. swapids[t] \in Seq(Task) /\ DOMAIN swapids[t] = 1..steps(t)
  BY <1>2 DEF TypeOK, steps
<1>6. /\ D \subseteq {rstep[t]} /\ D \in SUBSET DOMAIN swapids[t] /\ H \in SUBSET DOMAIN swapids[t]
      /\ D # {} => more
  BY <1>3, <1>4, <1>5 DEF Expected
<1>7. \A j \in DOMAIN swapids[t] : fc.hs => (j \in H <=> more /\ j = rstep[t] /\ Sends(t, Partner(t, j)))
  OBVIOUS
<1>8. more => rstep[t] > maxreq(t) /\ rstep[t] > istep[t] /\ istep[t] + 1 <= rstep[t] + maxreqh(t)
  BY <1>3, <1>4 DEF Ahead
<1>9. /\ pc' \in [Task -> Stage] /\ pc'[t] \in {"tell", "send"}
      /\ pc'[t] = "tell" => D # {}
      /\ \A q \in Task \ {t} : pc'[q] = pc[q]
  BY <1>1, <1>2 DEF TypeOK, Stage
<1>10. /\ rstep' \in [Task -> Nat \ {0}] /\ istep' \in [Task -> Nat \ {0}]
       /\ istep'[t] = istep[t] + 1
       /\ rstep'[t] = IF more THEN rstep[t] + 1 ELSE rstep[t]
       /\ \A q \in Task \ {t} : istep'[q] = istep[q] /\ rstep'[q] = rstep[q]
  BY <1>1, <1>2, <1>3 DEF TypeOK
<1>11. Ahead(t)' = rstep'[t]
  BY <1>1, <1>3, <1>4, <1>10, Fixed DEF Ahead
<1>12. waits => \A j \in DOMAIN swapids[t] : rcvids[t][j] = "posted" => j # istep[t] - maxreqh(t)
  BY <1>1
<1> HIDE DEF D, H, more, waits
<1>13. /\ rcvids' \in [Task -> Seq(Status)]
       /\ \A q \in Task \ {t} : rcvids'[q] = rcvids[q]
       /\ DOMAIN rcvids'[t] = DOMAIN swapids[t]
       /\ \A j \in DOMAIN swapids[t] \ D : rcvids'[t][j] = rcvids[t][j]
       /\ \A j \in D : chan[<<swapids[t][j], t, "data">>] = <<>> => rcvids'[t][j] = "posted"
  BY <1>1, <1>2, <1>6, PostDataEffect
<1>14. /\ hs_rcvids' \in [Task -> Seq(Status)]
       /\ \A q \in Task \ {t} : hs_rcvids'[q] = hs_rcvids[q]
       /\ DOMAIN hs_rcvids'[t] = DOMAIN swapids[t]
       /\ \A j \in DOMAIN swapids[t] \ H : hs_rcvids'[t][j] = hs_rcvids[t][j]
       /\ \A j \in H : hs_rcvids'[t][j] = IF chan[<<swapids[t][j], t, "hs">>] = <<>>
                                          THEN "posted" ELSE "complete"
  BY <1>1, <1>2, <1>6, PostHandshakesEffect
<1>15. Takes(t, H)
  <2>1. TakeFrom(t, D, H)
    BY <1>1
  <2> QED
    BY <1>2, <1>6, <2>1, TakeFromEffect
<1>16. TypeOK'
  BY <1>1, <1>2, <1>9, <1>10, <1>13, <1>14, <1>15 DEF TypeOK, Takes
<1>17. Distinct'
  BY <1>1, <1>2, <1>13, <1>14 DEF Distinct
<1>18. \A q \in Task \ {t} : PaceOf(q)' /\ WindowOf(q)' /\ HandshakesOf(q)'
  BY <1>1, <1>9, <1>10, <1>13, <1>14, Idle, IdleHandshakes DEF Inv
<1>19. PaceOf(t)'
  BY <1>1, <1>3, <1>4, <1>6, <1>9, <1>10, <1>11, Fixed DEF PaceOf, Exchanging
<1>20. WindowOf(t)'
  <2> SUFFICES ASSUME NEW j \in DOMAIN swapids[t], rcvids'[t][j] = "posted"
               PROVE  j < rstep'[t] /\ istep'[t] <= j + maxreqh(t)
    BY <1>1, <1>9, Fixed DEF WindowOf
  <2>1. j \in 1..steps(t)
    BY <1>5
  <2>2. CASE j \in D
    BY <1>3, <1>4, <1>6, <1>8, <1>10, <2>1, <2>2
  <2>3. CASE j \notin D
    <3>1. rcvids[t][j] = "posted"
      BY <1>13, <2>3
    <3>2. j < rstep[t] /\ istep[t] <= j + maxreqh(t)
      BY <1>2, <3>1 DEF WindowOf
    <3>3. waits => j # istep[t] - maxreqh(t)
      BY <1>12, <3>1
    <3> QED
      BY <1>3, <1>4, <1>10, <2>1, <3>2, <3>3 DEF waits
  <2> QED
    BY <2>2, <2>3
<1>21. nsent(t)' = nsent(t)
  BY <1>1, <1>3, <1>9, <1>10 DEF nsent
<1>22. HandshakesOf(t)'
  <2> SUFFICES ASSUME fc.hs, NEW j \in DOMAIN swapids[t]
               PROVE  /\ hs_rcvids'[t][j] # "null" <=>
                            Sends(t, Partner(t, j)) /\ (j <= maxreq(t) \/ j < rstep'[t])
                      /\ hs_rcvids'[t][j] = "posted" => j > nsent(t)
    BY <1>1, <1>9, <1>21, Fixed DEF HandshakesOf, Exchanging
  <2>1. j \in 1..steps(t)
    BY <1>5
  <2>2. /\ hs_rcvids[t][j] # "null" <=> Sends(t, Partner(t, j)) /\ (j <= maxreq(t) \/ j < rstep[t])
        /\ hs_rcvids[t][j] = "posted" => j > nsent(t)
    BY <1>1, <1>2 DEF HandshakesOf, Exchanging
  <2>3. nsent(t) = istep[t]
    BY <1>1 DEF nsent
  <2>4. CASE j \in H
    <3>1. more /\ j = rstep[t] /\ Sends(t, Partner(t, j))
      BY <1>7, <2>4
    <3>2. hs_rcvids'[t][j] # "null"
      BY <1>14, <2>4
    <3> QED
      BY <1>3, <1>8, <1>10, <2>3, <3>1, <3>2
  <2>5. CASE j \notin H
    BY <1>3, <1>4, <1>7, <1>8, <1>10, <1>14, <2>1, <2>2, <2>5
  <2> QED
    BY <2>4, <2>5
<1>23. \A p, q \in Task : OneHandshake(p, q)'
  <2>1. \A q \in Task \ {t} : /\ pc'[q] = pc[q] /\ istep'[q] = istep[q] /\ rstep'[q] = rstep[q]
                              /\ rcvids'[q] = rcvids[q] /\ hs_rcvids'[q] = hs_rcvids[q]
    BY <1>9, <1>10, <1>13, <1>14
  <2>2. pc'[t] = "tell" => D # {} /\ rstep'[t] = rstep[t] + 1
    BY <1>6, <1>9, <1>10
  <2>3. Posts(t, D, H)
    BY <1>1, <1>6, <1>9, <1>13, <1>14, <1>15, <1>21, <2>1, <2>2 DEF Posts
  <2> QED
    BY <1>6, <2>3, Posting
<1>24. Inside'
  BY <1>1, <1>9, StaysInside DEF Inv
<1> QED
  BY <1>16, <1>17, <1>18, <1>19, <1>20, <1>22, <1>23, <1>24 DEF Inv

-----------------------------------------------------------------------------
(* A handshake goes from the task that tells to its partner.               *)
LEMMA TellKeeps ==
    ASSUME Inv, NEW t \in Task, Tell(t)
    PROVE  Inv'
<1> DEFINE p == Partner(t, rstep[t] - 1)
           m == Message(t, 0)
<1>1. /\ UNCHANGED <<traffic, fc, entered, left, swapids, istep, rstep>>
      /\ pc[t] = "tell"
      /\ pc' = [pc EXCEPT ![t] = IF rstep[t] <= maxreq(t) THEN "receive" ELSE "send"]
      /\ Deliver(t, p, "hs", m)
  BY DEF Tell, flow
<1>2. TypeOK /\ Distinct /\ PaceOf(t) /\ WindowOf(t) /\ HandshakesOf(t)
  BY DEF Inv
<1>3. /\ steps(t) > 0 /\ rstep[t] > 1 /\ istep[t] <= steps(t) + 1
      /\ rstep[t] = Ahead(t) \/ (istep[t] = 1 /\ rstep[t] <= maxreq(t))
      /\ rstep[t] \in Nat \ {0} /\ istep[t] \in Nat \ {0}
  BY <1>1, <1>2 DEF PaceOf, Exchanging, TypeOK
<1>4. steps(t) \in Nat /\ maxreq(t) \in 1..steps(t) /\ maxreqh(t) \in 1..maxreq(t)
  BY <1>2, <1>3, Limits
<1>5. swapids[t] \in Seq(Task) /\ DOMAIN swapids[t] = 1..steps(t)
  BY <1>2 DEF TypeOK, steps
<1>6. rstep[t] - 1 \in DOMAIN swapids[t]
  BY <1>3, <1>4, <1>5 DEF Ahead
<1>7. p \in Task /\ p # t
  <2>1. \A j \in DOMAIN swapids[t] : swapids[t][j] \in Task
    <3>1. swapids[t] \in Seq(Task)
      BY <1>5
    <3> QED
      BY <3>1
  <2>2. \A j \in DOMAIN swapids[t] : swapids[t][j] # t
    BY <1>2 DEF Distinct
  <2> QED
    BY <1>6, <2>1, <2>2 DEF Partner
<1>8. m \in Messages
  BY <1>2 DEF TypeOK, Message, Messages
<1>9. /\ pc' \in [Task -> Stage] /\ pc'[t] \in {"receive", "send"}
      /\ pc'[t] = "receive" => rstep[t] <= maxreq(t)
      /\ pc'[t] = "send" => rstep[t] > maxreq(t)
      /\ \A q \in Task \ {t} : pc'[q] = pc[q]
  BY <1>1, <1>2, <1>3, <1>4 DEF TypeOK, Stage
<1> HIDE DEF p, m
<1>10. /\ rcvids' = rcvids
       /\ hs_rcvids' \in [Task -> Seq(Status)]
       /\ \A q \in Task \ {p} : hs_rcvids'[q] = hs_rcvids[q]
       /\ DOMAIN hs_rcvids'[p] = DOMAIN swapids[p]
       /\ \A j \in DOMAIN swapids[p] :
             hs_rcvids'[p][j] = IF swapids[p][j] = t /\ hs_rcvids[p][j] = "posted"
                                THEN "complete" ELSE hs_rcvids[p][j]
       /\ chan' \in [Links -> Seq(Messages)]
       /\ \A l \in Links \ {<<t, p, "hs">>} : chan'[l] = chan[l]
       /\ IF \E j \in DOMAIN swapids[p] : swapids[p][j] = t /\ hs_rcvids[p][j] = "posted"
          THEN chan'[<<t, p, "hs">>] = chan[<<t, p, "hs">>]
          ELSE chan'[<<t, p, "hs">>] = Append(chan[<<t, p, "hs">>], m)
  BY <1>1, <1>2, <1>7, <1>8, DeliverHandshake
<1>11. TypeOK'
  BY <1>1, <1>2, <1>9, <1>10 DEF TypeOK
<1>12. Distinct'
  BY <1>1, <1>2, <1>7, <1>10 DEF Distinct
<1>13. Inside'
  BY <1>1, <1>9, StaysInside DEF Inv
<1>14. PaceOf(t)'
  <2>1. Ahead(t)' = Ahead(t)
    BY <1>1, Fixed DEF Ahead
  <2>2. rstep[t] > maxreq(t) => rstep[t] = Ahead(t)
    BY <1>3, <1>4
  <2>3. rstep[t] <= maxreq(t) => istep[t] = 1
    BY <1>3, <1>4 DEF Ahead
  <2> QED
    BY <1>1, <1>3, <1>9, <2>1, <2>2, <2>3, Fixed DEF PaceOf, Exchanging
<1>15. WindowOf(t)'
  BY <1>1, <1>2, <1>9, <1>10, Fixed DEF WindowOf
<1>16. \A q \in Task \ {t} : PaceOf(q)' /\ WindowOf(q)'
  BY <1>1, <1>9, <1>10, Idle DEF Inv
<1>17. \A q \in Task : nsent(q)' = nsent(q)
  BY <1>1, <1>9 DEF nsent
<1>18. ASSUME NEW q \in Task
       PROVE  HandshakesOf(q)'
  <2>1. HandshakesOf(q)
    BY DEF Inv
  <2>2. Exchanging(q)' = Exchanging(q)
    BY <1>1, <1>9 DEF Exchanging
  <2>3. pc'[q] = pc[q] \/ (q = t /\ pc'[q] \in {"receive", "send"})
    BY <1>9
  <2> SUFFICES ASSUME fc.hs, NEW j \in DOMAIN swapids[q]
               PROVE  /\ pc'[q] \in {"alltoall", "handshakes"} => hs_rcvids'[q][j] = "null"
                      /\ pc'[q] \in {"receive", "tell", "send", "wait"} =>
                            (hs_rcvids'[q][j] # "null"
                               <=> Sends(q, Partner(q, j)) /\ (j <= maxreq(q) \/ j < rstep[q]))
                      /\ hs_rcvids'[q][j] = "posted" => Exchanging(q) /\ j > nsent(q)
                      /\ hs_rcvids'[q][j] = "complete" /\ j > nsent(q) => Exchanging(q)
    BY <1>1, <1>17, <2>2, Fixed DEF HandshakesOf, Unsent
  <2>4. /\ pc[q] \in {"alltoall", "handshakes"} => hs_rcvids[q][j] = "null"
        /\ pc[q] \in {"receive", "tell", "send", "wait"} =>
              (hs_rcvids[q][j] # "null"
                 <=> Sends(q, Partner(q, j)) /\ (j <= maxreq(q) \/ j < rstep[q]))
        /\ hs_rcvids[q][j] = "posted" => Exchanging(q) /\ j > nsent(q)
        /\ hs_rcvids[q][j] = "complete" /\ j > nsent(q) => Exchanging(q)
    BY <2>1 DEF HandshakesOf, Unsent
  <2>5. \/ hs_rcvids'[q][j] = hs_rcvids[q][j]
        \/ hs_rcvids[q][j] = "posted" /\ hs_rcvids'[q][j] = "complete"
    BY <1>10
  <2> QED
    BY <1>1, <2>3, <2>4, <2>5
<1>19. ASSUME NEW x \in Task, NEW y \in Task
       PROVE  OneHandshake(x, y)'
  <2>1. OneHandshake(x, y)
    BY DEF Inv
  <2>2. Posted(x, y, "data")' = Posted(x, y, "data")
    BY <1>1, <1>10, SamePosted
  <2>3. <<x, y, "data">> \in Links /\ <<x, y, "hs">> \in Links
    BY DEF Links, Kind
  <2>4. chan'[<<x, y, "data">>] = chan[<<x, y, "data">>]
    BY <1>10, <2>3
  <2>5. Telling(x, y)' => Telling(x, y) /\ x # t
    BY <1>1, <1>9 DEF Telling, Partner
  <2>6. CASE x = t /\ y = p
    <3>1. Telling(x, y)
      BY <1>1, <1>6, <2>6 DEF Telling, p
    <3>2. CASE fc.hs /\ fc.isend
      <4>1. /\ Posted(x, y, "data") # {} /\ ~Underway(x, y) /\ ~Told(x, y)
            /\ chan[<<x, y, "hs">>] = <<>> /\ chan[<<x, y, "data">>] = <<>>
        BY <2>1, <3>1, <3>2 DEF OneHandshake, Underway
      <4>2. ~Telling(x, y)'
        BY <2>5, <2>6
      <4>3. CASE \E j \in DOMAIN swapids[p] : swapids[p][j] = t /\ hs_rcvids[p][j] = "posted"
        <5>1. chan'[<<x, y, "hs">>] = <<>>
          BY <1>10, <2>6, <4>1, <4>3
        <5>2. Len(chan'[<<x, y, "hs">>]) <= 1
          BY <5>1
        <5> QED
          BY <2>2, <2>4, <4>1, <4>2, <5>1, <5>2 DEF OneHandshake, Underway
      <4>4. CASE ~\E j \in DOMAIN swapids[p] : swapids[p][j] = t /\ hs_rcvids[p][j] = "posted"
        <5>1. chan'[<<x, y, "hs">>] = Append(<<>>, m)
          BY <1>10, <2>6, <4>1, <4>4
        <5>2. Len(chan'[<<x, y, "hs">>]) <= 1
          BY <5>1
        <5>3. ~Told(x, y)'
          BY <1>1, <1>10, <1>17, <2>6, <4>1, <4>4 DEF Told, Unsent, Partner
        <5> QED
          BY <2>2, <2>4, <4>1, <4>2, <5>2, <5>3 DEF OneHandshake
      <4> QED
        BY <4>3, <4>4
    <3> QED
      BY <1>1, <3>2 DEF OneHandshake
  <2>7. CASE ~(x = t /\ y = p)
    <3>1. chan'[<<x, y, "hs">>] = chan[<<x, y, "hs">>]
      BY <1>10, <2>3, <2>7
    <3>2. ASSUME NEW j \in DOMAIN swapids[y], swapids[y][j] = x
          PROVE  hs_rcvids'[y][j] = hs_rcvids[y][j]
      BY <1>10, <2>7, <3>2
    <3>3. Told(x, y)' => Told(x, y)
      BY <1>1, <1>17, <3>2 DEF Told, Unsent, Partner
    <3> QED
      BY <1>1, <2>1, <2>2, <2>4, <2>5, <3>1, <3>3, FewerHandshakes
  <2> QED
    BY <2>6, <2>7
<1> QED
  BY <1>11, <1>12, <1>13, <1>14, <1>15, <1>16, <1>18, <1>19 DEF Inv

(* Data that go out as a ready send find the receive that the handshake    *)
(* stood for.                                                              *)
LEMMA SendDataKeeps ==
    ASSUME Inv, NEW t \in Task, SendData(t)
    PROVE  Inv'
<1> DEFINE i == istep[t]
           p == Partner(t, i)
           m == Message(t, IF fc.isend THEN i ELSE 0)
<1>1. /\ UNCHANGED <<traffic, fc, entered, left, swapids, istep, rstep>>
      /\ pc[t] = "send" /\ i <= steps(t)
      /\ pc' = [pc EXCEPT ![t] = "wait"]
      /\ IF Sends(t, p) THEN hs_rcvids[t][i] # "posted" /\ Deliver(t, p, "data", m)
         ELSE UNCHANGED <<rcvids, hs_rcvids, chan>>
  BY DEF SendData, flow, requests
<1>2. TypeOK /\ Distinct /\ PaceOf(t) /\ WindowOf(t) /\ HandshakesOf(t)
  BY DEF Inv
<1>3. steps(t) > 0 /\ rstep[t] = Ahead(t) /\ rstep[t] \in Nat \ {0} /\ i \in Nat \ {0}
  BY <1>1, <1>2 DEF PaceOf, Exchanging, TypeOK
<1>4. /\ steps(t) \in Nat /\ maxreq(t) \in 1..steps(t) /\ maxreqh(t) \in 1..maxreq(t)
      /\ maxreqh(t) = maxreq(t) => maxreq(t) = steps(t)
  BY <1>2, <1>3, Limits
<1>5. i <= maxreq(t) \/ i < rstep[t]
  BY <1>1, <1>3, <1>4 DEF Ahead
<1>6. swapids[t] \in Seq(Task) /\ DOMAIN swapids[t] = 1..steps(t) /\ i \in DOMAIN swapids[t]
  BY <1>1, <1>2, <1>3, <1>4 DEF TypeOK, steps
<1>7. p \in Task /\ p # t
  <2>1. \A j \in DOMAIN swapids[t] : swapids[t][j] \in Task
    <3>1. swapids[t] \in Seq(Task)
      BY <1>6
    <3> QED
      BY <3>1
  <2>2. \A j \in DOMAIN swapids[t] : swapids[t][j] # t
    BY <1>2 DEF Distinct
  <2> QED
    BY <1>6, <2>1, <2>2 DEF Partner
<1>8. m \in Messages
  BY <1>2, <1>3 DEF TypeOK, Message, Messages
<1>9. /\ pc' \in [Task -> Stage] /\ pc'[t] = "wait"
      /\ \A q \in Task \ {t} : pc'[q] = pc[q]
  BY <1>1, <1>2 DEF TypeOK, Stage
<1> HIDE DEF m
<1>10. /\ hs_rcvids' = hs_rcvids
       /\ rcvids' \in [Task -> Seq(Status)]
       /\ \A q \in Task \ {p} : rcvids'[q] = rcvids[q]
       /\ DOMAIN rcvids'[p] = DOMAIN swapids[p]
       /\ \A j \in DOMAIN swapids[p] :
             rcvids'[p][j] = IF Sends(t, p) /\ swapids[p][j] = t /\ rcvids[p][j] = "posted"
                             THEN "complete" ELSE rcvids[p][j]
       /\ chan' \in [Links -> Seq(Messages)]
       /\ \A l \in Links \ {<<t, p, "data">>} : chan'[l] = chan[l]
       /\ (Sends(t, p) /\ Posted(p, t, "data") = {})
          \/ chan'[<<t, p, "data">>] = chan[<<t, p, "data">>]
  <2>1. CASE Sends(t, p)
    <3> HIDE DEF p
    <3>1. Deliver(t, p, "data", m)
      BY <1>1, <2>1
    <3> QED
      BY <1>2, <1>7, <1>8, <2>1, <3>1, DeliverData
  <2>2. CASE ~Sends(t, p)
    BY <1>1, <1>2, <1>7, <2>2 DEF TypeOK, Distinct
  <2> QED
    BY <2>1, <2>2
<1>11. TypeOK'
  BY <1>1, <1>2, <1>9, <1>10 DEF TypeOK
<1>12. Distinct'
  BY <1>1, <1>2, <1>7, <1>10 DEF Distinct
<1>13. Inside'
  BY <1>1, <1>9, StaysInside DEF Inv
<1>14. PaceOf(t)'
  <2>1. Ahead(t)' = Ahead(t)
    BY <1>1, Fixed DEF Ahead
  <2> QED
    BY <1>1, <1>3, <1>9, <2>1, Fixed DEF PaceOf, Exchanging
<1>15. WindowOf(t)'
  BY <1>1, <1>2, <1>7, <1>9, <1>10, Fixed DEF WindowOf
<1>16. \A q \in Task : \A j \in DOMAIN swapids[q] : rcvids'[q][j] = "posted" => rcvids[q][j] = "posted"
  BY <1>10
<1>17. \A q \in Task \ {t} : PaceOf(q)' /\ WindowOf(q)' /\ HandshakesOf(q)'
  BY <1>1, <1>9, <1>10, <1>16, Idle, IdleHandshakes DEF Inv
<1>18. nsent(t) = i - 1 /\ nsent(t)' = i /\ \A q \in Task \ {t} : nsent(q)' = nsent(q)
  BY <1>1, <1>9 DEF nsent
<1>19. fc.hs => IF Sends(t, p) THEN hs_rcvids[t][i] # "null" /\ hs_rcvids[t][i] # "posted"
                ELSE hs_rcvids[t][i] = "null"
  BY <1>1, <1>2, <1>5, <1>6 DEF HandshakesOf
<1>20. HandshakesOf(t)'
  <2> SUFFICES ASSUME fc.hs, NEW j \in DOMAIN swapids[t]
               PROVE  /\ hs_rcvids[t][j] # "null" <=>
                            Sends(t, Partner(t, j)) /\ (j <= maxreq(t) \/ j < rstep[t])
                      /\ hs_rcvids[t][j] = "posted" => j > i
    BY <1>1, <1>9, <1>10, <1>18, Fixed DEF HandshakesOf, Exchanging
  <2>1. j \in 1..steps(t)
    BY <1>6
  <2>2. hs_rcvids[t][j] = "posted" => j > i - 1 /\ j # i
    BY <1>2, <1>18, <1>19 DEF HandshakesOf
  <2> QED
    BY <1>1, <1>2, <1>3, <2>1, <2>2 DEF HandshakesOf
<1>21. fc.hs /\ Sends(t, p) => Told(p, t)
  <2> SUFFICES ASSUME fc.hs, Sends(t, p)
               PROVE  hs_rcvids[t][i] = "complete" /\ i > nsent(t)
    BY <1>6 DEF Told, Unsent
  <2>1. hs_rcvids[t] \in Seq(Status) /\ i \in DOMAIN hs_rcvids[t]
    BY <1>2, <1>6 DEF TypeOK, Distinct
  <2>2. hs_rcvids[t][i] \in Status
    BY <2>1
  <2> QED
    BY <1>3, <1>18, <1>19, <2>2 DEF Status
<1> HIDE DEF p
<1>22. ASSUME NEW x \in Task, NEW y \in Task
       PROVE  OneHandshake(x, y)'
  <2>1. OneHandshake(x, y) /\ OneHandshake(p, t)
    BY <1>7 DEF Inv
  <2>2. <<x, y, "data">> \in Links /\ <<x, y, "hs">> \in Links
    BY DEF Links, Kind
  <2>3. chan'[<<x, y, "hs">>] = chan[<<x, y, "hs">>]
    BY <1>10, <2>2
  <2>4. fc.hs /\ fc.isend => chan'[<<x, y, "data">>] = chan[<<x, y, "data">>]
    <3>1. fc.hs /\ fc.isend /\ Sends(t, p) => Posted(p, t, "data") # {}
      BY <1>21, <2>1 DEF OneHandshake
    <3> QED
      BY <1>10, <2>2, <3>1
  <2>5. Telling(x, y)' => Telling(x, y)
    BY <1>1, <1>9 DEF Telling, Partner
  <2>6. Told(x, y)' => Told(x, y)
    <3>1. CASE y = t
      <4>1. \A j \in DOMAIN swapids[t] : j > i => j > i - 1
        BY <1>3, <1>6
      <4> QED
        BY <1>1, <1>10, <1>18, <3>1, <4>1 DEF Told, Unsent, Partner
    <3>2. CASE y # t
      BY <1>1, <1>10, <1>18, <3>2 DEF Told, Unsent, Partner
    <3> QED
      BY <3>1, <3>2
  <2>7. CASE x = p /\ y = t /\ Sends(t, p) /\ fc.hs /\ fc.isend
    <3>1. Told(x, y) /\ ~Telling(x, y) /\ ~Underway(x, y)
      BY <1>21, <2>1, <2>7 DEF OneHandshake
    <3>2. ~Told(x, y)'
      <4>1. \A j \in DOMAIN swapids[t] : swapids[t][j] = x => j = i
        BY <1>2, <1>6, <2>7 DEF Distinct, p, Partner
      <4>2. \A j \in DOMAIN swapids[t] : swapids[t][j] = x => ~(j > i)
        BY <1>3, <4>1
      <4>3. \A j \in DOMAIN swapids[t] : swapids[t][j] = x => ~Unsent(t, j)'
        BY <1>18, <4>2 DEF Unsent
      <4> QED
        BY <1>1, <2>7, <4>3 DEF Told, Partner
    <3> QED
      BY <2>1, <2>3, <2>4, <2>5, <2>7, <3>1, <3>2 DEF OneHandshake, Underway
  <2>8. CASE ~(x = p /\ y = t /\ Sends(t, p))
    <3>1. ASSUME NEW j \in DOMAIN swapids[x], swapids[x][j] = y
          PROVE  rcvids'[x][j] = rcvids[x][j]
      BY <1>10, <2>8, <3>1
    <3>2. Posted(x, y, "data")' = Posted(x, y, "data")
      BY <1>1, <3>1 DEF Posted, Partner, Requests
    <3> QED
      BY <1>1, <2>1, <2>3, <2>4, <2>5, <2>6, <3>2 DEF OneHandshake, Underway
  <2> QED
    BY <1>1, <2>7, <2>8 DEF OneHandshake
<1> QED
  BY <1>11, <1>12, <1>13, <1>14, <1>15, <1>17, <1>20, <1>22 DEF Inv

-----------------------------------------------------------------------------
(* A new call finds the task without receives and owed no handshake.       *)
LEMMA BeginKeeps ==
    ASSUME Inv, NEW t \in Task, Begin(t)
    PROVE  Inv'
<1> DEFINE r == entered[t] + 1
           ids == Partners(t, traffic[r])
           null == [i \in DOMAIN ids |-> "null"]
<1>1. /\ UNCHANGED <<traffic, fc, left, chan>>
      /\ entered[t] = left[t] /\ left[t] < Rounds
      /\ entered' = [entered EXCEPT ![t] = r]
      /\ swapids' = [swapids EXCEPT ![t] = ids]
      /\ rcvids' = [rcvids EXCEPT ![t] = null]
      /\ hs_rcvids' = [hs_rcvids EXCEPT ![t] = null]
      /\ istep' = [istep EXCEPT ![t] = 1]
      /\ rstep' = [rstep EXCEPT ![t] = 1]
      /\ pc' = [pc EXCEPT ![t] = CASE fc.max_pend_req = 0 -> "alltoall"
                                   [] fc.max_pend_req # 0 /\ ids = <<>> -> "return"
                                   [] OTHER -> "handshakes"]
  <2>1. Swap!Enter(t) /\ entered \in [Task -> 0..Rounds]
    BY DEF Begin, Inv, TypeOK
  <2>2. entered'[t] = r /\ entered' = [entered EXCEPT ![t] = r]
    BY <2>1 DEF Swap!Enter
  <2>3. UNCHANGED <<traffic, left>> /\ entered[t] = left[t] /\ left[t] < Rounds
    BY <2>1 DEF Swap!Enter
  <2> QED
    BY <2>2, <2>3 DEF Begin
<1>2. TypeOK /\ Distinct /\ WindowOf(t) /\ Inside
  BY DEF Inv
<1>3. pc[t] = "out"
  BY <1>1, <1>2 DEF Inside, TypeOK
<1>4. r \in 1..Rounds /\ traffic[r] \in Patterns
  BY <1>1, <1>2, SwapAssumption DEF TypeOK
<1>5. /\ ids \in Seq(Task \ {t})
      /\ \A i, j \in DOMAIN ids : ids[i] = ids[j] => i = j
  BY <1>4, PartnersAssumption
<1>6. ids \in Seq(Task) /\ \A i \in DOMAIN ids : ids[i] # t
  BY <1>5
<1>7. null \in Seq(Status) /\ DOMAIN null = DOMAIN ids /\ \A j \in DOMAIN ids : null[j] = "null"
  <2>1. DOMAIN ids = 1..Len(ids) /\ Len(ids) \in Nat
    BY <1>6
  <2>2. null \in [1..Len(ids) -> Status]
    BY <2>1 DEF Status
  <2> QED
    BY <2>1, <2>2
<1> HIDE DEF null, ids
<1>8. /\ swapids' \in [Task -> Seq(Task)] /\ swapids'[t] = ids
      /\ rcvids' \in [Task -> Seq(Status)] /\ rcvids'[t] = null
      /\ hs_rcvids' \in [Task -> Seq(Status)] /\ hs_rcvids'[t] = null
      /\ istep' \in [Task -> Nat \ {0}] /\ istep'[t] = 1
      /\ rstep' \in [Task -> Nat \ {0}] /\ rstep'[t] = 1
      /\ entered' \in [Task -> 0..Rounds] /\ entered'[t] = r
      /\ \A q \in Task \ {t} : /\ swapids'[q] = swapids[q] /\ rcvids'[q] = rcvids[q]
                               /\ hs_rcvids'[q] = hs_rcvids[q] /\ istep'[q] = istep[q]
                               /\ rstep'[q] = rstep[q] /\ entered'[q] = entered[q]
  <2>1. /\ swapids \in [Task -> Seq(Task)] /\ rcvids \in [Task -> Seq(Status)]
        /\ hs_rcvids \in [Task -> Seq(Status)] /\ istep \in [Task -> Nat \ {0}]
        /\ rstep \in [Task -> Nat \ {0}] /\ entered \in [Task -> 0..Rounds]
    BY <1>2 DEF TypeOK
  <2>2. r \in 0..Rounds
    BY <1>2, <1>4, SwapAssumption DEF TypeOK
  <2> HIDE DEF r
  <2>3. /\ swapids' \in [Task -> Seq(Task)] /\ swapids'[t] = ids
        /\ \A q \in Task \ {t} : swapids'[q] = swapids[q]
    BY <1>1, <1>6, <2>1
  <2>4. /\ rcvids' \in [Task -> Seq(Status)] /\ rcvids'[t] = null
        /\ hs_rcvids' \in [Task -> Seq(Status)] /\ hs_rcvids'[t] = null
        /\ \A q \in Task \ {t} : rcvids'[q] = rcvids[q] /\ hs_rcvids'[q] = hs_rcvids[q]
    BY <1>1, <1>7, <2>1
  <2>5. /\ istep' \in [Task -> Nat \ {0}] /\ istep'[t] = 1
        /\ rstep' \in [Task -> Nat \ {0}] /\ rstep'[t] = 1
        /\ \A q \in Task \ {t} : istep'[q] = istep[q] /\ rstep'[q] = rstep[q]
    BY <1>1, <2>1
  <2>6. /\ entered' \in [Task -> 0..Rounds] /\ entered'[t] = r
        /\ \A q \in Task \ {t} : entered'[q] = entered[q]
    BY <1>1, <2>1, <2>2
  <2> QED
    BY <2>3, <2>4, <2>5, <2>6
<1>9. /\ pc' \in [Task -> Stage] /\ pc'[t] \in {"alltoall", "return", "handshakes"}
      /\ pc'[t] = "handshakes" => ids # <<>>
      /\ \A q \in Task \ {t} : pc'[q] = pc[q]
  BY <1>1, <1>2 DEF TypeOK, Stage
<1>10. TypeOK'
  BY <1>1, <1>2, <1>8, <1>9 DEF TypeOK
<1>11. Distinct'
  <2> SUFFICES ASSUME NEW q \in Task
               PROVE  /\ DOMAIN rcvids'[q] = DOMAIN swapids'[q]
                      /\ DOMAIN hs_rcvids'[q] = DOMAIN swapids'[q]
                      /\ \A i, j \in DOMAIN swapids'[q] : swapids'[q][i] = swapids'[q][j] => i = j
                      /\ \A i \in DOMAIN swapids'[q] : swapids'[q][i] # q
    BY DEF Distinct
  <2>1. CASE q = t
    BY <1>5, <1>6, <1>7, <1>8, <2>1
  <2>2. CASE q # t
    <3>1. swapids'[q] = swapids[q] /\ rcvids'[q] = rcvids[q] /\ hs_rcvids'[q] = hs_rcvids[q]
      BY <1>8, <2>2
    <3> QED
      BY <1>2, <3>1 DEF Distinct
  <2> QED
    BY <2>1, <2>2
<1>12. Inside'
  <2>1. entered[t] \in Nat
    BY <1>2 DEF TypeOK
  <2> QED
    BY <1>1, <1>2, <1>8, <1>9, <2>1 DEF Inside
<1>13. \A q \in Task \ {t} : PaceOf(q)' /\ WindowOf(q)' /\ HandshakesOf(q)'
  BY <1>1, <1>8, <1>9, Idle, IdleHandshakes DEF Inv
<1>14. PaceOf(t)'
  <2>1. pc'[t] = "handshakes" => steps(t)' > 0
    BY <1>6, <1>8, <1>9 DEF steps
  <2> QED
    BY <1>8, <1>9, <2>1 DEF PaceOf, Exchanging
<1>15. WindowOf(t)'
  BY <1>7, <1>8 DEF WindowOf
<1>16. HandshakesOf(t)'
  BY <1>7, <1>8, <1>9 DEF HandshakesOf, Unsent
<1>17. ASSUME NEW x \in Task, NEW y \in Task
       PROVE  OneHandshake(x, y)'
  <2>1. OneHandshake(x, y)
    BY DEF Inv
  <2>2. x # t => Telling(x, y)' = Telling(x, y) /\ Posted(x, y, "data")' = Posted(x, y, "data")
    <3>1. x # t => /\ pc'[x] = pc[x] /\ rstep'[x] = rstep[x]
                   /\ swapids'[x] = swapids[x] /\ rcvids'[x] = rcvids[x]
      BY <1>8, <1>9
    <3>2. x # t => Telling(x, y)' = Telling(x, y)
      BY <3>1 DEF Telling, Partner
    <3>3. x # t => Posted(x, y, "data")' = Posted(x, y, "data")
      BY <3>1 DEF Posted, Partner, Requests
    <3> QED
      BY <3>2, <3>3
  <2>3. y # t => Told(x, y)' = Told(x, y)
    BY <1>8, <1>9 DEF Told, Unsent, Partner, nsent
  <2>4. ~Told(x, t)' /\ ~Telling(t, y)'
    BY <1>7, <1>8, <1>9 DEF Told, Unsent, Telling
  <2>5. Posted(t, y, "data") = {}
    BY <1>2, <1>3 DEF Posted, WindowOf, Requests
  <2>6. UNCHANGED <<chan, fc>>
    BY <1>1
  <2>7. CASE x = t
    BY <2>1, <2>3, <2>4, <2>5, <2>6, <2>7 DEF OneHandshake, Underway
  <2>8. CASE x # t
    BY <2>1, <2>2, <2>3, <2>4, <2>6, <2>8 DEF OneHandshake, Underway
  <2> QED
    BY <2>7, <2>8
<1> QED
  BY <1>10, <1>11, <1>12, <1>13, <1>14, <1>15, <1>16, <1>17 DEF Inv

-----------------------------------------------------------------------------
LEMMA InvInit ==
    ASSUME Init
    PROVE  Inv
<1>1. /\ traffic \in [1..Rounds -> Patterns] /\ fc \in Options
      /\ entered = [t \in Task |-> 0] /\ left = [t \in Task |-> 0]
      /\ pc = [t \in Task |-> "out"] /\ swapids = [t \in Task |-> <<>>]
      /\ istep = [t \in Task |-> 1] /\ rstep = [t \in Task |-> 1]
      /\ rcvids = [t \in Task |-> <<>>] /\ hs_rcvids = [t \in Task |-> <<>>]
      /\ chan = [l \in Links |-> <<>>]
  BY DEF Init, Swap!ExchangeInit, Task
<1>2. TypeOK
  BY <1>1, SwapAssumption DEF TypeOK, Stage
<1>3. \A t \in Task : DOMAIN swapids[t] = {} /\ DOMAIN rcvids[t] = {} /\ DOMAIN hs_rcvids[t] = {}
  BY <1>1
<1>4. Distinct /\ Inside
  BY <1>1, <1>3 DEF Distinct, Inside
<1>5. \A t \in Task : PaceOf(t) /\ WindowOf(t) /\ HandshakesOf(t)
  BY <1>1, <1>3 DEF PaceOf, WindowOf, HandshakesOf, Exchanging
<1>6. ASSUME NEW p \in Task, NEW t \in Task
      PROVE  OneHandshake(p, t)
  <2>1. chan[<<p, t, "hs">>] = <<>> /\ chan[<<p, t, "data">>] = <<>>
    BY <1>1 DEF Links, Kind
  <2>2. Len(chan[<<p, t, "hs">>]) <= 1
    BY <2>1
  <2> QED
    BY <1>1, <1>3, <2>1, <2>2 DEF OneHandshake, Telling, Underway, Told
<1> QED
  BY <1>2, <1>4, <1>5, <1>6 DEF Inv

LEMMA InvNext ==
    ASSUME Inv, [Next]_vars
    PROVE  Inv'
<1>1. ASSUME NEW t \in Task, Step(t)
      PROVE  Inv'
  BY <1>1, BeginKeeps, AlltoallwKeeps, FirstHandshakesKeeps, FirstReceiveKeeps, TellKeeps,
     SendDataKeeps, WaitAndPostKeeps, WaitallKeeps, ReturnKeeps DEF Step
<1>2. CASE UNCHANGED vars
  <2>1. /\ UNCHANGED <<traffic, fc, entered, left, pc, swapids, istep, rstep>>
        /\ UNCHANGED <<rcvids, hs_rcvids, chan>>
    BY <1>2 DEF vars, flow, requests
  <2>2. TypeOK' /\ Distinct' /\ Inside'
    BY <2>1 DEF Inv, TypeOK, Distinct, Inside
  <2>3. \A t \in Task : PaceOf(t)' /\ WindowOf(t)' /\ HandshakesOf(t)'
    BY <2>1, Idle, IdleHandshakes DEF Inv
  <2>4. ASSUME NEW p \in Task, NEW t \in Task
        PROVE  OneHandshake(p, t)'
    <3>1. Telling(p, t)' = Telling(p, t) /\ Told(p, t)' = Told(p, t)
      BY <2>1, SameTelling, SameTold
    <3>2. Posted(p, t, "data")' = Posted(p, t, "data")
      BY <2>1, SamePosted
    <3> QED
      BY <2>1, <3>1, <3>2 DEF Inv, OneHandshake, Underway
  <2> QED
    BY <2>2, <2>3, <2>4 DEF Inv
<1> QED
  BY <1>1, <1>2 DEF Next, Done

-----------------------------------------------------------------------------
(* Outstanding receives lie in a window of maxreq partners.                *)
LEMMA Bounded ==
    ASSUME Inv, NEW t \in Task, fc.max_pend_req > 0
    PROVE  Cardinality({i \in DOMAIN swapids[t] : rcvids[t][i] = "posted"}) <= Max({2, fc.max_pend_req})
<1> DEFINE P == {i \in DOMAIN swapids[t] : rcvids[t][i] = "posted"}
           n == fc.max_pend_req
<1>1. TypeOK /\ PaceOf(t) /\ WindowOf(t)
  BY DEF Inv
<1>2. n \in Nat
  BY <1>1, SwapAssumption DEF TypeOK, UNLIMITED
<1>3. Max({2, n}) \in Nat /\ Max({2, n}) >= 2 /\ Max({2, n}) >= n
  <2> DEFINE x == IF n > 2 THEN n ELSE 2
  <2>1. x \in {2, n} /\ \A y \in {2, n} : x >= y
    BY <1>2
  <2>2. \A z \in {2, n} : (\A y \in {2, n} : z >= y) => z = x
    BY <1>2
  <2>3. Max({2, n}) \in {2, n} /\ \A y \in {2, n} : Max({2, n}) >= y
    BY <2>1, <2>2 DEF Max
  <2> QED
    BY <1>2, <2>3
<1> HIDE DEF n
<1>4. CASE P = {}
  <2>1. Cardinality(P) = 0
    BY <1>4, FS_EmptySet
  <2> QED
    BY <1>3, <2>1 DEF n
<1>5. CASE P # {}
  <2>1. pc[t] \in {"receive", "tell", "send", "wait"}
    BY <1>1, <1>5 DEF WindowOf
  <2>2. steps(t) > 0 /\ istep[t] \in Nat \ {0} /\ rstep[t] \in Nat \ {0}
    BY <1>1, <2>1 DEF PaceOf, Exchanging, TypeOK
  <2>3. /\ steps(t) \in Nat /\ maxreq(t) \in 1..steps(t) /\ maxreqh(t) \in 1..maxreq(t)
        /\ maxreq(t) <= 2 \/ maxreq(t) <= n
        /\ maxreqh(t) = maxreq(t) => maxreq(t) = steps(t)
    BY <1>1, <2>2, Limits DEF n
  <2> DEFINE a == IF istep[t] > maxreqh(t) THEN istep[t] - maxreqh(t) ELSE 1
             b == rstep[t] - 1
  <2>4. P \subseteq a..b
    <3>1. swapids[t] \in Seq(Task)
      BY <1>1 DEF TypeOK
    <3>2. \A j \in DOMAIN swapids[t] : j \in Nat \ {0}
      BY <3>1
    <3>3. \A j \in P : j \in Nat \ {0} /\ j < rstep[t] /\ istep[t] <= j + maxreqh(t)
      BY <1>1, <3>2 DEF WindowOf
    <3> QED
      BY <2>2, <2>3, <3>3
  <2>5. rstep[t] <= maxreq(t) + a
    BY <1>1, <2>1, <2>2, <2>3 DEF PaceOf, Ahead
  <2>6. a \in Nat /\ b \in Int /\ (a > b \/ b - a + 1 <= maxreq(t))
    BY <2>2, <2>3, <2>5
  <2> HIDE DEF a, b
  <2>7. IsFiniteSet(a..b) /\ Cardinality(a..b) = IF a > b THEN 0 ELSE b - a + 1
    BY <2>6, FS_Interval
  <2>8. IsFiniteSet(P) /\ Cardinality(P) <= Cardinality(a..b)
    BY <2>4, <2>7, FS_Subset
  <2>9. Cardinality(P) \in Nat
    BY <2>8, FS_CardinalityType
  <2> HIDE DEF P
  <2>10. Cardinality(P) <= maxreq(t)
    BY <2>3, <2>6, <2>7, <2>8, <2>9
  <2> QED
    BY <1>2, <1>3, <2>3, <2>9, <2>10 DEF P, n
<1> QED
  BY <1>4, <1>5

LEMMA InvImplies ==
    ASSUME Inv
    PROVE  FlowControl
<1>1. \A t \in Task : fc.hs /\ fc.isend => \A p \in Task : chan[<<t, p, "data">>] = <<>>
  BY DEF Inv, OneHandshake
<1> QED
  BY <1>1, Bounded DEF FlowControl

\* Whatever the traffic, the number of tasks and the limits: a ready send finds its receive
\* posted, and the receives outstanding stay within max_pend_req (pio_swapm).
THEOREM FlowControlHolds == Spec => []FlowControl
<1>1. Init => Inv
  BY InvInit
<1>2. Inv /\ [Next]_vars => Inv'
  BY InvNext
<1>3. Inv => FlowControl
  BY InvImplies
<1> QED
  BY <1>1, <1>2, <1>3, PTL DEF Spec

-----------------------------------------------------------------------------
(***************************************************************************)
(* Delivery: the second part of the invariant, on top of Inv.  Messages    *)
(* carry the round they are sent in, a link keeps their order, and a       *)
(* receive that waits can only be met by the data of its own round.        *)
(***************************************************************************)
\* Without a limit of zero the exchange is made of messages.
PointToPoint == fc.max_pend_req # 0

\* In the call that they are in: s has sent to t what it has for it, and t has received
\* what s has for it.
Gone(s, t) == \A j \in DOMAIN swapids[s] : swapids[s][j] = t => j <= nsent(s)
Got(s, t) == \E i \in DOMAIN swapids[t] : swapids[t][i] = s /\ rcvids[t][i] = "complete"

\* The rounds whose data from s to t have been sent, and have been received.
Sent(s, t) == {q \in 1..entered[s] : <<s, t>> \in traffic[q] /\ (q = entered[s] => Gone(s, t))}
Received(s, t) == {q \in 1..entered[t] : <<s, t>> \in traffic[q] /\ (q = entered[t] => Got(s, t))}

AllFrom(d, s) == \A x \in DOMAIN d : d[x].from = s
InOrder(d) == \A x, y \in DOMAIN d : x < y => d[x].round < d[y].round
RoundsIn(d) == {d[x].round : x \in DOMAIN d}
Lowest(r, d) == r \in RoundsIn(d) /\ \A q \in RoundsIn(d) : r <= q

\* What has been sent and not received waits in the link, in order; a receive that waits
\* finds the link empty.
LinkOf(s, t) ==
    LET d == chan[<<s, t, "data">>]
    IN  /\ AllFrom(d, s)
        /\ InOrder(d)
        /\ RoundsIn(d) = Sent(s, t) \ Received(s, t)
        /\ Received(s, t) \subseteq Sent(s, t)
        /\ Posted(t, s, "data") # {} => d = <<>>

Incoming(t, i) == rcvids[t][i] # "null" <=> Receives(t, swapids[t][i]) /\ i < rstep[t]

\* Receives have been posted up to rstep, and at the end they are complete.
ReceivesOf(t) ==
    /\ pc[t] # "alltoall"
    /\ \A i \in DOMAIN swapids[t] : Incoming(t, i)
    /\ pc[t] \in {"return", "out"} =>
          /\ rstep[t] > steps(t) /\ istep[t] > steps(t)
          /\ \A i \in DOMAIN swapids[t] : rcvids[t][i] # "posted"

\* The buffer holds what has come in, and the task's own data.
BufferOf(t) ==
    pc[t] # "out" =>
        recvbuf[t] = {<<s, entered[t]>> : s \in {x \in Swap!SendersTo(t, entered[t]) : x = t \/ Got(x, t)}}

PartnersOf(t) ==
    entered[t] > 0 =>
        \A p \in Task \ {t} : Sends(t, p) \/ Receives(t, p) => \E i \in DOMAIN swapids[t] : swapids[t][i] = p

AtOnce(t) ==
    /\ pc[t] \in {"out", "alltoall", "return"}
    /\ pc[t] = "return" =>
          /\ recvbuf[t] = {<<s, entered[t]>> : s \in Swap!SendersTo(t, entered[t])}
          /\ \A s \in Swap!SendersTo(t, entered[t]) : entered[s] >= entered[t]

RoundOf(t) == IF pc[t] = "out" THEN left[t] = entered[t] ELSE left[t] + 1 = entered[t]

Delivery ==
    /\ recvbuf \in [Task -> SUBSET (Task \X Nat)]
    /\ \A t \in Task : RoundOf(t) /\ PartnersOf(t)
    /\ PointToPoint => /\ \A t \in Task : ReceivesOf(t) /\ BufferOf(t)
                       /\ \A s, t \in Task : s # t => LinkOf(s, t)
    /\ ~PointToPoint => \A t \in Task : AtOnce(t)

-----------------------------------------------------------------------------
(* Taking the first message of a link takes its lowest round.              *)
LEMMA TakeLowest ==
    ASSUME NEW d \in Seq(Messages), NEW r, NEW s, AllFrom(d, s), InOrder(d), Lowest(r, d)
    PROVE  /\ d # <<>> /\ Head(d).round = r /\ Head(d).from = s
           /\ Tail(d) \in Seq(Messages) /\ InOrder(Tail(d)) /\ RoundsIn(Tail(d)) = RoundsIn(d) \ {r}
           /\ AllFrom(Tail(d), s)
<1>1. DOMAIN d = 1..Len(d) /\ Len(d) \in Nat /\ \A x \in DOMAIN d : d[x] \in Messages /\ d[x].round \in Nat
  <2>1. \A m \in Messages : m.round \in Nat
    BY DEF Messages
  <2>2. DOMAIN d = 1..Len(d) /\ Len(d) \in Nat /\ \A x \in DOMAIN d : d[x] \in Messages
    OBVIOUS
  <2> QED
    BY <2>1, <2>2
<1>2. d # <<>> /\ Len(d) > 0
  BY <1>1 DEF Lowest, RoundsIn
<1>3. /\ Tail(d) \in Seq(Messages) /\ Len(Tail(d)) = Len(d) - 1
      /\ \A x \in 1..(Len(d) - 1) : Tail(d)[x] = d[x + 1]
      /\ DOMAIN Tail(d) = 1..(Len(d) - 1) /\ Head(d) = d[1]
  BY <1>1, <1>2
<1>4. PICK x \in DOMAIN d : d[x].round = r
  BY DEF Lowest, RoundsIn
<1>5. d[1].round \in RoundsIn(d)
  BY <1>1, <1>2 DEF RoundsIn
<1>6. Head(d).round = r
  <2>1. x > 1 => d[1].round < r
    BY <1>1, <1>2, <1>4 DEF InOrder
  <2>2. d[1].round \in Nat /\ r \in Nat /\ r <= d[1].round
    BY <1>1, <1>2, <1>4, <1>5 DEF Lowest
  <2> QED
    BY <1>1, <1>3, <1>4, <2>1, <2>2
<1>7. InOrder(Tail(d))
  <2> SUFFICES ASSUME NEW a \in 1..(Len(d) - 1), NEW b \in 1..(Len(d) - 1), a < b
               PROVE  d[a + 1].round < d[b + 1].round
    BY <1>3 DEF InOrder
  <2> QED
    BY <1>1 DEF InOrder
<1>8. RoundsIn(Tail(d)) = RoundsIn(d) \ {r}
  <2>1. ASSUME NEW q \in RoundsIn(Tail(d))
        PROVE  q \in RoundsIn(d) /\ q # r
    <3>1. PICK y \in 1..(Len(d) - 1) : q = d[y + 1].round
      BY <1>3 DEF RoundsIn
    <3>2. y + 1 \in DOMAIN d /\ 1 < y + 1 /\ 1 \in DOMAIN d
      BY <1>1
    <3>3. d[1].round < d[y + 1].round
      BY <3>2 DEF InOrder
    <3>4. d[1].round \in Nat /\ d[y + 1].round \in Nat /\ d[1].round = r
      BY <1>1, <1>3, <1>6, <3>2
    <3> QED
      BY <3>1, <3>2, <3>3, <3>4 DEF RoundsIn
  <2>2. ASSUME NEW q \in RoundsIn(d), q # r
        PROVE  q \in RoundsIn(Tail(d))
    <3>1. PICK y \in DOMAIN d : q = d[y].round
      BY DEF RoundsIn
    <3>2. y # 1
      BY <1>3, <1>6, <2>2, <3>1
    <3>3. y - 1 \in 1..(Len(d) - 1) /\ (y - 1) + 1 = y
      BY <1>1, <3>2
    <3>4. Tail(d)[y - 1].round = q
      BY <1>3, <3>1, <3>3
    <3> QED
      BY <1>3, <3>3, <3>4 DEF RoundsIn
  <2> QED
    BY <2>1, <2>2
<1>9. AllFrom(Tail(d), s)
  BY <1>1, <1>3 DEF AllFrom
<1>10. Head(d).from = s
  BY <1>1, <1>2, <1>3 DEF AllFrom
<1> QED
  BY <1>2, <1>3, <1>6, <1>7, <1>8, <1>9, <1>10

(* A message of a later round goes to the end of a link.                   *)
LEMMA AppendHighest ==
    ASSUME NEW d \in Seq(Messages), InOrder(d), NEW m \in Messages, \A q \in RoundsIn(d) : q < m.round,
           NEW s, m.from = s, AllFrom(d, s)
    PROVE  /\ InOrder(Append(d, m)) /\ RoundsIn(Append(d, m)) = RoundsIn(d) \cup {m.round}
           /\ AllFrom(Append(d, m), s)
<1> DEFINE e == Append(d, m)
           n == Len(d) + 1
<1>1. DOMAIN d = 1..Len(d) /\ Len(d) \in Nat
  OBVIOUS
<1>2. /\ DOMAIN e = 1..n /\ e[n] = m /\ n \in Nat /\ n > 0
      /\ \A x \in DOMAIN d : e[x] = d[x] /\ x \in DOMAIN e /\ x < n
      /\ \A x \in DOMAIN e : x # n => x \in DOMAIN d
  BY <1>1
<1> HIDE DEF e, n
<1>3. \A x \in DOMAIN d : d[x].round < m.round
  BY DEF RoundsIn
<1>4. n \in DOMAIN e /\ DOMAIN e \subseteq Nat /\ \A x \in DOMAIN e : x <= n
  BY <1>1, <1>2
<1>5. InOrder(e)
  <2> SUFFICES ASSUME NEW a \in DOMAIN e, NEW b \in DOMAIN e, a < b
               PROVE  e[a].round < e[b].round
    BY DEF InOrder
  <2>1. a # n /\ a \in DOMAIN d
    BY <1>2, <1>4
  <2>2. CASE b = n
    BY <1>2, <1>3, <2>1, <2>2
  <2>3. CASE b # n
    BY <1>2, <2>1, <2>3 DEF InOrder
  <2> QED
    BY <2>2, <2>3
<1>6. RoundsIn(e) = RoundsIn(d) \cup {m.round}
  BY <1>2, <1>4 DEF RoundsIn
<1>7. AllFrom(e, s)
  BY <1>2 DEF AllFrom
<1> QED
  BY <1>5, <1>6, <1>7 DEF e

-----------------------------------------------------------------------------
(* The rounds that have been exchanged.                                    *)
LEMMA RoundsAreNumbers ==
    ASSUME TypeOK, NEW t \in Task
    PROVE  entered[t] \in Nat /\ entered[t] <= Rounds /\ Rounds \in Nat
BY SwapAssumption DEF TypeOK

(* The receive for this round finds its message first in the link.         *)
LEMMA ThisRoundFirst ==
    ASSUME TypeOK, NEW s \in Task, NEW t \in Task, LinkOf(s, t), entered[t] > 0,
           <<s, t>> \in traffic[entered[t]], ~Got(s, t), chan[<<s, t, "data">>] # <<>>
    PROVE  Lowest(entered[t], chan[<<s, t, "data">>])
<1> DEFINE d == chan[<<s, t, "data">>]
           r == entered[t]
<1>1. d \in Seq(Messages)
  BY DEF TypeOK, Links, Kind
<1>2. RoundsIn(d) = Sent(s, t) \ Received(s, t) /\ RoundsIn(d) # {}
  <2>1. 1 \in DOMAIN d
    BY <1>1
  <2> QED
    BY <2>1 DEF LinkOf, RoundsIn
<1>3. r \in Nat \ {0} /\ entered[s] \in Nat
  BY RoundsAreNumbers
<1> HIDE DEF d
<1>4. ASSUME NEW q \in RoundsIn(d)
      PROVE  q \in Nat /\ r <= q /\ q <= entered[s]
  <2>1. q \in 1..entered[s] /\ <<s, t>> \in traffic[q] /\ q \notin Received(s, t)
    BY <1>2 DEF Sent
  <2>2. q \in Nat \ {0}
    BY <1>3, <2>1
  <2>3. ~(q < r)
    <3> SUFFICES ASSUME q < r PROVE FALSE
      OBVIOUS
    <3>1. q \in 1..r /\ q # r
      BY <1>3, <2>2
    <3> QED
      BY <2>1, <3>1 DEF Received
  <2> QED
    BY <1>3, <2>1, <2>2, <2>3
<1>5. r \in RoundsIn(d)
  <2>1. PICK q \in RoundsIn(d) : TRUE
    BY <1>2
  <2>2. CASE q = r
    BY <2>1, <2>2
  <2>3. CASE q # r
    <3>1. r \in 1..entered[s] /\ r # entered[s]
      BY <1>3, <1>4, <2>3
    <3>2. r \in Sent(s, t)
      BY <3>1 DEF Sent
    <3>3. r \notin Received(s, t)
      BY DEF Received
    <3> QED
      BY <1>2, <3>2, <3>3
  <2> QED
    BY <2>2, <2>3
<1> QED
  BY <1>4, <1>5 DEF d, Lowest

(* The data of a round that go to a waiting receive are those it is for.   *)
LEMMA SameRound ==
    ASSUME TypeOK, NEW s \in Task, NEW t \in Task, LinkOf(s, t), chan[<<s, t, "data">>] = <<>>,
           entered[s] > 0, <<s, t>> \in traffic[entered[s]], ~Gone(s, t),
           entered[t] > 0, <<s, t>> \in traffic[entered[t]], ~Got(s, t)
    PROVE  entered[s] = entered[t]
<1>1. Sent(s, t) = Received(s, t)
  <2>1. RoundsIn(chan[<<s, t, "data">>]) = {}
    BY DEF RoundsIn
  <2> QED
    BY <2>1 DEF LinkOf
<1>2. entered[s] \in Nat \ {0} /\ entered[t] \in Nat \ {0}
  BY RoundsAreNumbers
<1>3. entered[s] \notin Sent(s, t) /\ entered[t] \notin Received(s, t)
  BY DEF Sent, Received
<1>4. ~(entered[t] < entered[s])
  <2> SUFFICES ASSUME entered[t] < entered[s] PROVE FALSE
    OBVIOUS
  <2>1. entered[t] \in 1..entered[s] /\ entered[t] # entered[s]
    BY <1>2
  <2>2. entered[t] \in Sent(s, t)
    BY <2>1 DEF Sent
  <2> QED
    BY <1>1, <1>3, <2>2
<1>5. ~(entered[s] < entered[t])
  <2> SUFFICES ASSUME entered[s] < entered[t] PROVE FALSE
    OBVIOUS
  <2>1. entered[s] \in 1..entered[t] /\ entered[s] # entered[t]
    BY <1>2
  <2>2. entered[s] \in Received(s, t)
    BY <2>1 DEF Received
  <2> QED
    BY <1>1, <1>3, <2>2
<1> QED
  BY <1>2, <1>4, <1>5

(* Data that have not been sent are of a later round than those that wait. *)
LEMMA LaterRound ==
    ASSUME TypeOK, NEW s \in Task, NEW t \in Task, LinkOf(s, t), entered[s] > 0,
           <<s, t>> \in traffic[entered[s]], ~Gone(s, t)
    PROVE  \A q \in RoundsIn(chan[<<s, t, "data">>]) : q < entered[s]
<1>1. entered[s] \in Nat \ {0}
  BY RoundsAreNumbers
<1>2. entered[s] \notin Sent(s, t)
  BY DEF Sent
<1>3. \A q \in Sent(s, t) : q \in Nat /\ q < entered[s]
  BY <1>1, <1>2 DEF Sent
<1> QED
  BY <1>3 DEF LinkOf

(* A link is as it was when neither end has done anything about it.        *)
LEMMA SameLink ==
    ASSUME NEW s, NEW t, LinkOf(s, t), UNCHANGED traffic,
           entered'[s] = entered[s], entered'[t] = entered[t],
           chan'[<<s, t, "data">>] = chan[<<s, t, "data">>],
           Gone(s, t)' = Gone(s, t), Got(s, t)' = Got(s, t),
           Posted(t, s, "data")' = {} \/ Posted(t, s, "data")' = Posted(t, s, "data")
    PROVE  LinkOf(s, t)'
<1>1. Sent(s, t)' = Sent(s, t) /\ Received(s, t)' = Received(s, t)
  BY DEF Sent, Received
<1> QED
  BY <1>1 DEF LinkOf

LEMMA SameGone ==
    ASSUME NEW s, NEW t, swapids'[s] = swapids[s], nsent(s)' = nsent(s)
    PROVE  Gone(s, t)' = Gone(s, t)
BY DEF Gone

LEMMA SameGot ==
    ASSUME NEW s, NEW t, swapids'[t] = swapids[t], rcvids'[t] = rcvids[t]
    PROVE  Got(s, t)' = Got(s, t) /\ Posted(t, s, "data")' = Posted(t, s, "data")
BY DEF Got, Posted, Partner, Requests

(* A receive from one partner is nothing to another.                       *)
LEMMA OtherReceive ==
    ASSUME NEW s, NEW t, swapids'[t] = swapids[t],
           \A k \in DOMAIN swapids[t] : swapids[t][k] = s => rcvids'[t][k] = rcvids[t][k]
    PROVE  Got(s, t)' = Got(s, t) /\ Posted(t, s, "data")' = Posted(t, s, "data")
BY DEF Got, Posted, Partner, Requests

(* Who exchanges messages at all.                                          *)
LEMMA InMessages ==
    ASSUME Inv, Delivery, NEW t \in Task, Exchanging(t)
    PROVE  /\ PointToPoint /\ ReceivesOf(t) /\ BufferOf(t)
           /\ left[t] + 1 = entered[t] /\ entered[t] \in Nat \ {0}
<1>1. PointToPoint
  BY DEF Delivery, AtOnce, Exchanging
<1>2. left[t] + 1 = entered[t]
  BY DEF Delivery, RoundOf, Exchanging
<1>3. left[t] \in Nat
  BY SwapAssumption DEF Inv, TypeOK
<1> QED
  BY <1>1, <1>2, <1>3 DEF Delivery

(* What does not depend on requests and links.                             *)
LEMMA SamePartners ==
    ASSUME NEW t \in Task, UNCHANGED traffic, entered'[t] = entered[t], swapids'[t] = swapids[t]
    PROVE  /\ PartnersOf(t) => PartnersOf(t)'
           /\ \A r \in {entered[t]} : Swap!SendersTo(t, r)' = Swap!SendersTo(t, r)
           /\ \A p : Receives(t, p)' = Receives(t, p)
           /\ steps(t)' = steps(t)
BY DEF PartnersOf, Sends, Receives, Swap!SendersTo, steps

LEMMA SameReceives ==
    ASSUME NEW t \in Task, UNCHANGED traffic, entered'[t] = entered[t], swapids'[t] = swapids[t],
           pc'[t] = pc[t], rstep'[t] = rstep[t], istep'[t] = istep[t], rcvids'[t] = rcvids[t], ReceivesOf(t)
    PROVE  ReceivesOf(t)'
BY SamePartners DEF ReceivesOf, Incoming

LEMMA SameBuffer ==
    ASSUME NEW t \in Task, UNCHANGED traffic, entered'[t] = entered[t], swapids'[t] = swapids[t],
           pc'[t] = pc[t], rcvids'[t] = rcvids[t], recvbuf'[t] = recvbuf[t], BufferOf(t)
    PROVE  BufferOf(t)'
<1>1. \A x \in Task : Got(x, t)' = Got(x, t)
  BY SameGot
<1>2. Swap!SendersTo(t, entered[t])' = Swap!SendersTo(t, entered[t])
  BY SamePartners
<1>3. Swap!SendersTo(t, entered[t]) \subseteq Task
  BY DEF Swap!SendersTo, Task
<1> QED
  BY <1>1, <1>2, <1>3 DEF BufferOf

-----------------------------------------------------------------------------
(* A step that changes no data: handshakes, and the wait at the end.       *)
LEMMA Quiet ==
    ASSUME Inv, Delivery, NEW t \in Task, Exchanging(t),
           UNCHANGED <<traffic, fc, entered, left, swapids, istep, rstep, rcvids, recvbuf>>,
           \A x, y \in Task : chan'[<<x, y, "data">>] = chan[<<x, y, "data">>],
           \A q \in Task \ {t} : pc'[q] = pc[q],
           nsent(t)' = nsent(t), pc'[t] \notin {"out", "alltoall"},
           pc'[t] = "return" => /\ rstep[t] > steps(t) /\ istep[t] > steps(t)
                                /\ \A i \in DOMAIN swapids[t] : rcvids[t][i] # "posted"
    PROVE  Delivery'
<1>1. PointToPoint /\ left[t] + 1 = entered[t] /\ ReceivesOf(t) /\ BufferOf(t)
  BY InMessages
<1>2. PointToPoint'
  BY <1>1 DEF PointToPoint
<1>3. \A q \in Task : PartnersOf(q)'
  BY SamePartners DEF Delivery
<1>4. \A q \in Task : RoundOf(q)'
  BY <1>1 DEF Delivery, RoundOf
<1>5. ReceivesOf(t)'
  BY <1>1, SamePartners DEF ReceivesOf, Incoming
<1>6. \A q \in Task \ {t} : ReceivesOf(q)' /\ BufferOf(q)'
  BY <1>1, SameReceives, SameBuffer DEF Delivery
<1>7. BufferOf(t)'
  <2>1. pc[t] # "out"
    BY DEF Exchanging
  <2>2. \A x \in Task : Got(x, t)' = Got(x, t)
    BY SameGot
  <2>3. Swap!SendersTo(t, entered[t])' = Swap!SendersTo(t, entered[t])
    BY SamePartners
  <2>4. Swap!SendersTo(t, entered[t]) \subseteq Task
    BY DEF Swap!SendersTo, Task
  <2> QED
    BY <1>1, <2>1, <2>2, <2>3, <2>4 DEF BufferOf
<1>8. ASSUME NEW x \in Task, NEW y \in Task, x # y
      PROVE  LinkOf(x, y)'
  <2>1. nsent(x)' = nsent(x)
    BY DEF nsent
  <2>2. Gone(x, y)' = Gone(x, y)
    BY <2>1, SameGone
  <2>3. Got(x, y)' = Got(x, y) /\ Posted(y, x, "data")' = Posted(y, x, "data")
    BY SameGot
  <2>4. LinkOf(x, y)
    BY <1>1, <1>8 DEF Delivery
  <2> QED
    BY <2>2, <2>3, <2>4, SameLink
<1>9. recvbuf' \in [Task -> SUBSET (Task \X Nat)]
  BY DEF Delivery
<1> QED
  BY <1>2, <1>3, <1>4, <1>5, <1>6, <1>7, <1>8, <1>9 DEF Delivery

-----------------------------------------------------------------------------
(* What posting a receive does to the data that wait for it.               *)
PostsOne(t, j, s, d) ==
    /\ s \in Task \ {t} /\ d \in Seq(Messages)
    /\ rcvids'[t][j] = IF d = <<>> THEN "posted" ELSE "complete"
    /\ chan'[<<s, t, "data">>] = IF d = <<>> THEN d ELSE Tail(d)
    /\ \A x, y \in Task : x # s \/ y # t => chan'[<<x, y, "data">>] = chan[<<x, y, "data">>]
    /\ recvbuf' \in [Task -> SUBSET (Task \X Nat)]
    /\ \A q \in Task \ {t} : recvbuf'[q] = recvbuf[q]
    /\ recvbuf'[t] = IF d = <<>> THEN recvbuf[t] ELSE recvbuf[t] \cup {<<Head(d).from, Head(d).round>>}

LEMMA PostOne ==
    ASSUME TypeOK, Distinct, recvbuf \in [Task -> SUBSET (Task \X Nat)],
           NEW t \in Task, NEW j \in DOMAIN swapids[t], NEW H \in SUBSET DOMAIN swapids[t],
           PostData(t, {j}), TakeFrom(t, {j}, H)
    PROVE  PostsOne(t, j, swapids[t][j], chan[<<swapids[t][j], t, "data">>])
<1> DEFINE s == swapids[t][j]
           d == chan[<<s, t, "data">>]
<1>1. s \in Task \ {t}
  <2>1. swapids[t] \in Seq(Task)
    BY DEF TypeOK
  <2>2. s \in Task
    BY <2>1
  <2> QED
    BY <2>2 DEF Distinct
<1>2. <<s, t, "data">> \in Links /\ chan \in [Links -> Seq(Messages)]
  BY <1>1 DEF TypeOK, Links, Kind
<1>3. d \in Seq(Messages)
  BY <1>2
<1>4. Ready(t, {j}, "data") = IF d = <<>> THEN {} ELSE {j}
  BY DEF Ready, Partner
<1>5. First(t, j, "data") = Head(d)
  BY DEF First, Partner
<1>6. rcvids'[t][j] = IF d = <<>> THEN "posted" ELSE "complete"
  <2>1. rcvids' = [rcvids EXCEPT ![t] = AfterPosting(t, {j}, "data")] /\ rcvids \in [Task -> Seq(Status)]
    BY DEF PostData, TypeOK
  <2>2. rcvids'[t] = AfterPosting(t, {j}, "data")
    BY <2>1
  <2> QED
    BY <1>4, <2>2 DEF AfterPosting
<1>7. \A m \in Messages : <<m.from, m.round>> \in Task \X Nat
  BY DEF Messages
<1>8. /\ recvbuf' \in [Task -> SUBSET (Task \X Nat)]
      /\ \A q \in Task \ {t} : recvbuf'[q] = recvbuf[q]
      /\ recvbuf'[t] = IF d = <<>> THEN recvbuf[t] ELSE recvbuf[t] \cup {<<Head(d).from, Head(d).round>>}
  <2> DEFINE new == {<<m.from, m.round>> : m \in {First(t, i, "data") : i \in Ready(t, {j}, "data")}}
  <2>1. recvbuf' = [recvbuf EXCEPT ![t] = @ \cup new]
    BY DEF PostData
  <2>2. new = IF d = <<>> THEN {} ELSE {<<Head(d).from, Head(d).round>>}
    BY <1>4, <1>5
  <2>3. d # <<>> => Head(d) \in Messages
    BY <1>3
  <2>4. new \subseteq Task \X Nat
    BY <1>7, <2>2, <2>3
  <2> HIDE DEF new
  <2> QED
    BY <2>1, <2>2, <2>4
<1>9. /\ chan'[<<s, t, "data">>] = IF d = <<>> THEN d ELSE Tail(d)
      /\ \A x, y \in Task : x # s \/ y # t => chan'[<<x, y, "data">>] = chan[<<x, y, "data">>]
  <2> DEFINE taken == {<<Partner(t, i), t, "data">> : i \in Ready(t, {j}, "data")}
                      \cup {<<Partner(t, i), t, "hs">> : i \in Ready(t, H, "hs")}
  <2>1. chan' = [l \in Links |-> IF l \in taken THEN Tail(chan[l]) ELSE chan[l]]
    BY DEF TakeFrom
  <2>2. <<s, t, "data">> \in taken <=> d # <<>>
    BY <1>4 DEF Partner, Ready
  <2>3. \A x, y \in Task : <<x, y, "data">> \in Links /\ (x # s \/ y # t => <<x, y, "data">> \notin taken)
    BY <1>4 DEF Links, Kind, Partner, Ready
  <2> HIDE DEF taken
  <2>4. chan'[<<s, t, "data">>] = IF d = <<>> THEN d ELSE Tail(d)
    BY <1>2, <2>1, <2>2
  <2>5. \A x, y \in Task : x # s \/ y # t => chan'[<<x, y, "data">>] = chan[<<x, y, "data">>]
    BY <2>1, <2>3
  <2> QED
    BY <2>4, <2>5
<1> QED
  BY <1>1, <1>3, <1>6, <1>8, <1>9 DEF PostsOne

LEMMA PostNone ==
    ASSUME TypeOK, Distinct, recvbuf \in [Task -> SUBSET (Task \X Nat)],
           NEW t \in Task, NEW H \in SUBSET DOMAIN swapids[t],
           PostData(t, {}), TakeFrom(t, {}, H)
    PROVE  /\ \A x, y \in Task : chan'[<<x, y, "data">>] = chan[<<x, y, "data">>]
           /\ recvbuf' = recvbuf
<1>1. Ready(t, {}, "data") = {}
  BY DEF Ready
<1>2. \A x, y \in Task : chan'[<<x, y, "data">>] = chan[<<x, y, "data">>]
  <2> DEFINE taken == {<<Partner(t, i), t, "data">> : i \in Ready(t, {}, "data")}
                      \cup {<<Partner(t, i), t, "hs">> : i \in Ready(t, H, "hs")}
  <2>1. chan' = [l \in Links |-> IF l \in taken THEN Tail(chan[l]) ELSE chan[l]]
    BY DEF TakeFrom
  <2>2. \A x, y \in Task : <<x, y, "data">> \in Links /\ <<x, y, "data">> \notin taken
    BY <1>1 DEF Links, Kind
  <2> HIDE DEF taken
  <2> QED
    BY <2>1, <2>2
<1>3. recvbuf' = recvbuf
  <2> DEFINE new == {<<m.from, m.round>> : m \in {First(t, i, "data") : i \in Ready(t, {}, "data")}}
  <2>1. recvbuf' = [recvbuf EXCEPT ![t] = @ \cup new]
    BY DEF PostData
  <2>2. new = {}
    BY <1>1
  <2> HIDE DEF new
  <2>3. recvbuf[t] \cup new = recvbuf[t]
    BY <2>2
  <2> QED
    BY <2>1, <2>3
<1> QED
  BY <1>2, <1>3

(* Posting the next receive.                                               *)
LEMMA PostDelivers ==
    ASSUME Inv, Delivery, NEW t \in Task, Exchanging(t),
           UNCHANGED <<traffic, fc, entered, left, swapids>>,
           NEW j \in DOMAIN swapids[t], j = rstep[t], Receives(t, swapids[t][j]),
           NEW H \in SUBSET DOMAIN swapids[t], PostData(t, {j}), TakeFrom(t, {j}, H),
           rstep'[t] = rstep[t] + 1, nsent(t)' = nsent(t),
           pc'[t] \notin {"out", "alltoall", "return"},
           \A q \in Task \ {t} : pc'[q] = pc[q] /\ rstep'[q] = rstep[q] /\ istep'[q] = istep[q]
    PROVE  Delivery'
<1>1. PointToPoint /\ left[t] + 1 = entered[t] /\ ReceivesOf(t) /\ BufferOf(t) /\ entered[t] \in Nat \ {0}
  BY InMessages
<1>2. TypeOK /\ Distinct /\ recvbuf \in [Task -> SUBSET (Task \X Nat)] /\ rstep[t] \in Nat
  BY DEF Inv, TypeOK, Delivery
<1>3. PICK s : s = swapids[t][j]
  OBVIOUS
<1>4. PICK d : d = chan[<<s, t, "data">>]
  OBVIOUS
<1>5. /\ s \in Task \ {t} /\ d \in Seq(Messages)
      /\ rcvids'[t][j] = IF d = <<>> THEN "posted" ELSE "complete"
      /\ chan'[<<s, t, "data">>] = IF d = <<>> THEN d ELSE Tail(d)
      /\ \A x, y \in Task : x # s \/ y # t => chan'[<<x, y, "data">>] = chan[<<x, y, "data">>]
      /\ recvbuf' \in [Task -> SUBSET (Task \X Nat)]
      /\ \A q \in Task \ {t} : recvbuf'[q] = recvbuf[q]
      /\ recvbuf'[t] = IF d = <<>> THEN recvbuf[t] ELSE recvbuf[t] \cup {<<Head(d).from, Head(d).round>>}
  <2>1. PostsOne(t, j, swapids[t][j], chan[<<swapids[t][j], t, "data">>])
    BY <1>2, PostOne
  <2>2. PostsOne(t, j, s, d)
    BY <1>3, <1>4, <2>1
  <2> QED
    BY <2>2 DEF PostsOne
<1>6. /\ \A q \in Task \ {t} : rcvids'[q] = rcvids[q]
      /\ \A k \in DOMAIN swapids[t] : k # j => rcvids'[t][k] = rcvids[t][k]
  <2>1. {j} \in SUBSET DOMAIN swapids[t]
    OBVIOUS
  <2> QED
    BY <1>2, <2>1, PostDataEffect
<1>7. \A k \in DOMAIN swapids[t] : swapids[t][k] = s <=> k = j
  BY <1>2, <1>3 DEF Distinct
<1>8. rcvids[t][j] = "null" /\ ~Got(s, t) /\ Posted(t, s, "data") = {}
  <2>1. rcvids[t][j] = "null"
    BY <1>1, <1>2 DEF ReceivesOf, Incoming
  <2> QED
    BY <1>7, <2>1 DEF Got, Posted, Partner, Requests
<1>9. PointToPoint'
  BY <1>1 DEF PointToPoint
<1>10. \A q \in Task : PartnersOf(q)'
  BY SamePartners DEF Delivery
<1>11. \A q \in Task : RoundOf(q)'
  BY <1>1 DEF Delivery, RoundOf, Exchanging
<1>12. \A q \in Task \ {t} : ReceivesOf(q)' /\ BufferOf(q)'
  BY <1>1, <1>5, <1>6, SameReceives, SameBuffer DEF Delivery
<1>13. ReceivesOf(t)'
  <2>1. ASSUME NEW k \in DOMAIN swapids[t]
        PROVE  Incoming(t, k)'
    <3>1. CASE k = j
      BY <1>2, <1>5, <3>1, SamePartners DEF Incoming
    <3>2. CASE k # j
      <4>1. k \in Nat
        <5>1. swapids[t] \in Seq(Task)
          BY <1>2 DEF TypeOK
        <5> QED
          BY <5>1
      <4>2. k < rstep'[t] <=> k < rstep[t]
        BY <1>2, <3>2, <4>1
      <4> QED
        BY <1>1, <1>6, <3>2, <4>2, SamePartners DEF ReceivesOf, Incoming
    <3> QED
      BY <3>1, <3>2
  <2> QED
    BY <2>1 DEF ReceivesOf
<1>14. \A x \in Task \ {s} : Got(x, t)' = Got(x, t) /\ Posted(t, x, "data")' = Posted(t, x, "data")
  <2> SUFFICES ASSUME NEW x \in Task \ {s}
               PROVE  Got(x, t)' = Got(x, t) /\ Posted(t, x, "data")' = Posted(t, x, "data")
    OBVIOUS
  <2>1. \A k \in DOMAIN swapids[t] : swapids[t][k] = x => rcvids'[t][k] = rcvids[t][k]
    BY <1>3, <1>6
  <2> QED
    BY <2>1, OtherReceive
<1>15. Got(s, t)' <=> d # <<>>
  <2>1. Got(s, t)' <=> rcvids'[t][j] = "complete"
    BY <1>7 DEF Got
  <2> QED
    BY <1>5, <2>1
<1>16. LinkOf(s, t)
  BY <1>1, <1>5 DEF Delivery
<1>17. <<s, t>> \in traffic[entered[t]]
  BY <1>3 DEF Receives
<1>18. d # <<>> => Lowest(entered[t], d)
  <2> SUFFICES ASSUME d # <<>>
               PROVE  Lowest(entered[t], d)
    OBVIOUS
  <2>1. chan[<<s, t, "data">>] # <<>> /\ entered[t] > 0 /\ s \in Task
    BY <1>1, <1>4, <1>5
  <2> QED
    BY <1>2, <1>4, <1>8, <1>16, <1>17, <2>1, ThisRoundFirst
<1>19. d # <<>> => /\ Head(d).round = entered[t] /\ Head(d).from = s
                   /\ InOrder(Tail(d)) /\ RoundsIn(Tail(d)) = RoundsIn(d) \ {entered[t]}
                   /\ AllFrom(Tail(d), s)
  <2>1. InOrder(d) /\ AllFrom(d, s)
    BY <1>4, <1>16 DEF LinkOf
  <2> QED
    BY <1>5, <1>18, <2>1, TakeLowest
<1>20. BufferOf(t)'
  <2>1. Swap!SendersTo(t, entered[t])' = Swap!SendersTo(t, entered[t])
    BY SamePartners
  <2>2. Swap!SendersTo(t, entered[t]) \subseteq Task /\ s \in Swap!SendersTo(t, entered[t])
    BY <1>5, <1>17 DEF Swap!SendersTo, Task
  <2>3. pc[t] # "out" /\ recvbuf[t] = {<<x, entered[t]>> : x \in {y \in Swap!SendersTo(t, entered[t]) : y = t \/ Got(y, t)}}
    BY <1>1 DEF BufferOf, Exchanging
  <2>4. CASE d = <<>>
    <3>1. \A x \in Task : Got(x, t)' = Got(x, t)
      <4>1. Got(s, t)' = Got(s, t)
        BY <1>8, <1>15, <2>4 DEF Got
      <4> QED
        BY <1>14, <4>1
    <3> QED
      BY <1>5, <2>1, <2>2, <2>3, <2>4, <3>1 DEF BufferOf
  <2>5. CASE d # <<>>
    <3>1. recvbuf'[t] = recvbuf[t] \cup {<<s, entered[t]>>}
      BY <1>5, <1>19, <2>5
    <3>2. {y \in Swap!SendersTo(t, entered[t]) : y = t \/ Got(y, t)'}
             = {y \in Swap!SendersTo(t, entered[t]) : y = t \/ Got(y, t)} \cup {s}
      BY <1>14, <1>15, <2>2, <2>5
    <3> QED
      BY <2>1, <2>3, <3>1, <3>2 DEF BufferOf
  <2> QED
    BY <2>4, <2>5
<1>21. \A x, y \in Task : Gone(x, y)' = Gone(x, y)
  <2>1. \A x \in Task : nsent(x)' = nsent(x)
    BY DEF nsent
  <2> QED
    BY <2>1, SameGone
<1>22. ASSUME NEW x \in Task, NEW y \in Task, x # y
       PROVE  LinkOf(x, y)'
  <2>1. LinkOf(x, y)
    BY <1>1, <1>22 DEF Delivery
  <2>2. CASE y # t
    <3>1. Got(x, y)' = Got(x, y) /\ Posted(y, x, "data")' = Posted(y, x, "data")
      BY <1>6, <2>2, SameGot
    <3> QED
      BY <1>5, <1>21, <2>1, <2>2, <3>1, SameLink
  <2>3. CASE y = t /\ x # s
    BY <1>5, <1>14, <1>21, <2>1, <2>3, SameLink
  <2>4. CASE y = t /\ x = s /\ d = <<>>
    <3>1. Got(s, t)' = Got(s, t)
      BY <1>8, <1>15, <2>4 DEF Got
    <3>2. Sent(s, t)' = Sent(s, t) /\ Received(s, t)' = Received(s, t)
      BY <1>5, <1>21, <3>1 DEF Sent, Received
    <3>3. chan'[<<s, t, "data">>] = chan[<<s, t, "data">>] /\ chan'[<<s, t, "data">>] = <<>>
      BY <1>4, <1>5, <2>4
    <3> QED
      BY <2>1, <2>4, <3>2, <3>3 DEF LinkOf
  <2>5. CASE y = t /\ x = s /\ d # <<>>
    <3>1. Sent(s, t)' = Sent(s, t)
      BY <1>5, <1>21 DEF Sent
    <3>2. Received(s, t)' = Received(s, t) \cup {entered[t]}
      <4>1. Got(s, t)'
        BY <1>15, <2>5
      <4>2. entered[t] \in 1..entered[t]
        BY <1>1
      <4> QED
        BY <1>8, <1>17, <4>1, <4>2 DEF Received
    <3>3. entered[t] \in Sent(s, t) /\ RoundsIn(d) = Sent(s, t) \ Received(s, t)
      BY <1>4, <1>16, <1>18, <2>5 DEF LinkOf, Lowest
    <3>4. Posted(t, s, "data")' = {}
      BY <1>5, <1>7, <2>5 DEF Posted, Partner, Requests
    <3>5. chan'[<<s, t, "data">>] = Tail(d)
      BY <1>5, <2>5
    <3>6. RoundsIn(Tail(d)) = Sent(s, t)' \ Received(s, t)' /\ Received(s, t)' \subseteq Sent(s, t)'
      BY <1>16, <1>19, <2>5, <3>1, <3>2, <3>3 DEF LinkOf
    <3> QED
      BY <1>19, <2>5, <3>4, <3>5, <3>6 DEF LinkOf
  <2> QED
    BY <2>2, <2>3, <2>4, <2>5
<1> QED
  BY <1>5, <1>9, <1>10, <1>11, <1>12, <1>13, <1>20, <1>22 DEF Delivery

-----------------------------------------------------------------------------
(* A receive that is not needed after all.                                 *)
LEMMA PostNothing ==
    ASSUME Inv, Delivery, NEW t \in Task, Exchanging(t),
           UNCHANGED <<traffic, fc, entered, left, swapids>>,
           NEW H \in SUBSET DOMAIN swapids[t], PostData(t, {}), TakeFrom(t, {}, H),
           rstep'[t] = rstep[t] \/ (/\ rstep'[t] = rstep[t] + 1
                                    /\ rstep[t] \in DOMAIN swapids[t] => ~Receives(t, swapids[t][rstep[t]])),
           nsent(t)' = nsent(t), pc'[t] \notin {"out", "alltoall", "return"},
           \A q \in Task \ {t} : pc'[q] = pc[q] /\ rstep'[q] = rstep[q] /\ istep'[q] = istep[q]
    PROVE  Delivery'
<1>1. PointToPoint /\ left[t] + 1 = entered[t] /\ ReceivesOf(t) /\ BufferOf(t)
  BY InMessages
<1>2. TypeOK /\ Distinct /\ recvbuf \in [Task -> SUBSET (Task \X Nat)] /\ rstep[t] \in Nat
  BY DEF Inv, TypeOK, Delivery
<1>3. /\ \A x, y \in Task : chan'[<<x, y, "data">>] = chan[<<x, y, "data">>]
      /\ recvbuf' = recvbuf
  BY <1>2, PostNone
<1>4. /\ \A q \in Task \ {t} : rcvids'[q] = rcvids[q]
      /\ \A k \in DOMAIN swapids[t] : rcvids'[t][k] = rcvids[t][k]
  <2>1. {} \in SUBSET DOMAIN swapids[t]
    OBVIOUS
  <2> QED
    BY <1>2, <2>1, PostDataEffect
<1>5. PointToPoint'
  BY <1>1 DEF PointToPoint
<1>6. \A q \in Task : PartnersOf(q)'
  BY SamePartners DEF Delivery
<1>7. \A q \in Task : RoundOf(q)'
  BY <1>1 DEF Delivery, RoundOf, Exchanging
<1>8. \A q \in Task \ {t} : ReceivesOf(q)' /\ BufferOf(q)'
  BY <1>1, <1>3, <1>4, SameReceives, SameBuffer DEF Delivery
<1>9. ReceivesOf(t)'
  <2>1. ASSUME NEW k \in DOMAIN swapids[t]
        PROVE  Incoming(t, k)'
    <3>1. k \in Nat
      <4>1. swapids[t] \in Seq(Task)
        BY <1>2 DEF TypeOK
      <4> QED
        BY <4>1
    <3>2. Receives(t, swapids[t][k]) => (k < rstep'[t] <=> k < rstep[t])
      BY <1>2, <3>1
    <3> QED
      BY <1>1, <1>4, <3>2, SamePartners DEF ReceivesOf, Incoming
  <2> QED
    BY <2>1 DEF ReceivesOf
<1>10. \A x \in Task : Got(x, t)' = Got(x, t) /\ Posted(t, x, "data")' = Posted(t, x, "data")
  BY <1>4, OtherReceive
<1>11. BufferOf(t)'
  <2>1. Swap!SendersTo(t, entered[t])' = Swap!SendersTo(t, entered[t])
    BY SamePartners
  <2>2. Swap!SendersTo(t, entered[t]) \subseteq Task
    BY DEF Swap!SendersTo, Task
  <2> QED
    BY <1>1, <1>3, <1>10, <2>1, <2>2 DEF BufferOf, Exchanging
<1>12. ASSUME NEW x \in Task, NEW y \in Task, x # y
       PROVE  LinkOf(x, y)'
  <2>1. nsent(x)' = nsent(x)
    BY DEF nsent
  <2>2. Gone(x, y)' = Gone(x, y)
    BY <2>1, SameGone
  <2>3. Got(x, y)' = Got(x, y) /\ Posted(y, x, "data")' = Posted(y, x, "data")
    BY <1>4, <1>10, SameGot
  <2>4. LinkOf(x, y)
    BY <1>1, <1>12 DEF Delivery
  <2> QED
    BY <1>3, <2>2, <2>3, <2>4, SameLink
<1> QED
  BY <1>2, <1>3, <1>5, <1>6, <1>7, <1>8, <1>9, <1>11, <1>12 DEF Delivery

-----------------------------------------------------------------------------
LEMMA FirstHandshakesDelivers ==
    ASSUME Inv, Delivery, NEW t \in Task, FirstHandshakes(t)
    PROVE  Delivery'
<1> DEFINE H == IF fc.hs THEN {i \in 1..maxreq(t) : Sends(t, Partner(t, i))} ELSE {}
<1>1. /\ UNCHANGED <<traffic, fc, entered, left, swapids, istep, rstep, rcvids, recvbuf>>
      /\ pc[t] = "handshakes" /\ pc' = [pc EXCEPT ![t] = "receive"]
      /\ TakeFrom(t, {}, H)
  BY DEF FirstHandshakes, flow
<1>2. pc \in [Task -> Stage] /\ TypeOK
  BY DEF Inv, TypeOK
<1>3. pc'[t] = "receive" /\ \A q \in Task \ {t} : pc'[q] = pc[q]
  BY <1>1, <1>2
<1>4. \A x, y \in Task : chan'[<<x, y, "data">>] = chan[<<x, y, "data">>]
  <2> DEFINE taken == {<<Partner(t, i), t, "data">> : i \in Ready(t, {}, "data")}
                      \cup {<<Partner(t, i), t, "hs">> : i \in Ready(t, H, "hs")}
  <2>1. chan' = [l \in Links |-> IF l \in taken THEN Tail(chan[l]) ELSE chan[l]]
    BY <1>1 DEF TakeFrom
  <2>2. \A x, y \in Task : <<x, y, "data">> \in Links /\ <<x, y, "data">> \notin taken
    BY DEF Links, Kind, Ready
  <2> HIDE DEF taken
  <2> QED
    BY <2>1, <2>2
<1>5. Exchanging(t) /\ nsent(t)' = nsent(t)
  BY <1>1, <1>3 DEF Exchanging, nsent
<1> QED
  BY <1>1, <1>3, <1>4, <1>5, Quiet

LEMMA TellDelivers ==
    ASSUME Inv, Delivery, NEW t \in Task, Tell(t)
    PROVE  Delivery'
<1> DEFINE p == Partner(t, rstep[t] - 1)
<1>1. /\ UNCHANGED <<traffic, fc, entered, left, swapids, istep, rstep>>
      /\ pc[t] = "tell" /\ Deliver(t, p, "hs", Message(t, 0))
      /\ pc' = [pc EXCEPT ![t] = IF rstep[t] <= maxreq(t) THEN "receive" ELSE "send"]
  BY DEF Tell, flow
<1>2. pc \in [Task -> Stage] /\ chan \in [Links -> Seq(Messages)]
  BY DEF Inv, TypeOK
<1>3. pc'[t] \in {"receive", "send"} /\ \A q \in Task \ {t} : pc'[q] = pc[q]
  BY <1>1, <1>2
<1>4. UNCHANGED <<rcvids, recvbuf>>
  BY <1>1 DEF Deliver
<1>5. chan' = chan \/ chan' = [chan EXCEPT ![<<t, p, "hs">>] = Append(@, Message(t, 0))]
  BY <1>1 DEF Deliver
<1> HIDE DEF p
<1>6. \A x, y \in Task : chan'[<<x, y, "data">>] = chan[<<x, y, "data">>]
  <2>1. \A x, y \in Task : <<x, y, "data">> \in Links /\ <<x, y, "data">> # <<t, p, "hs">>
    BY DEF Links, Kind
  <2> QED
    BY <1>2, <1>5, <2>1
<1>7. Exchanging(t) /\ nsent(t)' = nsent(t)
  BY <1>1, <1>3 DEF Exchanging, nsent
<1> QED
  BY <1>1, <1>3, <1>4, <1>6, <1>7, Quiet

LEMMA WaitallDelivers ==
    ASSUME Inv, Delivery, NEW t \in Task, Waitall(t)
    PROVE  Delivery'
<1>1. /\ UNCHANGED <<traffic, fc, entered, left, swapids, istep, rstep, rcvids, recvbuf, chan>>
      /\ pc[t] = "send" /\ istep[t] > steps(t) /\ pc' = [pc EXCEPT ![t] = "return"]
      /\ \A i \in DOMAIN swapids[t] : rcvids[t][i] # "posted"
  BY DEF Waitall, flow, requests
<1>2. pc \in [Task -> Stage] /\ TypeOK /\ PaceOf(t) /\ istep[t] \in Nat /\ rstep[t] \in Nat
  BY DEF Inv, TypeOK
<1>3. pc'[t] = "return" /\ \A q \in Task \ {t} : pc'[q] = pc[q]
  BY <1>1, <1>2
<1>4. steps(t) > 0 /\ rstep[t] = Ahead(t)
  BY <1>1, <1>2 DEF PaceOf, Exchanging
<1>5. /\ steps(t) \in Nat /\ maxreq(t) \in 1..steps(t) /\ maxreqh(t) \in 1..maxreq(t)
      /\ maxreqh(t) = maxreq(t) => maxreq(t) = steps(t)
  BY <1>2, <1>4, Limits
<1>6. rstep[t] > steps(t)
  BY <1>1, <1>2, <1>4, <1>5 DEF Ahead
<1>7. Exchanging(t) /\ nsent(t)' = nsent(t)
  BY <1>1, <1>3 DEF Exchanging, nsent
<1> QED
  BY <1>1, <1>3, <1>6, <1>7, Quiet

LEMMA FirstReceiveDelivers ==
    ASSUME Inv, Delivery, NEW t \in Task, FirstReceive(t)
    PROVE  Delivery'
<1> DEFINE j == rstep[t]
           D == Expected(t, j)
<1>1. /\ UNCHANGED <<traffic, fc, entered, left, swapids, istep>>
      /\ pc[t] = "receive"
      /\ pc' = [pc EXCEPT ![t] = IF fc.hs /\ D # {} THEN "tell"
                                 ELSE IF j < maxreq(t) THEN "receive" ELSE "send"]
      /\ rstep' = [rstep EXCEPT ![t] = @ + 1]
      /\ PostData(t, D) /\ TakeFrom(t, D, {})
  BY DEF FirstReceive, flow
<1>2. TypeOK /\ PaceOf(t) /\ pc \in [Task -> Stage] /\ rstep \in [Task -> Nat \ {0}]
  BY DEF Inv, TypeOK
<1>3. steps(t) > 0 /\ j <= maxreq(t) /\ j \in Nat \ {0}
  BY <1>1, <1>2 DEF PaceOf, Exchanging
<1>4. steps(t) \in Nat /\ maxreq(t) \in 1..steps(t)
  BY <1>2, <1>3, Limits
<1>5. j \in DOMAIN swapids[t] /\ {} \in SUBSET DOMAIN swapids[t]
  <2>1. swapids[t] \in Seq(Task) /\ DOMAIN swapids[t] = 1..steps(t)
    BY <1>2 DEF TypeOK, steps
  <2> QED
    BY <1>3, <1>4, <2>1
<1>6. pc'[t] \in {"tell", "receive", "send"} /\ \A q \in Task \ {t} : pc'[q] = pc[q]
  BY <1>1, <1>2
<1>7. rstep'[t] = j + 1 /\ \A q \in Task \ {t} : rstep'[q] = rstep[q]
  BY <1>1, <1>2
<1>8. Exchanging(t) /\ nsent(t)' = nsent(t)
  BY <1>1, <1>6 DEF Exchanging, nsent
<1>9. CASE Receives(t, swapids[t][j])
  <2>1. D = {j}
    BY <1>9 DEF Expected, Partner
  <2>2. PostData(t, {j}) /\ TakeFrom(t, {j}, {})
    BY <1>1, <2>1
  <2> HIDE DEF D
  <2> QED
    BY <1>1, <1>5, <1>6, <1>7, <1>8, <1>9, <2>2, PostDelivers
<1>10. CASE ~Receives(t, swapids[t][j])
  <2>1. D = {}
    BY <1>10 DEF Expected, Partner
  <2>2. PostData(t, {}) /\ TakeFrom(t, {}, {})
    BY <1>1, <2>1
  <2> HIDE DEF D
  <2> QED
    BY <1>1, <1>5, <1>6, <1>7, <1>8, <1>10, <2>2, PostNothing
<1> QED
  BY <1>9, <1>10

LEMMA WaitAndPostDelivers ==
    ASSUME Inv, Delivery, NEW t \in Task, WaitAndPost(t)
    PROVE  Delivery'
<1> DEFINE j == rstep[t]
           more == istep[t] > maxreqh(t) /\ j <= steps(t)
           D == IF more THEN Expected(t, j) ELSE {}
           H == IF more /\ fc.hs THEN {k \in {j} : Sends(t, Partner(t, k))} ELSE {}
<1>1. /\ UNCHANGED <<traffic, fc, entered, left, swapids>>
      /\ pc[t] = "wait"
      /\ pc' = [pc EXCEPT ![t] = IF fc.hs /\ D # {} THEN "tell" ELSE "send"]
      /\ istep' = [istep EXCEPT ![t] = @ + 1]
      /\ rstep' = [rstep EXCEPT ![t] = IF more THEN @ + 1 ELSE @]
      /\ PostData(t, D) /\ TakeFrom(t, D, H)
  BY DEF WaitAndPost, flow
<1>2. /\ TypeOK /\ PaceOf(t) /\ pc \in [Task -> Stage]
      /\ rstep \in [Task -> Nat \ {0}] /\ istep \in [Task -> Nat \ {0}]
  BY DEF Inv, TypeOK
<1>3. steps(t) > 0 /\ j \in Nat \ {0} /\ istep[t] \in Nat \ {0}
  BY <1>1, <1>2 DEF PaceOf, Exchanging
<1>4. steps(t) \in Nat /\ swapids[t] \in Seq(Task) /\ DOMAIN swapids[t] = 1..steps(t)
  BY <1>2 DEF TypeOK, steps
<1>5. (more => j \in DOMAIN swapids[t]) /\ H \in SUBSET DOMAIN swapids[t]
  BY <1>3, <1>4
<1>6. pc'[t] \in {"tell", "send"} /\ \A q \in Task \ {t} : pc'[q] = pc[q]
  BY <1>1, <1>2
<1>7. /\ rstep'[t] = IF more THEN j + 1 ELSE j
      /\ istep'[t] = istep[t] + 1
      /\ \A q \in Task \ {t} : rstep'[q] = rstep[q] /\ istep'[q] = istep[q]
  BY <1>1, <1>2
<1>8. Exchanging(t) /\ nsent(t)' = nsent(t)
  BY <1>1, <1>3, <1>6, <1>7 DEF Exchanging, nsent
<1> HIDE DEF H
<1>9. CASE more /\ Receives(t, swapids[t][j])
  <2>1. D = {j}
    BY <1>9 DEF Expected, Partner
  <2>2. PostData(t, {j}) /\ TakeFrom(t, {j}, H)
    BY <1>1, <2>1
  <2>3. rstep'[t] = j + 1 /\ j \in DOMAIN swapids[t] /\ Receives(t, swapids[t][j])
    BY <1>5, <1>7, <1>9
  <2> HIDE DEF D, more
  <2> QED
    BY <1>1, <1>5, <1>6, <1>7, <1>8, <2>2, <2>3, PostDelivers
<1>10. CASE ~(more /\ Receives(t, swapids[t][j]))
  <2>1. D = {}
    BY <1>10 DEF Expected, Partner
  <2>2. PostData(t, {}) /\ TakeFrom(t, {}, H)
    BY <1>1, <2>1
  <2>3. rstep'[t] = rstep[t] \/ (/\ rstep'[t] = rstep[t] + 1
                                 /\ rstep[t] \in DOMAIN swapids[t] => ~Receives(t, swapids[t][rstep[t]]))
    BY <1>7, <1>10
  <2> HIDE DEF D, more
  <2> QED
    BY <1>1, <1>5, <1>6, <1>7, <1>8, <2>2, <2>3, PostNothing
<1> QED
  BY <1>9, <1>10

-----------------------------------------------------------------------------
(* Data find the receive for them, which is one of the same round, or wait *)
(* behind those of earlier rounds.                                         *)
LEMMA SendDataDelivers ==
    ASSUME Inv, Delivery, NEW t \in Task, SendData(t)
    PROVE  Delivery'
<1> DEFINE i == istep[t]
           r == entered[t]
<1>1. PICK p : p = Partner(t, i)
  OBVIOUS
<1>2. PICK m : m = Message(t, IF fc.isend THEN i ELSE 0)
  OBVIOUS
<1>3. /\ UNCHANGED <<traffic, fc, entered, left, swapids, istep, rstep>>
      /\ pc[t] = "send" /\ i <= steps(t) /\ pc' = [pc EXCEPT ![t] = "wait"]
      /\ IF Sends(t, p) THEN Deliver(t, p, "data", m) ELSE UNCHANGED <<rcvids, chan, recvbuf>>
  BY <1>1, <1>2 DEF SendData, flow, requests
<1>4. /\ TypeOK /\ Distinct /\ pc \in [Task -> Stage] /\ i \in Nat \ {0}
      /\ chan \in [Links -> Seq(Messages)] /\ recvbuf \in [Task -> SUBSET (Task \X Nat)]
  BY DEF Inv, TypeOK, Delivery
<1>5. swapids[t] \in Seq(Task) /\ i \in DOMAIN swapids[t] /\ swapids[t][i] = p
  BY <1>1, <1>3, <1>4 DEF TypeOK, steps, Partner
<1>6. p \in Task \ {t}
  <2>1. p \in Task
    BY <1>5
  <2> QED
    BY <1>4, <1>5, <2>1 DEF Distinct
<1>7. Exchanging(t)
  BY <1>3 DEF Exchanging
<1>8. PointToPoint /\ left[t] + 1 = r /\ ReceivesOf(t) /\ BufferOf(t) /\ r \in Nat \ {0}
  BY <1>7, InMessages
<1>9. m \in Messages /\ m.from = t /\ m.round = r
  BY <1>2, <1>4, <1>8 DEF Message, Messages
<1>10. pc'[t] = "wait" /\ \A q \in Task \ {t} : pc'[q] = pc[q]
  BY <1>3, <1>4
<1>11. \A k \in DOMAIN swapids[t] : k \in Nat /\ (swapids[t][k] = p <=> k = i)
  BY <1>4, <1>5 DEF Distinct
<1>12. ~Gone(t, p) /\ Gone(t, p)'
  <2>1. nsent(t) = i - 1 /\ nsent(t)' = i
    BY <1>3, <1>10 DEF nsent
  <2> QED
    BY <1>3, <1>4, <1>5, <1>11, <2>1 DEF Gone
<1>13. \A x, y \in Task : x # t \/ y # p => Gone(x, y)' = Gone(x, y)
  <2> SUFFICES ASSUME NEW x \in Task, NEW y \in Task, x # t \/ y # p
               PROVE  Gone(x, y)' = Gone(x, y)
    OBVIOUS
  <2>1. CASE x # t
    <3>1. nsent(x)' = nsent(x)
      BY <1>3, <1>10, <2>1 DEF nsent
    <3> QED
      BY <1>3, <3>1, SameGone
  <2>2. CASE x = t /\ y # p
    <3>1. nsent(t) = i - 1 /\ nsent(t)' = i
      BY <1>3, <1>10 DEF nsent
    <3>2. \A k \in DOMAIN swapids[t] : swapids[t][k] = y => (k <= i <=> k <= i - 1)
      BY <1>4, <1>5, <1>11, <2>2
    <3> QED
      BY <1>3, <2>2, <3>1, <3>2 DEF Gone
  <2> QED
    BY <2>1, <2>2
<1>14. PointToPoint'
  BY <1>3, <1>8 DEF PointToPoint
<1>15. \A q \in Task : PartnersOf(q)' /\ RoundOf(q)'
  <2>1. \A q \in Task : PartnersOf(q)'
    BY <1>3, SamePartners DEF Delivery
  <2>2. \A q \in Task : RoundOf(q)'
    BY <1>3, <1>8, <1>10 DEF Delivery, RoundOf
  <2> QED
    BY <2>1, <2>2
<1>16. CASE ~Sends(t, p)
  <2>1. UNCHANGED <<rcvids, chan, recvbuf>>
    BY <1>3, <1>16
  <2>2. \A x, y \in Task : Sent(x, y)' = Sent(x, y) /\ Received(x, y)' = Received(x, y)
    <3> SUFFICES ASSUME NEW x \in Task, NEW y \in Task
                 PROVE  Sent(x, y)' = Sent(x, y) /\ Received(x, y)' = Received(x, y)
      OBVIOUS
    <3>1. Got(x, y)' = Got(x, y)
      BY <1>3, <2>1, SameGot
    <3>2. CASE x # t \/ y # p
      BY <1>3, <1>13, <3>1, <3>2 DEF Sent, Received
    <3>3. CASE x = t /\ y = p
      <4>1. <<t, p>> \notin traffic[r]
        BY <1>16 DEF Sends
      <4> QED
        BY <1>3, <3>1, <3>3, <4>1 DEF Sent, Received
    <3> QED
      BY <3>2, <3>3
  <2>3. ASSUME NEW x \in Task, NEW y \in Task, x # y
        PROVE  LinkOf(x, y)'
    <3>1. Posted(y, x, "data")' = Posted(y, x, "data")
      BY <1>3, <2>1, SameGot
    <3>2. LinkOf(x, y)
      BY <1>8, <2>3 DEF Delivery
    <3> QED
      BY <2>1, <2>2, <3>1, <3>2 DEF LinkOf
  <2>4. \A q \in Task : BufferOf(q)'
    <3>1. \A q \in Task : pc'[q] # "out" => pc[q] # "out"
      BY <1>3, <1>10
    <3>2. \A q, x \in Task : Got(x, q)' = Got(x, q)
      BY <1>3, <2>1, SameGot
    <3>3. \A q \in Task : Swap!SendersTo(q, entered[q])' = Swap!SendersTo(q, entered[q])
      BY <1>3, SamePartners
    <3>4. \A q \in Task : Swap!SendersTo(q, entered[q]) \subseteq Task
      BY DEF Swap!SendersTo, Task
    <3> QED
      BY <1>3, <1>8, <2>1, <3>1, <3>2, <3>3, <3>4 DEF BufferOf, Delivery
  <2>5. \A q \in Task : ReceivesOf(q)'
    <3>1. \A q \in Task \ {t} : ReceivesOf(q)'
      BY <1>3, <1>8, <1>10, <2>1, SameReceives DEF Delivery
    <3>2. ReceivesOf(t)'
      BY <1>3, <1>8, <1>10, <2>1, SamePartners DEF ReceivesOf, Incoming
    <3> QED
      BY <3>1, <3>2
  <2>6. recvbuf' \in [Task -> SUBSET (Task \X Nat)]
    BY <1>4, <2>1
  <2> QED
    BY <1>14, <1>15, <2>3, <2>4, <2>5, <2>6 DEF Delivery
<1>17. CASE Sends(t, p)
  <2>1. PICK d : d = chan[<<t, p, "data">>]
    OBVIOUS
  <2>2. Deliver(t, p, "data", m)
    BY <1>3, <1>17
  <2>3. <<t, p, "data">> \in Links /\ d \in Seq(Messages)
    BY <1>4, <1>6, <2>1 DEF Links, Kind
  <2>4. /\ \A q \in Task \ {p} : rcvids'[q] = rcvids[q]
        /\ \A k \in DOMAIN swapids[p] :
              rcvids'[p][k] = IF swapids[p][k] = t /\ rcvids[p][k] = "posted" THEN "complete" ELSE rcvids[p][k]
        /\ \A l \in Links \ {<<t, p, "data">>} : chan'[l] = chan[l]
    BY <1>4, <1>6, <1>9, <2>2, DeliverData
  <2>5. \A x, y \in Task : x # t \/ y # p => chan'[<<x, y, "data">>] = chan[<<x, y, "data">>]
    BY <2>4 DEF Links, Kind
  <2>6. /\ chan' = IF Posted(p, t, "data") # {} THEN chan ELSE [chan EXCEPT ![<<t, p, "data">>] = Append(@, m)]
        /\ recvbuf' = IF Posted(p, t, "data") # {} THEN [recvbuf EXCEPT ![p] = @ \cup {<<t, r>>}] ELSE recvbuf
    BY <1>9, <2>2 DEF Deliver
  <2>7. LinkOf(t, p)
    BY <1>6, <1>8 DEF Delivery
  <2>8. <<t, p>> \in traffic[r]
    BY <1>17 DEF Sends
  <2>9. Sent(t, p)' = Sent(t, p) \cup {r} /\ r \notin Sent(t, p) /\ r \notin Received(t, p)
    <3>1. r \in 1..r
      BY <1>8
    <3>2. r \notin Sent(t, p)
      BY <1>12 DEF Sent
    <3>3. Sent(t, p)' = Sent(t, p) \cup {r}
      BY <1>3, <1>12, <2>8, <3>1 DEF Sent
    <3> QED
      BY <2>7, <3>2, <3>3 DEF LinkOf
  <2>10. \A x \in Task \ {t} : Got(x, p)' = Got(x, p) /\ Posted(p, x, "data")' = Posted(p, x, "data")
    BY <1>3, <2>4, OtherReceive
  <2>11. ASSUME NEW x \in Task, NEW y \in Task, x # y, x # t \/ y # p
         PROVE  LinkOf(x, y)'
    <3>1. LinkOf(x, y)
      BY <1>8, <2>11 DEF Delivery
    <3>2. Got(x, y)' = Got(x, y) /\ Posted(y, x, "data")' = Posted(y, x, "data")
      <4>1. CASE y # p
        BY <1>3, <2>4, <4>1, SameGot
      <4>2. CASE y = p
        BY <2>10, <2>11, <4>2
      <4> QED
        BY <4>1, <4>2
    <3> QED
      BY <1>3, <1>13, <2>5, <2>11, <3>1, <3>2, SameLink
  <2>12. \A q \in Task \ {t} : ReceivesOf(q)'
    <3> SUFFICES ASSUME NEW q \in Task \ {t} PROVE ReceivesOf(q)'
      OBVIOUS
    <3>1. ReceivesOf(q)
      BY <1>8 DEF Delivery
    <3>2. CASE q # p
      BY <1>3, <1>10, <2>4, <3>1, <3>2, SameReceives
    <3>3. CASE q = p
      <4>1. \A k \in DOMAIN swapids[p] : rcvids'[p][k] # "null" <=> rcvids[p][k] # "null"
        BY <2>4
      <4>2. \A k \in DOMAIN swapids[p] : rcvids'[p][k] = "posted" => rcvids[p][k] = "posted"
        BY <2>4
      <4> QED
        BY <1>3, <1>10, <3>1, <3>3, <4>1, <4>2, SamePartners DEF ReceivesOf, Incoming
    <3> QED
      BY <3>2, <3>3
  <2>13. ReceivesOf(t)'
    BY <1>3, <1>6, <1>8, <1>10, <2>4, SamePartners DEF ReceivesOf, Incoming
  <2>14. \A q \in Task : Swap!SendersTo(q, entered[q])' = Swap!SendersTo(q, entered[q])
    BY <1>3, SamePartners
  <2>15. \A q \in Task : Swap!SendersTo(q, entered[q]) \subseteq Task
    BY DEF Swap!SendersTo, Task
  <2>16. recvbuf' \in [Task -> SUBSET (Task \X Nat)] /\ \A q \in Task \ {p} : recvbuf'[q] = recvbuf[q]
    <3>1. <<t, r>> \in Task \X Nat
      BY <1>8
    <3> QED
      BY <1>4, <1>6, <2>6, <3>1
  <2>17. \A q \in Task \ {p} : BufferOf(q)'
    <3> SUFFICES ASSUME NEW q \in Task \ {p}, pc'[q] # "out" PROVE BufferOf(q)'
      BY DEF BufferOf
    <3>1. BufferOf(q) /\ pc[q] # "out"
      BY <1>3, <1>8, <1>10 DEF Delivery
    <3>2. \A x \in Task : Got(x, q)' = Got(x, q)
      BY <1>3, <2>4, SameGot
    <3> QED
      BY <1>3, <2>14, <2>15, <2>16, <3>1, <3>2 DEF BufferOf
  <2>18. CASE Posted(p, t, "data") = {}
    <3>1. \A k \in DOMAIN swapids[p] : swapids[p][k] = t => rcvids'[p][k] = rcvids[p][k]
      BY <2>4, <2>18 DEF Posted, Partner, Requests
    <3>2. Got(t, p)' = Got(t, p) /\ Posted(p, t, "data")' = {}
      BY <1>3, <2>18, <3>1, OtherReceive
    <3>3. chan'[<<t, p, "data">>] = Append(d, m)
      BY <1>4, <2>1, <2>3, <2>6, <2>18
    <3>4. \A q \in RoundsIn(d) : q < r
      BY <1>4, <1>6, <1>8, <1>12, <2>1, <2>7, <2>8, LaterRound
    <3>5. AllFrom(d, t) /\ InOrder(d) /\ RoundsIn(d) = Sent(t, p) \ Received(t, p)
      BY <2>1, <2>7 DEF LinkOf
    <3>6. InOrder(Append(d, m)) /\ RoundsIn(Append(d, m)) = RoundsIn(d) \cup {r} /\ AllFrom(Append(d, m), t)
      <4>1. \A q \in RoundsIn(d) : q < m.round
        BY <1>9, <3>4
      <4> QED
        BY <1>9, <2>3, <3>5, <4>1, AppendHighest
    <3>7. Received(t, p)' = Received(t, p)
      BY <1>3, <3>2 DEF Received
    <3>8. /\ RoundsIn(Append(d, m)) = Sent(t, p)' \ Received(t, p)'
          /\ Received(t, p)' \subseteq Sent(t, p)'
      BY <2>7, <2>9, <3>5, <3>6, <3>7 DEF LinkOf
    <3>9. LinkOf(t, p)'
      BY <3>2, <3>3, <3>6, <3>8 DEF LinkOf
    <3>10. BufferOf(p)'
      <4>1. \A x \in Task : Got(x, p)' = Got(x, p)
        BY <2>10, <3>2
      <4>2. BufferOf(p) /\ pc'[p] = pc[p] /\ recvbuf' = recvbuf
        BY <1>6, <1>8, <1>10, <2>6, <2>18 DEF Delivery
      <4> QED
        BY <1>3, <1>6, <2>14, <2>15, <4>1, <4>2 DEF BufferOf
    <3> QED
      BY <1>14, <1>15, <2>11, <2>12, <2>13, <2>16, <2>17, <3>9, <3>10 DEF Delivery
  <2>19. CASE Posted(p, t, "data") # {}
    <3>1. PICK k \in DOMAIN swapids[p] : swapids[p][k] = t /\ rcvids[p][k] = "posted"
      BY <2>19 DEF Posted, Partner, Requests
    <3>2. \A j \in DOMAIN swapids[p] : swapids[p][j] = t => j = k
      BY <1>4, <1>6, <3>1 DEF Distinct
    <3>3. d = <<>> /\ chan[<<t, p, "data">>] = <<>>
      BY <2>1, <2>7, <2>19 DEF LinkOf
    <3>4. ~Got(t, p)
      BY <3>1, <3>2 DEF Got
    <3>5. rcvids'[p][k] = "complete"
      BY <2>4, <3>1
    <3>6. Got(t, p)' /\ Posted(p, t, "data")' = {}
      BY <1>3, <3>1, <3>2, <3>5 DEF Got, Posted, Partner, Requests
    <3>7. Exchanging(p)
      BY <1>6, <3>1 DEF Inv, WindowOf, Exchanging
    <3>8. ReceivesOf(p) /\ BufferOf(p) /\ entered[p] \in Nat \ {0}
      BY <1>6, <3>7, InMessages
    <3>9. <<t, p>> \in traffic[entered[p]]
      BY <3>1, <3>8 DEF ReceivesOf, Incoming, Receives
    <3>10. entered[p] = r
      <4>1. entered[p] > 0 /\ entered[t] > 0 /\ p \in Task
        BY <1>6, <1>8, <3>8
      <4> QED
        BY <1>4, <1>12, <2>7, <2>8, <3>3, <3>4, <3>9, <4>1, SameRound
    <3>11. Received(t, p)' = Received(t, p) \cup {r}
      <4>1. r \in 1..r
        BY <1>8
      <4> QED
        BY <1>3, <2>8, <3>4, <3>6, <3>10, <4>1 DEF Received
    <3>12. chan'[<<t, p, "data">>] = <<>>
      BY <2>6, <2>19, <3>3
    <3>13. RoundsIn(<<>>) = {} /\ InOrder(<<>>) /\ AllFrom(<<>>, t)
      BY DEF RoundsIn, InOrder, AllFrom
    <3>14. Sent(t, p)' \ Received(t, p)' = {} /\ Received(t, p)' \subseteq Sent(t, p)'
      BY <2>7, <2>9, <3>3, <3>11, <3>13 DEF LinkOf
    <3>15. LinkOf(t, p)'
      BY <3>6, <3>12, <3>13, <3>14 DEF LinkOf
    <3>16. BufferOf(p)'
      <4>1. recvbuf'[p] = recvbuf[p] \cup {<<t, r>>}
        BY <1>4, <1>6, <2>6, <2>19
      <4>2. t \in Swap!SendersTo(p, entered[p])
        BY <3>9 DEF Swap!SendersTo, Task
      <4>3. recvbuf[p] = {<<x, r>> : x \in {y \in Swap!SendersTo(p, r) : y = p \/ Got(y, p)}}
        BY <3>7, <3>8, <3>10 DEF BufferOf, Exchanging
      <4>4. {y \in Swap!SendersTo(p, entered[p]) : y = p \/ Got(y, p)'}
               = {y \in Swap!SendersTo(p, entered[p]) : y = p \/ Got(y, p)} \cup {t}
        BY <1>6, <2>10, <2>15, <3>6, <4>2
      <4> QED
        BY <1>3, <1>6, <2>14, <3>10, <4>1, <4>3, <4>4 DEF BufferOf
    <3> QED
      BY <1>14, <1>15, <2>11, <2>12, <2>13, <2>16, <2>17, <3>15, <3>16 DEF Delivery
  <2> QED
    BY <2>18, <2>19
<1> QED
  BY <1>16, <1>17

-----------------------------------------------------------------------------
(* The exchange in one call of MPI.                                        *)
LEMMA AlltoallwDelivers ==
    ASSUME Inv, Delivery, NEW t \in Task, Alltoallw(t)
    PROVE  Delivery'
<1>1. /\ UNCHANGED <<traffic, fc, entered, left, swapids>>
      /\ pc[t] = "alltoall" /\ pc' = [pc EXCEPT ![t] = "return"]
      /\ \A s \in Swap!SendersTo(t, entered[t]) : entered[s] >= entered[t]
      /\ recvbuf' = [recvbuf EXCEPT ![t] = {<<s, entered[t]>> : s \in Swap!SendersTo(t, entered[t])}]
  BY DEF Alltoallw, flow
<1>2. /\ pc \in [Task -> Stage] /\ recvbuf \in [Task -> SUBSET (Task \X Nat)]
      /\ \A q \in Task : entered[q] \in Nat
  BY SwapAssumption DEF Inv, TypeOK, Delivery
<1>3. ~PointToPoint /\ ~PointToPoint'
  BY <1>1 DEF Delivery, ReceivesOf, PointToPoint
<1>4. pc'[t] = "return" /\ \A q \in Task \ {t} : pc'[q] = pc[q]
  BY <1>1, <1>2
<1>5. \A q \in Task : PartnersOf(q)' /\ RoundOf(q)'
  <2>1. \A q \in Task : PartnersOf(q)'
    BY <1>1, SamePartners DEF Delivery
  <2>2. \A q \in Task : RoundOf(q)'
    BY <1>1, <1>4 DEF Delivery, RoundOf
  <2> QED
    BY <2>1, <2>2
<1>6. \A q \in Task : Swap!SendersTo(q, entered[q]) \subseteq Task
  BY DEF Swap!SendersTo, Task
<1>7. \A q \in Task : Swap!SendersTo(q, entered[q])' = Swap!SendersTo(q, entered[q])
  BY <1>1, SamePartners
<1>8. /\ recvbuf' \in [Task -> SUBSET (Task \X Nat)]
      /\ recvbuf'[t] = {<<s, entered[t]>> : s \in Swap!SendersTo(t, entered[t])}
      /\ \A q \in Task \ {t} : recvbuf'[q] = recvbuf[q]
  <2> DEFINE new == {<<s, entered[t]>> : s \in Swap!SendersTo(t, entered[t])}
  <2>1. new \subseteq Task \X Nat
    BY <1>2, <1>6
  <2> HIDE DEF new
  <2>2. recvbuf' = [recvbuf EXCEPT ![t] = new]
    BY <1>1 DEF new
  <2>3. /\ recvbuf' \in [Task -> SUBSET (Task \X Nat)] /\ recvbuf'[t] = new
        /\ \A q \in Task \ {t} : recvbuf'[q] = recvbuf[q]
    BY <1>2, <2>1, <2>2
  <2> QED
    BY <2>3 DEF new
<1>9. AtOnce(t)'
  BY <1>1, <1>4, <1>7, <1>8 DEF AtOnce
<1>10. \A q \in Task \ {t} : AtOnce(q)'
  BY <1>1, <1>3, <1>4, <1>7, <1>8 DEF AtOnce, Delivery
<1> QED
  BY <1>3, <1>5, <1>8, <1>9, <1>10 DEF Delivery

(* The end of a call.                                                      *)
LEMMA ReturnDelivers ==
    ASSUME Inv, Delivery, NEW t \in Task, Return(t)
    PROVE  Delivery'
<1>1. /\ UNCHANGED <<traffic, fc, entered, swapids, istep, rstep, rcvids, chan, recvbuf>>
      /\ pc[t] = "return" /\ pc' = [pc EXCEPT ![t] = "out"]
      /\ left' = [left EXCEPT ![t] = entered[t]]
  BY DEF Return, flow, requests
<1>2. pc \in [Task -> Stage] /\ left \in [Task -> 0..Rounds]
  BY DEF Inv, TypeOK
<1>3. /\ pc'[t] = "out" /\ left'[t] = entered[t]
      /\ \A q \in Task \ {t} : pc'[q] = pc[q] /\ left'[q] = left[q]
  BY <1>1, <1>2
<1>4. \A q \in Task : PartnersOf(q)' /\ RoundOf(q)'
  <2>1. \A q \in Task : PartnersOf(q)'
    BY <1>1, SamePartners DEF Delivery
  <2>2. \A q \in Task : RoundOf(q)'
    BY <1>1, <1>3 DEF Delivery, RoundOf
  <2> QED
    BY <2>1, <2>2
<1>5. recvbuf' \in [Task -> SUBSET (Task \X Nat)]
  BY <1>1 DEF Delivery
<1>6. CASE PointToPoint
  <2>1. PointToPoint'
    BY <1>1, <1>6 DEF PointToPoint
  <2>2. \A q \in Task \ {t} : ReceivesOf(q)' /\ BufferOf(q)'
    BY <1>1, <1>3, <1>6, SameReceives, SameBuffer DEF Delivery
  <2>3. BufferOf(t)'
    BY <1>3 DEF BufferOf
  <2>4. ReceivesOf(t)'
    BY <1>1, <1>3, <1>6, SamePartners DEF ReceivesOf, Incoming, Delivery
  <2>5. ASSUME NEW x \in Task, NEW y \in Task, x # y
        PROVE  LinkOf(x, y)'
    <3>1. nsent(x)' = nsent(x)
      BY <1>1, <1>3 DEF nsent
    <3>2. Gone(x, y)' = Gone(x, y)
      BY <1>1, <3>1, SameGone
    <3>3. Got(x, y)' = Got(x, y) /\ Posted(y, x, "data")' = Posted(y, x, "data")
      BY <1>1, SameGot
    <3>4. LinkOf(x, y)
      BY <1>6, <2>5 DEF Delivery
    <3> QED
      BY <1>1, <3>2, <3>3, <3>4, SameLink
  <2> QED
    BY <1>4, <1>5, <2>1, <2>2, <2>3, <2>4, <2>5 DEF Delivery
<1>7. CASE ~PointToPoint
  <2>1. ~PointToPoint'
    BY <1>1, <1>7 DEF PointToPoint
  <2>2. \A q \in Task : Swap!SendersTo(q, entered[q])' = Swap!SendersTo(q, entered[q])
    BY <1>1, SamePartners
  <2>3. \A q \in Task : AtOnce(q)'
    BY <1>1, <1>3, <1>7, <2>2 DEF AtOnce, Delivery
  <2> QED
    BY <1>4, <1>5, <2>1, <2>3 DEF Delivery
<1> QED
  BY <1>6, <1>7

(* A new call: all that was to be sent and received in the last one has    *)
(* been, and nothing of the new one.                                       *)
LEMMA BeginDelivers ==
    ASSUME Inv, Delivery, NEW t \in Task, Begin(t)
    PROVE  Delivery'
<1>1. PICK r : r = entered[t] + 1
  OBVIOUS
<1>2. PICK ids : ids = Partners(t, traffic[r])
  OBVIOUS
<1>3. /\ Swap!Enter(t) /\ TypeOK /\ Distinct /\ recvbuf \in [Task -> SUBSET (Task \X Nat)]
      /\ pc \in [Task -> Stage] /\ swapids \in [Task -> Seq(Task)]
      /\ istep \in [Task -> Nat \ {0}] /\ rstep \in [Task -> Nat \ {0}]
      /\ rcvids \in [Task -> Seq(Status)] /\ entered \in [Task -> 0..Rounds]
  BY DEF Begin, Inv, TypeOK, Delivery
<1>4. /\ UNCHANGED <<traffic, left>> /\ entered[t] = left[t] /\ left[t] < Rounds
      /\ entered' = [entered EXCEPT ![t] = r] /\ entered'[t] = r
      /\ \A q \in Task \ {t} : entered'[q] = entered[q]
  BY <1>1, <1>3 DEF Swap!Enter
<1>5. r \in Nat \ {0} /\ r \in 1..Rounds /\ traffic[r] \in Patterns /\ entered[t] \in Nat
  BY <1>1, <1>3, <1>4, SwapAssumption DEF TypeOK
<1>6. /\ ids \in Seq(Task \ {t}) /\ ids \in Seq(Task)
      /\ \A p \in Task \ {t} : <<t, p>> \in traffic[r] \/ <<p, t>> \in traffic[r] => \E i \in DOMAIN ids : ids[i] = p
  <2>1. PICK S \in Patterns : S = traffic[r] /\ ids = Partners(t, S)
    BY <1>2, <1>5
  <2>2. ids \in Seq(Task \ {t})
    BY <2>1, PartnersAssumption
  <2>3. \A p \in Task \ {t} : {<<t, p>>, <<p, t>>} \cap S # {} => \E i \in DOMAIN ids : ids[i] = p
    BY <2>1, PartnersAssumption
  <2>4. ids \in Seq(Task)
    BY <2>2
  <2>5. \A p : <<t, p>> \in S \/ <<p, t>> \in S => {<<t, p>>, <<p, t>>} \cap S # {}
    OBVIOUS
  <2> QED
    BY <2>1, <2>2, <2>3, <2>4, <2>5
<1>7. \A i \in DOMAIN ids : ids[i] # t /\ i \in Nat \ {0}
  BY <1>6
<1> DEFINE null == [i \in DOMAIN ids |-> "null"]
           own == IF fc.max_pend_req # 0 /\ <<t, t>> \in traffic[r] THEN {<<t, r>>} ELSE {}
<1>8. /\ swapids' = [swapids EXCEPT ![t] = ids]
      /\ rcvids' = [rcvids EXCEPT ![t] = null]
      /\ recvbuf' = [recvbuf EXCEPT ![t] = own]
      /\ istep' = [istep EXCEPT ![t] = 1] /\ rstep' = [rstep EXCEPT ![t] = 1]
      /\ pc' = [pc EXCEPT ![t] = CASE fc.max_pend_req = 0 -> "alltoall"
                                   [] fc.max_pend_req # 0 /\ ids = <<>> -> "return"
                                   [] OTHER -> "handshakes"]
      /\ UNCHANGED <<fc, chan>>
  BY <1>2, <1>4 DEF Begin
<1>9. \A k \in DOMAIN ids : null[k] = "null"
  OBVIOUS
<1>10. own \subseteq Task \X Nat
  BY <1>5
<1> HIDE DEF null
<1>11. /\ swapids'[t] = ids /\ rcvids'[t] = null
       /\ istep'[t] = 1 /\ rstep'[t] = 1
       /\ \A q \in Task \ {t} : /\ swapids'[q] = swapids[q] /\ rcvids'[q] = rcvids[q]
                                /\ istep'[q] = istep[q] /\ rstep'[q] = rstep[q]
  BY <1>3, <1>8
<1>12. /\ recvbuf' \in [Task -> SUBSET (Task \X Nat)] /\ recvbuf'[t] = own
       /\ \A q \in Task \ {t} : recvbuf'[q] = recvbuf[q]
  <2> HIDE DEF own
  <2> QED
    BY <1>3, <1>8, <1>10
<1>13. /\ IF fc.max_pend_req = 0 THEN pc'[t] = "alltoall" ELSE pc'[t] \in {"return", "handshakes"}
       /\ pc'[t] = "return" => ids = <<>>
       /\ \A q \in Task \ {t} : pc'[q] = pc[q]
  BY <1>3, <1>8
<1>14. pc[t] = "out"
  BY <1>4, <1>5 DEF Delivery, RoundOf
<1>15. \A q \in Task : RoundOf(q)'
  BY <1>1, <1>4, <1>13 DEF Delivery, RoundOf
<1>16. \A q \in Task : PartnersOf(q)'
  <2>1. \A q \in Task \ {t} : PartnersOf(q)'
    BY <1>4, <1>11, SamePartners DEF Delivery
  <2>2. PartnersOf(t)'
    BY <1>4, <1>6, <1>11 DEF PartnersOf, Sends, Receives
  <2> QED
    BY <2>1, <2>2
<1>17. CASE ~PointToPoint
  <2>1. ~PointToPoint' /\ pc'[t] = "alltoall"
    BY <1>8, <1>13, <1>17 DEF PointToPoint
  <2>2. \A q \in Task \ {t} : Swap!SendersTo(q, entered[q])' = Swap!SendersTo(q, entered[q])
    BY <1>4, <1>11, SamePartners
  <2>3. ASSUME NEW q \in Task \ {t}
        PROVE  AtOnce(q)'
    <3>1. AtOnce(q)
      BY <1>17 DEF Delivery
    <3>2. \A s \in Task : entered'[s] = entered[s] \/ (s = t /\ entered'[s] = entered[t] + 1)
      BY <1>1, <1>4
    <3>3. Swap!SendersTo(q, entered[q]) \subseteq Task
      BY DEF Swap!SendersTo, Task
    <3>4. \A s \in Task : entered[s] \in Nat
      BY <1>3, SwapAssumption
    <3>5. \A s \in Swap!SendersTo(q, entered[q]) : entered[s] >= entered[q] => entered'[s] >= entered[q]
      BY <3>2, <3>3, <3>4
    <3> QED
      BY <1>4, <1>12, <1>13, <2>2, <3>1, <3>5 DEF AtOnce
  <2>4. AtOnce(t)'
    BY <2>1 DEF AtOnce
  <2> QED
    BY <1>12, <1>15, <1>16, <2>1, <2>3, <2>4 DEF Delivery
<1>18. CASE PointToPoint
  <2>1. PointToPoint' /\ pc'[t] # "alltoall" /\ fc.max_pend_req # 0
    BY <1>8, <1>13, <1>18 DEF PointToPoint
  <2>2. \A q \in Task \ {t} : ReceivesOf(q)' /\ BufferOf(q)'
    BY <1>4, <1>11, <1>12, <1>13, <1>18, SameReceives, SameBuffer DEF Delivery
  <2>3. ReceivesOf(t)'
    <3>1. \A i \in DOMAIN ids : Incoming(t, i)'
      BY <1>7, <1>9, <1>11 DEF Incoming
    <3>2. ids = <<>> => Len(ids) = 0 /\ DOMAIN ids = {}
      OBVIOUS
    <3>3. pc'[t] \in {"return", "out"} => ids = <<>>
      BY <1>13
    <3> QED
      BY <1>11, <2>1, <3>1, <3>2, <3>3 DEF ReceivesOf, steps
  <2>4. ReceivesOf(t) /\ PartnersOf(t)
    BY <1>18 DEF Delivery
  <2>5. \A x \in Task : ~Got(x, t)'
    BY <1>9, <1>11 DEF Got
  <2>6. BufferOf(t)'
    <3>1. Swap!SendersTo(t, r)' = {s \in Task : <<s, t>> \in traffic[r]}
      BY <1>4 DEF Swap!SendersTo, Task
    <3>2. {x \in Swap!SendersTo(t, r)' : x = t \/ Got(x, t)'} = IF <<t, t>> \in traffic[r] THEN {t} ELSE {}
      BY <2>5, <3>1
    <3>3. own = {<<x, r>> : x \in {y \in Swap!SendersTo(t, r)' : y = t \/ Got(y, t)'}}
      BY <2>1, <3>2
    <3> QED
      BY <1>4, <1>12, <3>3 DEF BufferOf
  <2>7. \A x \in Task \ {t} : Received(x, t)' = Received(x, t)
    <3> SUFFICES ASSUME NEW x \in Task \ {t}
                 PROVE  Received(x, t)' = Received(x, t)
      OBVIOUS
    <3>1. entered[t] > 0 /\ <<x, t>> \in traffic[entered[t]] => Got(x, t)
      <4> SUFFICES ASSUME entered[t] > 0, <<x, t>> \in traffic[entered[t]]
                   PROVE  Got(x, t)
        OBVIOUS
      <4>1. PICK i \in DOMAIN swapids[t] : swapids[t][i] = x
        BY <2>4 DEF PartnersOf, Receives
      <4>2. i \in Nat /\ i <= steps(t) /\ rstep[t] > steps(t) /\ steps(t) \in Nat /\ rstep[t] \in Nat
        <5>1. swapids[t] \in Seq(Task)
          BY <1>3
        <5>2. steps(t) \in Nat /\ DOMAIN swapids[t] = 1..steps(t)
          BY <5>1 DEF steps
        <5> QED
          BY <1>3, <1>14, <2>4, <5>2 DEF ReceivesOf
      <4>3. rcvids[t][i] # "null"
        BY <2>4, <4>1, <4>2 DEF ReceivesOf, Incoming, Receives
      <4>4. rcvids[t][i] # "posted"
        BY <1>14, <2>4 DEF ReceivesOf
      <4>5. rcvids[t][i] \in Status
        <5>1. rcvids[t] \in Seq(Status) /\ i \in DOMAIN rcvids[t]
          BY <1>3, <4>1 DEF Distinct
        <5> QED
          BY <5>1
      <4> QED
        BY <4>1, <4>3, <4>4, <4>5 DEF Got, Status
    <3>2. Received(x, t) = {q \in 1..entered[t] : <<x, t>> \in traffic[q]}
      BY <1>5, <3>1 DEF Received
    <3>3. Received(x, t)' = {q \in 1..entered[t] : <<x, t>> \in traffic[q]}
      <4>1. Received(x, t)' = {q \in 1..r : <<x, t>> \in traffic[q] /\ q # r}
        BY <1>4, <2>5 DEF Received
      <4>2. \A q : q \in 1..r /\ q # r <=> q \in 1..entered[t]
        BY <1>1, <1>5
      <4> QED
        BY <4>1, <4>2
    <3> QED
      BY <3>2, <3>3
  <2>8. \A y \in Task \ {t} : Sent(t, y)' = Sent(t, y)
    <3> SUFFICES ASSUME NEW y \in Task \ {t}
                 PROVE  Sent(t, y)' = Sent(t, y)
      OBVIOUS
    <3>1. Gone(t, y)
      <4>1. swapids[t] \in Seq(Task)
        BY <1>3
      <4>2. \A j \in DOMAIN swapids[t] : j \in Nat /\ j <= steps(t)
        BY <4>1 DEF steps
      <4>3. steps(t) \in Nat /\ istep[t] \in Nat /\ istep[t] > steps(t)
        BY <1>3, <1>14, <2>4, <4>1 DEF ReceivesOf, steps
      <4> QED
        BY <1>14, <4>2, <4>3 DEF Gone, nsent
    <3>2. <<t, y>> \in traffic[r] => ~Gone(t, y)'
      <4> SUFFICES ASSUME <<t, y>> \in traffic[r]
                   PROVE  ~Gone(t, y)'
        OBVIOUS
      <4>1. PICK j \in DOMAIN ids : ids[j] = y
        BY <1>6
      <4>2. nsent(t)' = 0
        BY <1>11, <1>13 DEF nsent
      <4>3. ~(j <= 0)
        BY <1>7
      <4> QED
        BY <1>11, <4>1, <4>2, <4>3 DEF Gone
    <3>3. Sent(t, y) = {q \in 1..entered[t] : <<t, y>> \in traffic[q]}
      BY <3>1 DEF Sent
    <3>4. Sent(t, y)' = {q \in 1..entered[t] : <<t, y>> \in traffic[q]}
      <4>1. Sent(t, y)' = {q \in 1..r : <<t, y>> \in traffic[q] /\ q # r}
        BY <1>4, <3>2 DEF Sent
      <4>2. \A q : q \in 1..r /\ q # r <=> q \in 1..entered[t]
        BY <1>1, <1>5
      <4> QED
        BY <4>1, <4>2
    <3> QED
      BY <3>3, <3>4
  <2>9. ASSUME NEW x \in Task, NEW y \in Task, x # y
        PROVE  LinkOf(x, y)'
    <3>1. LinkOf(x, y)
      BY <1>18, <2>9 DEF Delivery
    <3>2. CASE x # t
      <4>1. nsent(x)' = nsent(x)
        BY <1>11, <1>13, <3>2 DEF nsent
      <4>2. Gone(x, y)' = Gone(x, y)
        BY <1>11, <3>2, <4>1, SameGone
      <4>3. Sent(x, y)' = Sent(x, y)
        BY <1>4, <3>2, <4>2 DEF Sent
      <4>4. CASE y = t
        <5>1. Received(x, y)' = Received(x, y)
          BY <2>7, <3>2, <4>4
        <5>2. Posted(t, x, "data")' = {}
          BY <1>9, <1>11 DEF Posted, Partner, Requests
        <5> QED
          BY <1>8, <3>1, <4>3, <4>4, <5>1, <5>2 DEF LinkOf
      <4>5. CASE y # t
        <5>1. Got(x, y)' = Got(x, y) /\ Posted(y, x, "data")' = Posted(y, x, "data")
          BY <1>11, <4>5, SameGot
        <5> QED
          BY <1>4, <1>8, <3>1, <3>2, <4>2, <4>5, <5>1, SameLink
      <4> QED
        BY <4>4, <4>5
    <3>3. CASE x = t
      <4>1. y # t /\ Sent(x, y)' = Sent(x, y)
        BY <2>8, <2>9, <3>3
      <4>2. Got(x, y)' = Got(x, y) /\ Posted(y, x, "data")' = Posted(y, x, "data")
        BY <1>11, <4>1, SameGot
      <4>3. Received(x, y)' = Received(x, y)
        BY <1>4, <4>1, <4>2 DEF Received
      <4> QED
        BY <1>8, <3>1, <4>1, <4>2, <4>3 DEF LinkOf
    <3> QED
      BY <3>2, <3>3
  <2> QED
    BY <1>12, <1>15, <1>16, <2>1, <2>2, <2>3, <2>6, <2>9 DEF Delivery
<1> QED
  BY <1>17, <1>18

-----------------------------------------------------------------------------
LEMMA DeliveryInit ==
    ASSUME Init
    PROVE  Delivery
<1>1. /\ entered = [t \in Task |-> 0] /\ left = [t \in Task |-> 0]
      /\ pc = [t \in Task |-> "out"] /\ swapids = [t \in Task |-> <<>>]
      /\ istep = [t \in Task |-> 1] /\ rstep = [t \in Task |-> 1]
      /\ rcvids = [t \in Task |-> <<>>] /\ chan = [l \in Links |-> <<>>]
      /\ recvbuf = [t \in Task |-> {}]
  BY DEF Init, Swap!ExchangeInit, Task
<1>2. recvbuf \in [Task -> SUBSET (Task \X Nat)]
  BY <1>1
<1>3. \A t \in Task : RoundOf(t) /\ PartnersOf(t) /\ AtOnce(t) /\ BufferOf(t)
  BY <1>1 DEF RoundOf, PartnersOf, AtOnce, BufferOf
<1>4. \A t \in Task : swapids[t] = <<>> /\ Len(swapids[t]) = 0 /\ DOMAIN swapids[t] = {}
  BY <1>1
<1>5. \A t \in Task : ReceivesOf(t)
  BY <1>1, <1>4 DEF ReceivesOf, steps
<1>6. ASSUME NEW s \in Task, NEW t \in Task
      PROVE  LinkOf(s, t)
  <2>1. chan[<<s, t, "data">>] = <<>>
    BY <1>1 DEF Links, Kind
  <2>2. Sent(s, t) = {} /\ Received(s, t) = {}
    BY <1>1 DEF Sent, Received
  <2>3. RoundsIn(<<>>) = {} /\ InOrder(<<>>) /\ AllFrom(<<>>, s)
    BY DEF RoundsIn, InOrder, AllFrom
  <2> QED
    BY <2>1, <2>2, <2>3 DEF LinkOf
<1> QED
  BY <1>2, <1>3, <1>5, <1>6 DEF Delivery

LEMMA DeliveryNext ==
    ASSUME Inv, Delivery, [Next]_vars
    PROVE  Delivery'
<1>1. ASSUME NEW t \in Task, Step(t)
      PROVE  Delivery'
  BY <1>1, BeginDelivers, AlltoallwDelivers, FirstHandshakesDelivers, FirstReceiveDelivers, TellDelivers,
     SendDataDelivers, WaitAndPostDelivers, WaitallDelivers, ReturnDelivers DEF Step
<1>2. CASE UNCHANGED vars
  <2>1. UNCHANGED <<traffic, fc, entered, left, pc, swapids, istep, rstep, rcvids, chan, recvbuf>>
    BY <1>2 DEF vars, flow, requests
  <2>2. \A t \in Task : RoundOf(t)' /\ PartnersOf(t)'
    BY <2>1, SamePartners DEF Delivery, RoundOf
  <2>3. PointToPoint' = PointToPoint
    BY <2>1 DEF PointToPoint
  <2>4. PointToPoint => \A t \in Task : ReceivesOf(t)' /\ BufferOf(t)'
    BY <2>1, SameReceives, SameBuffer DEF Delivery
  <2>5. ~PointToPoint => \A t \in Task : AtOnce(t)'
    <3>1. \A t \in Task : Swap!SendersTo(t, entered[t])' = Swap!SendersTo(t, entered[t])
      BY <2>1, SamePartners
    <3> QED
      BY <2>1, <3>1 DEF Delivery, AtOnce
  <2>6. PointToPoint => \A s, t \in Task : s # t => LinkOf(s, t)'
    <3>1. \A s, t \in Task : Gone(s, t)' = Gone(s, t)
      <4>1. \A s \in Task : nsent(s)' = nsent(s)
        BY <2>1 DEF nsent
      <4> QED
        BY <2>1, <4>1, SameGone
    <3>2. \A s, t \in Task : Got(s, t)' = Got(s, t) /\ Posted(t, s, "data")' = Posted(t, s, "data")
      BY <2>1, SameGot
    <3> QED
      BY <2>1, <3>1, <3>2, SameLink DEF Delivery
  <2> QED
    BY <2>1, <2>2, <2>3, <2>4, <2>5, <2>6 DEF Delivery
<1> QED
  BY <1>1, <1>2 DEF Next, Done

-----------------------------------------------------------------------------
(* Who comes out of a call has what the others sent to it in this call.    *)
LEMMA Complete ==
    ASSUME Inv, Delivery, NEW t \in Task, pc[t] = "return"
    PROVE  /\ left[t] < entered[t]
           /\ \A s \in Swap!SendersTo(t, entered[t]) : entered[s] >= entered[t]
           /\ recvbuf[t] = {<<s, entered[t]>> : s \in Swap!SendersTo(t, entered[t])}
<1>1. left[t] < entered[t] /\ entered[t] \in Nat \ {0}
  <2>1. left[t] \in Nat /\ left[t] + 1 = entered[t]
    BY SwapAssumption DEF Inv, TypeOK, Delivery, RoundOf
  <2> QED
    BY <2>1
<1>2. CASE ~PointToPoint
  BY <1>1, <1>2 DEF Delivery, AtOnce
<1>3. CASE PointToPoint
  <2>1. ReceivesOf(t) /\ BufferOf(t) /\ PartnersOf(t) /\ TypeOK /\ Distinct
    BY <1>3 DEF Delivery, Inv
  <2>2. ASSUME NEW x \in Swap!SendersTo(t, entered[t]), x # t
        PROVE  x \in Task /\ Got(x, t) /\ entered[x] >= entered[t]
    <3>1. x \in Task /\ <<x, t>> \in traffic[entered[t]]
      BY DEF Swap!SendersTo, Task
    <3>2. PICK i \in DOMAIN swapids[t] : swapids[t][i] = x
      BY <1>1, <2>1, <2>2, <3>1 DEF PartnersOf, Receives
    <3>3. i \in Nat /\ i <= steps(t) /\ rstep[t] > steps(t) /\ steps(t) \in Nat /\ rstep[t] \in Nat
      <4>1. swapids[t] \in Seq(Task) /\ rstep[t] \in Nat
        BY <2>1 DEF TypeOK
      <4> QED
        BY <2>1, <4>1 DEF ReceivesOf, steps
    <3>4. rcvids[t][i] # "null"
      BY <2>1, <3>1, <3>2, <3>3 DEF ReceivesOf, Incoming, Receives
    <3>5. rcvids[t][i] # "posted"
      BY <2>1 DEF ReceivesOf
    <3>6. rcvids[t][i] \in Status
      <4>1. rcvids[t] \in Seq(Status) /\ i \in DOMAIN rcvids[t]
        BY <2>1, <3>2 DEF TypeOK, Distinct
      <4> QED
        BY <4>1
    <3>7. Got(x, t)
      BY <3>2, <3>4, <3>5, <3>6 DEF Got, Status
    <3>8. entered[t] \in Received(x, t)
      <4>1. entered[t] \in 1..entered[t]
        BY <1>1
      <4> QED
        BY <3>1, <3>7, <4>1 DEF Received
    <3>9. entered[t] \in Sent(x, t)
      BY <1>3, <2>2, <3>1, <3>8 DEF Delivery, LinkOf
    <3>10. entered[t] \in 1..entered[x] /\ entered[x] \in Nat
      BY <2>1, <3>1, <3>9, RoundsAreNumbers DEF Sent
    <3> QED
      BY <1>1, <3>1, <3>7, <3>10
  <2>3. \A s \in Swap!SendersTo(t, entered[t]) : entered[s] >= entered[t]
    BY <1>1, <2>2
  <2>4. {y \in Swap!SendersTo(t, entered[t]) : y = t \/ Got(y, t)} = Swap!SendersTo(t, entered[t])
    BY <2>2
  <2> QED
    BY <1>1, <2>1, <2>3, <2>4 DEF BufferOf
<1> QED
  BY <1>2, <1>3

(* Each step is one of the exchange, or nothing to it.                     *)
LEMMA StepExchanges ==
    ASSUME Inv, Delivery, [Next]_vars
    PROVE  [Swap!ExchangeNext]_(Swap!exchangeVars)
<1>1. ASSUME NEW t \in Task, Step(t)
      PROVE  \/ Swap!Enter(t) \/ Swap!Leave(t)
             \/ UNCHANGED <<traffic, entered, left, out>>
  <2>1. CASE Begin(t)
    BY <2>1 DEF Begin
  <2>2. CASE Return(t)
    <3>1. /\ pc[t] = "return" /\ UNCHANGED <<traffic, entered>>
          /\ left' = [left EXCEPT ![t] = entered[t]] /\ out' = [out EXCEPT ![t] = recvbuf[t]]
      BY <2>2 DEF Return, flow
    <3>2. /\ left[t] < entered[t]
          /\ \A s \in Swap!SendersTo(t, entered[t]) : entered[s] >= entered[t]
          /\ recvbuf[t] = {<<s, entered[t]>> : s \in Swap!SendersTo(t, entered[t])}
      BY <3>1, Complete
    <3> QED
      BY <3>1, <3>2 DEF Swap!Leave
  <2>3. CASE Alltoallw(t) \/ FirstHandshakes(t) \/ FirstReceive(t) \/ Tell(t)
    BY <2>3 DEF Alltoallw, FirstHandshakes, FirstReceive, Tell, flow
  <2>4. CASE SendData(t) \/ WaitAndPost(t) \/ Waitall(t)
    BY <2>4 DEF SendData, WaitAndPost, Waitall, flow
  <2> QED
    BY <1>1, <2>1, <2>2, <2>3, <2>4 DEF Step
<1>2. CASE UNCHANGED vars
  BY <1>2 DEF vars, flow, Swap!exchangeVars
<1> QED
  BY <1>1, <1>2 DEF Next, Done, Swap!ExchangeNext, Swap!exchangeVars, Task

LEMMA InitExchanges ==
    ASSUME Init
    PROVE  Swap!ExchangeInit(SUBSET (Task \X Task))
<1>1. Patterns \subseteq SUBSET (Task \X Task)
  BY SwapAssumption
<1> QED
  BY <1>1 DEF Init, Swap!ExchangeInit

\* For any number of tasks and of calls in a row, any traffic in each of them, all options
\* of flow control and whether or not MPI buffers messages: the steps of pio_swapm are
\* those of the exchange that its callers rely on. A task that returns has what each of the
\* others sent to it in the same call, no more and no less.
THEOREM CallsExchange == Spec => Exchanges
<1>1. Init => Inv /\ Delivery
  BY InvInit, DeliveryInit
<1>2. Inv /\ Delivery /\ [Next]_vars => Inv' /\ Delivery'
  BY InvNext, DeliveryNext
<1>3. Init => Swap!ExchangeInit(SUBSET (Task \X Task))
  BY InitExchanges
<1>4. Inv /\ Delivery /\ [Next]_vars => [Swap!ExchangeNext]_(Swap!exchangeVars)
  BY StepExchanges
<1> QED
  BY <1>1, <1>2, <1>3, <1>4, PTL DEF Spec, Exchanges, Swap!ExchangeSpec, Task
=============================================================================
