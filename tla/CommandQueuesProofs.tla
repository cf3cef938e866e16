------------------------- MODULE CommandQueuesProofs -------------------------
(***************************************************************************)
(* Proofs about CommandQueues, for any number of queues, jobs, signals and    *)
(* pending commands: what a reached point, a wait and a flush promise, that   *)
(* queues do not block each other, and that every queue is a timeline.       *)
(***************************************************************************)
EXTENDS CommandQueues, CommonFacts, FiniteSetTheorems, WellFoundedInduction

IsSignal(c) == c.op = "signal"

-----------------------------------------------------------------------------
(* The signals of one queue: pending commands p, next value n, completed value c. *)

\* They carry exactly the values handed out and not reached, in order.
SignalsIn(p, n, c) ==
  /\ p \in Seq(Command) /\ n \in Nat /\ c \in Nat /\ c < n
  /\ \A k \in 1..Len(p) : IsSignal(p[k]) => p[k].value \in c + 1..n - 1
  /\ \A i, k \in 1..Len(p) : i < k /\ IsSignal(p[i]) /\ IsSignal(p[k]) => p[i].value < p[k].value
  /\ \A v \in c + 1..n - 1 : \E k \in 1..Len(p) : IsSignal(p[k]) /\ p[k].value = v

LEMMA SignalsAppendSignal ==
  ASSUME NEW p, NEW n, NEW c, SignalsIn(p, n, c), SignalCmd(n) \in Command
  PROVE  SignalsIn(Append(p, SignalCmd(n)), n + 1, c)
<1> DEFINE e == SignalCmd(n)
           u == Append(p, e)
<1>1. IsSignal(e) /\ e.value = n
  BY DEF SignalCmd, IsSignal
<1>2. p \in Seq(Command) /\ n \in Nat /\ c \in Nat /\ c < n /\ e \in Command
  BY DEF SignalsIn
<1> HIDE DEF e
<1>3. /\ u \in Seq(Command) /\ Len(u) = Len(p) + 1 /\ Len(p) \in Nat
      /\ \A k \in 1..Len(p) : u[k] = p[k]
      /\ u[Len(p) + 1] = e
  BY <1>2, AppendElements
<1> HIDE DEF u
<1>4. ASSUME NEW k \in 1..Len(u) PROVE k \in 1..Len(p) \/ k = Len(p) + 1
  BY <1>3
<1>5. \A k \in 1..Len(u) : IsSignal(u[k]) => u[k].value \in c + 1..(n + 1) - 1
  BY <1>1, <1>2, <1>3, <1>4 DEF SignalsIn
<1>6. ASSUME NEW i \in 1..Len(u), NEW k \in 1..Len(u), i < k, IsSignal(u[i]), IsSignal(u[k])
      PROVE  u[i].value < u[k].value
  <2>1. i \in 1..Len(p) /\ u[i] = p[i]
    BY <1>3, <1>4, <1>6
  <2>2. CASE k \in 1..Len(p)
    BY <1>3, <1>6, <2>1, <2>2 DEF SignalsIn
  <2>3. CASE k = Len(p) + 1
    BY <1>1, <1>2, <1>3, <1>6, <2>1, <2>3 DEF SignalsIn
  <2> QED BY <1>4, <2>2, <2>3
<1>7. ASSUME NEW v \in c + 1..(n + 1) - 1
      PROVE  \E k \in 1..Len(u) : IsSignal(u[k]) /\ u[k].value = v
  <2>1. CASE v = n
    BY <1>1, <1>3, <2>1
  <2>2. CASE v # n
    <3>1. v \in c + 1..n - 1
      BY <1>2, <2>2
    <3>2. PICK k \in 1..Len(p) : IsSignal(p[k]) /\ p[k].value = v
      BY <3>1 DEF SignalsIn
    <3> QED BY <1>3, <3>2
  <2> QED BY <2>1, <2>2
<1>8. n + 1 \in Nat /\ c < n + 1
  BY <1>2
<1> QED BY <1>2, <1>3, <1>5, <1>6, <1>7, <1>8 DEF SignalsIn, u, e

LEMMA SignalsAppendOther ==
  ASSUME NEW p, NEW n, NEW c, SignalsIn(p, n, c), NEW e \in Command, ~IsSignal(e)
  PROVE  SignalsIn(Append(p, e), n, c)
<1> DEFINE u == Append(p, e)
<1>1. p \in Seq(Command) /\ n \in Nat /\ c \in Nat /\ c < n
  BY DEF SignalsIn
<1>2. /\ u \in Seq(Command) /\ Len(u) = Len(p) + 1 /\ Len(p) \in Nat
      /\ \A k \in 1..Len(p) : u[k] = p[k]
      /\ u[Len(p) + 1] = e
  BY <1>1, AppendElements
<1> HIDE DEF u
<1>3. ASSUME NEW k \in 1..Len(u), IsSignal(u[k]) PROVE k \in 1..Len(p) /\ u[k] = p[k]
  BY <1>2, <1>3
<1>4. \A v \in c + 1..n - 1 : \E k \in 1..Len(u) : IsSignal(u[k]) /\ u[k].value = v
  <2> SUFFICES ASSUME NEW v \in c + 1..n - 1
               PROVE  \E k \in 1..Len(u) : IsSignal(u[k]) /\ u[k].value = v
    OBVIOUS
  <2>1. PICK k \in 1..Len(p) : IsSignal(p[k]) /\ p[k].value = v
    BY DEF SignalsIn
  <2>2. k \in 1..Len(u) /\ u[k] = p[k]
    BY <1>2
  <2> QED BY <2>1, <2>2
<1>5. \A k \in 1..Len(u) : IsSignal(u[k]) => u[k].value \in c + 1..n - 1
  BY <1>3 DEF SignalsIn
<1>6. \A i, k \in 1..Len(u) : i < k /\ IsSignal(u[i]) /\ IsSignal(u[k]) => u[i].value < u[k].value
  BY <1>3 DEF SignalsIn
<1> QED BY <1>1, <1>2, <1>4, <1>5, <1>6 DEF SignalsIn, u

\* The first pending signal carries the value after the completed one.
LEMMA SignalsTailSignal ==
  ASSUME NEW p, NEW n, NEW c, SignalsIn(p, n, c), p # <<>>, IsSignal(Head(p))
  PROVE  /\ Head(p).value = c + 1 /\ c + 1 < n
         /\ SignalsIn(Tail(p), n, c + 1)
<1> DEFINE u == Tail(p)
<1>1. p \in Seq(Command) /\ n \in Nat /\ c \in Nat /\ c < n
  BY DEF SignalsIn
<1>2. /\ u \in Seq(Command) /\ Len(u) = Len(p) - 1 /\ Len(p) \in Nat /\ Len(p) >= 1
      /\ \A k \in 1..Len(p) - 1 : u[k] = p[k + 1]
      /\ Head(p) = p[1]
  BY <1>1, TailElements
<1> HIDE DEF u
<1>3. p[1].value \in c + 1..n - 1 /\ IsSignal(p[1])
  <2>1. 1 \in 1..Len(p)
    BY <1>2
  <2>2. IsSignal(p[1])
    BY <1>2 DEF IsSignal
  <2> QED BY <2>1, <2>2 DEF SignalsIn
<1>4. p[1].value = c + 1 /\ c + 1 < n
  <2>1. c + 1 \in c + 1..n - 1
    BY <1>1, <1>3
  <2>2. PICK k \in 1..Len(p) : IsSignal(p[k]) /\ p[k].value = c + 1
    BY <2>1 DEF SignalsIn
  <2>3. CASE k = 1
    BY <1>1, <1>3, <2>2, <2>3
  <2>4. CASE k # 1
    <3>1. p[1].value < p[k].value
      <4>1. 1 \in 1..Len(p) /\ 1 < k
        BY <1>2, <2>4
      <4> QED BY <1>3, <2>2, <4>1 DEF SignalsIn
    <3> QED BY <1>1, <1>3, <2>2, <3>1
  <2> QED BY <2>3, <2>4
<1>5. ASSUME NEW k \in 1..Len(u)
      PROVE  k + 1 \in 1..Len(p) /\ u[k] = p[k + 1] /\ 1 < k + 1
  BY <1>2
<1>6. ASSUME NEW k \in 1..Len(u), IsSignal(u[k]) PROVE u[k].value \in (c + 1) + 1..n - 1
  <2>1. 1 \in 1..Len(p)
    BY <1>2
  <2>2. p[1].value < p[k + 1].value /\ p[k + 1].value \in c + 1..n - 1
    BY <1>3, <1>5, <1>6, <2>1 DEF SignalsIn
  <2> QED BY <1>1, <1>4, <1>5, <2>2
<1>7. ASSUME NEW i \in 1..Len(u), NEW k \in 1..Len(u), i < k, IsSignal(u[i]), IsSignal(u[k])
      PROVE  u[i].value < u[k].value
  <2>1. i + 1 < k + 1
    BY <1>7
  <2> QED BY <1>5, <1>7, <2>1 DEF SignalsIn
<1>8. ASSUME NEW v \in (c + 1) + 1..n - 1
      PROVE  \E k \in 1..Len(u) : IsSignal(u[k]) /\ u[k].value = v
  <2>1. v \in c + 1..n - 1 /\ v # c + 1
    BY <1>1
  <2>2. PICK k \in 1..Len(p) : IsSignal(p[k]) /\ p[k].value = v
    BY <2>1 DEF SignalsIn
  <2>3. k # 1
    BY <1>4, <2>1, <2>2
  <2>4. k - 1 \in 1..Len(u) /\ u[k - 1] = p[k]
    BY <1>2, <2>3
  <2> QED BY <2>2, <2>4
<1>9. u \in Seq(Command) /\ c + 1 \in Nat
  BY <1>1, <1>2
<1>10. \A k \in 1..Len(u) : IsSignal(u[k]) => u[k].value \in (c + 1) + 1..n - 1
  BY <1>6
<1>11. \A i, k \in 1..Len(u) : i < k /\ IsSignal(u[i]) /\ IsSignal(u[k]) => u[i].value < u[k].value
  BY <1>7
<1>12. SignalsIn(u, n, c + 1)
  BY <1>1, <1>4, <1>8, <1>9, <1>10, <1>11 DEF SignalsIn
<1> QED BY <1>2, <1>4, <1>12 DEF u

LEMMA SignalsTailOther ==
  ASSUME NEW p, NEW n, NEW c, SignalsIn(p, n, c), p # <<>>, ~IsSignal(Head(p))
  PROVE  SignalsIn(Tail(p), n, c)
<1> DEFINE u == Tail(p)
<1>1. p \in Seq(Command) /\ n \in Nat /\ c \in Nat /\ c < n
  BY DEF SignalsIn
<1>2. /\ u \in Seq(Command) /\ Len(u) = Len(p) - 1 /\ Len(p) \in Nat /\ Len(p) >= 1
      /\ \A k \in 1..Len(p) - 1 : u[k] = p[k + 1]
      /\ Head(p) = p[1]
  BY <1>1, TailElements
<1> HIDE DEF u
<1>3. ASSUME NEW k \in 1..Len(u) PROVE k + 1 \in 1..Len(p) /\ u[k] = p[k + 1]
  BY <1>2
<1>4. \A k \in 1..Len(u) : IsSignal(u[k]) => u[k].value \in c + 1..n - 1
  BY <1>3 DEF SignalsIn
<1>5. ASSUME NEW i \in 1..Len(u), NEW k \in 1..Len(u), i < k, IsSignal(u[i]), IsSignal(u[k])
      PROVE  u[i].value < u[k].value
  <2>1. i + 1 < k + 1
    BY <1>5
  <2> QED BY <1>3, <1>5, <2>1 DEF SignalsIn
<1>6. ASSUME NEW v \in c + 1..n - 1
      PROVE  \E k \in 1..Len(u) : IsSignal(u[k]) /\ u[k].value = v
  <2>1. PICK k \in 1..Len(p) : IsSignal(p[k]) /\ p[k].value = v
    BY DEF SignalsIn
  <2>2. k - 1 \in 1..Len(u) /\ u[k - 1] = p[k]
    BY <1>2, <2>1
  <2> QED BY <2>1, <2>2
<1> QED BY <1>1, <1>2, <1>4, <1>5, <1>6 DEF SignalsIn, u

-----------------------------------------------------------------------------
(* What reaching a point promises, for commands P, next values N, completed     *)
(* values C and the history O (ordered) and R (promised) of all queues.         *)

\* Job j runs before the k-th pending command of q: one of the commands before it
\* runs j, or waits for a point that comes after j.
Behind(P, R, j, q, k) ==
  \E i \in 1..k - 1 :
    \/ P[q][i] = RunCmd(j)
    \/ \E p \in Point : /\ P[q][i] = WaitCmd(p)
                        /\ p.value \in 1..Len(R[p.fence])
                        /\ j \in R[p.fence][p.value]

Shaped(P, N, C, O, R) ==
  /\ P \in [Queue -> Seq(Command)]
  /\ N \in [Queue -> 1..MaxSignals + 1]
  /\ C \in [Queue -> 0..MaxSignals]
  /\ O \in [Queue -> SUBSET Job]
  /\ R \in [Queue -> Seq(SUBSET Job)]

\* The values of every fence are in order, and each has its promise.
Numbered(P, N, C, R) ==
  \A q \in Queue : SignalsIn(P[q], N[q], C[q]) /\ Len(R[q]) = N[q] - 1

\* Nothing is left of the promise of a value reached; what is left of the promise of a
\* value not reached, and of what the queue is ordered after, is still ahead in it.
Promised(P, C, O, R) ==
  \A q \in Queue :
    /\ \A v \in 1..C[q] : R[q][v] = {}
    /\ \A k \in 1..Len(P[q]) :
         IsSignal(P[q][k]) => \A j \in R[q][P[q][k].value] : Behind(P, R, j, q, k)
    /\ \A j \in O[q] : Behind(P, R, j, q, Len(P[q]) + 1)

Consistent(P, N, C, O, R) ==
  Shaped(P, N, C, O, R) /\ Numbered(P, N, C, R) /\ Promised(P, C, O, R)

\* Commands and promises that are only added to.
Extends(P, R, PP, RR) ==
  \A q \in Queue :
    /\ PP[q] \in Seq(Command) /\ RR[q] \in Seq(SUBSET Job)
    /\ Len(P[q]) <= Len(PP[q]) /\ \A k \in 1..Len(P[q]) : PP[q][k] = P[q][k]
    /\ Len(R[q]) <= Len(RR[q]) /\ \A v \in 1..Len(R[q]) : RR[q][v] = R[q][v]

\* What is ahead of a command stays ahead of it when commands are added.
LEMMA BehindExtended ==
  ASSUME NEW P, NEW N, NEW C, NEW O, NEW R, Shaped(P, N, C, O, R),
         NEW PP, NEW RR, Extends(P, R, PP, RR),
         NEW j, NEW q \in Queue, NEW k \in 1..Len(P[q]) + 1, Behind(P, R, j, q, k)
  PROVE  Behind(PP, RR, j, q, k)
<1>1. PICK i \in 1..k - 1 :
        \/ P[q][i] = RunCmd(j)
        \/ \E p \in Point : /\ P[q][i] = WaitCmd(p)
                            /\ p.value \in 1..Len(R[p.fence])
                            /\ j \in R[p.fence][p.value]
  BY DEF Behind
<1>2. P[q] \in Seq(Command) /\ \A f \in Queue : R[f] \in Seq(SUBSET Job)
  BY DEF Shaped
<1>3. i \in 1..Len(P[q]) /\ PP[q][i] = P[q][i]
  BY <1>2 DEF Extends
<1>4. CASE P[q][i] = RunCmd(j)
  BY <1>3, <1>4 DEF Behind
<1>5. ASSUME NEW p \in Point, P[q][i] = WaitCmd(p),
             p.value \in 1..Len(R[p.fence]), j \in R[p.fence][p.value]
      PROVE  Behind(PP, RR, j, q, k)
  <2>1. p.fence \in Queue
    BY DEF Point
  <2>2. p.value \in 1..Len(RR[p.fence]) /\ RR[p.fence][p.value] = R[p.fence][p.value]
    <3>1. Len(R[p.fence]) \in Nat /\ Len(RR[p.fence]) \in Nat
      BY <1>2, <2>1 DEF Extends
    <3> QED BY <1>5, <2>1, <3>1 DEF Extends
  <2>3. PP[q][i] = WaitCmd(p)
    BY <1>3, <1>5
  <2> QED BY <1>5, <2>2, <2>3 DEF Behind
<1> QED BY <1>1, <1>4, <1>5

\* Sending a signal: it carries the promise of what the queue was ordered after.
LEMMA SendSignalKeeps ==
  ASSUME NEW P, NEW N, NEW C, NEW O, NEW R, Consistent(P, N, C, O, R),
         NEW q \in Queue, N[q] <= MaxSignals
  PROVE  Consistent([P EXCEPT ![q] = Append(@, SignalCmd(N[q]))], [N EXCEPT ![q] = @ + 1], C, O,
                    [R EXCEPT ![q] = Append(@, O[q])])
<1> DEFINE e == SignalCmd(N[q])
           PP == [P EXCEPT ![q] = Append(@, e)]
           NN == [N EXCEPT ![q] = @ + 1]
           RR == [R EXCEPT ![q] = Append(@, O[q])]
<1>1. Shaped(P, N, C, O, R) /\ Numbered(P, N, C, R) /\ Promised(P, C, O, R)
  BY DEF Consistent
<1>2. /\ P[q] \in Seq(Command) /\ R[q] \in Seq(SUBSET Job) /\ O[q] \in SUBSET Job
      /\ N[q] \in 1..MaxSignals /\ N[q] \in Nat /\ Len(R[q]) = N[q] - 1
  BY <1>1, QueuesAssumption DEF Shaped, Numbered
<1>3. e \in Command /\ IsSignal(e) /\ e.value = N[q]
  BY <1>2 DEF SignalCmd, Command, IsSignal
<1>4. /\ Append(P[q], e) \in Seq(Command)
      /\ Len(Append(P[q], e)) = Len(P[q]) + 1 /\ Len(P[q]) \in Nat
      /\ \A k \in 1..Len(P[q]) : Append(P[q], e)[k] = P[q][k]
      /\ Append(P[q], e)[Len(P[q]) + 1] = e
  BY <1>2, <1>3, AppendElements
<1>5. /\ Append(R[q], O[q]) \in Seq(SUBSET Job)
      /\ Len(Append(R[q], O[q])) = N[q]
      /\ \A v \in 1..Len(R[q]) : Append(R[q], O[q])[v] = R[q][v]
      /\ Append(R[q], O[q])[N[q]] = O[q]
  <2>1. (N[q] - 1) + 1 = N[q]
    BY <1>2
  <2> QED BY <1>2, <2>1, AppendElements
<1>6. /\ PP \in [Queue -> Seq(Command)] /\ RR \in [Queue -> Seq(SUBSET Job)]
      /\ NN \in [Queue -> 1..MaxSignals + 1]
      /\ PP[q] = Append(P[q], e) /\ RR[q] = Append(R[q], O[q]) /\ NN[q] = N[q] + 1
      /\ \A f \in Queue \ {q} : PP[f] = P[f] /\ RR[f] = R[f] /\ NN[f] = N[f]
  <2>1. N[q] + 1 \in 1..MaxSignals + 1
    BY <1>2, QueuesAssumption
  <2> QED BY <1>1, <1>4, <1>5, <2>1 DEF Shaped
<1>7. SignalsIn(PP[q], NN[q], C[q])
  <2> HIDE DEF PP, NN
  <2> QED BY <1>1, <1>3, <1>6, SignalsAppendSignal DEF Numbered
<1> HIDE DEF PP, NN, RR, e
<1>8. Extends(P, R, PP, RR)
  <2> SUFFICES ASSUME NEW f \in Queue
               PROVE  /\ PP[f] \in Seq(Command) /\ RR[f] \in Seq(SUBSET Job)
                      /\ Len(P[f]) <= Len(PP[f]) /\ \A k \in 1..Len(P[f]) : PP[f][k] = P[f][k]
                      /\ Len(R[f]) <= Len(RR[f]) /\ \A v \in 1..Len(R[f]) : RR[f][v] = R[f][v]
    BY DEF Extends
  <2>1. CASE f = q
    <3>1. PP[q] = Append(P[q], e) /\ RR[q] = Append(R[q], O[q])
      BY <1>6
    <3>2. Len(P[q]) <= Len(PP[q]) /\ Len(R[q]) <= Len(RR[q])
      BY <1>2, <1>4, <1>5, <3>1
    <3> QED BY <1>4, <1>5, <2>1, <3>1, <3>2, Zenon
  <2>2. CASE f # q
    <3>1. P[f] \in Seq(Command) /\ R[f] \in Seq(SUBSET Job) /\ PP[f] = P[f] /\ RR[f] = R[f]
      BY <1>1, <1>6, <2>2 DEF Shaped
    <3> QED BY <3>1
  <2> QED BY <2>1, <2>2
<1>9. Shaped(PP, NN, C, O, RR)
  BY <1>1, <1>6 DEF Shaped
<1>10. Numbered(PP, NN, C, RR)
  <2> SUFFICES ASSUME NEW f \in Queue PROVE SignalsIn(PP[f], NN[f], C[f]) /\ Len(RR[f]) = NN[f] - 1
    BY DEF Numbered
  <2>1. CASE f = q
    <3>1. Len(RR[q]) = N[q] /\ NN[q] = N[q] + 1
      BY <1>5, <1>6
    <3>2. Len(RR[q]) = NN[q] - 1
      BY <1>2, <3>1
    <3> QED BY <1>7, <2>1, <3>2
  <2>2. CASE f # q
    BY <1>1, <1>6, <2>2 DEF Numbered
  <2> QED BY <2>1, <2>2
<1>11. ASSUME NEW f \in Queue, NEW v \in 1..C[f] PROVE RR[f][v] = {}
  <2>1. v \in 1..Len(R[f])
    <3>1. SignalsIn(P[f], N[f], C[f]) /\ Len(R[f]) = N[f] - 1
      BY <1>1 DEF Numbered
    <3>2. C[f] \in Nat /\ N[f] \in Nat /\ C[f] < N[f]
      BY <3>1 DEF SignalsIn
    <3> QED BY <3>1, <3>2
  <2>2. RR[f][v] = R[f][v]
    BY <1>8, <2>1 DEF Extends
  <2> QED BY <1>1, <2>2 DEF Promised
<1>12. ASSUME NEW f \in Queue, NEW j \in O[f], NEW k \in Nat, k = Len(P[f]) + 1
       PROVE  Behind(PP, RR, j, f, k)
  BY <1>1, <1>8, <1>12, BehindExtended DEF Promised
<1>13. ASSUME NEW f \in Queue, NEW k \in 1..Len(PP[f]), IsSignal(PP[f][k]),
              NEW j \in RR[f][PP[f][k].value]
       PROVE  Behind(PP, RR, j, f, k)
  <2>1. CASE k \in 1..Len(P[f])
    <3>1. PP[f][k] = P[f][k]
      BY <1>8, <2>1 DEF Extends
    <3>2. P[f][k].value \in 1..Len(R[f])
      <4>1. P[f][k].value \in C[f] + 1..N[f] - 1 /\ C[f] \in Nat /\ Len(R[f]) = N[f] - 1
        BY <1>1, <1>13, <2>1, <3>1 DEF Numbered, SignalsIn
      <4> QED BY <4>1
    <3>3. RR[f][P[f][k].value] = R[f][P[f][k].value]
      BY <1>8, <3>2 DEF Extends
    <3>4. Behind(P, R, j, f, k)
      BY <1>1, <1>13, <2>1, <3>1, <3>3 DEF Promised
    <3>5. k \in 1..Len(P[f]) + 1
      BY <2>1
    <3> QED BY <1>1, <1>8, <3>4, <3>5, BehindExtended
  <2>2. CASE k \notin 1..Len(P[f])
    <3>1. f = q /\ k = Len(P[q]) + 1
      BY <1>4, <1>6, <2>2
    <3>2. j \in O[q]
      BY <1>3, <1>4, <1>5, <1>6, <1>13, <3>1
    <3> QED BY <1>4, <1>12, <3>1, <3>2
  <2> QED BY <2>1, <2>2
<1>14. ASSUME NEW f \in Queue, NEW j \in O[f] PROVE Behind(PP, RR, j, f, Len(PP[f]) + 1)
  <2>1. P[f] \in Seq(Command) /\ PP[f] \in Seq(Command) /\ Len(P[f]) <= Len(PP[f])
    BY <1>1, <1>8 DEF Shaped, Extends
  <2>2. Behind(PP, RR, j, f, Len(P[f]) + 1)
    BY <1>12, <2>1
  <2>3. \A i \in 1..(Len(P[f]) + 1) - 1 : i \in 1..(Len(PP[f]) + 1) - 1
    BY <2>1
  <2> QED BY <2>2, <2>3 DEF Behind
<1>15. Promised(PP, C, O, RR)
  BY <1>11, <1>13, <1>14 DEF Promised
<1>16. Consistent(PP, NN, C, O, RR)
  BY <1>9, <1>10, <1>15 DEF Consistent
<1> QED BY <1>16 DEF PP, NN, RR, e

\* The jobs that command e puts ahead of what follows it.
PutsAhead(e, R) ==
  {j \in Job : \/ e = RunCmd(j)
               \/ \E p \in Point : /\ e = WaitCmd(p)
                                   /\ p.value \in 1..Len(R[p.fence])
                                   /\ j \in R[p.fence][p.value]}

\* Sending a job or a wait: the queue is ordered after what the command puts ahead.
LEMMA SendOtherKeeps ==
  ASSUME NEW P, NEW N, NEW C, NEW O, NEW R, Consistent(P, N, C, O, R),
         NEW q \in Queue, NEW e \in Command, ~IsSignal(e), NEW D \in SUBSET PutsAhead(e, R)
  PROVE  Consistent([P EXCEPT ![q] = Append(@, e)], N, C, [O EXCEPT ![q] = @ \cup D], R)
<1> DEFINE PP == [P EXCEPT ![q] = Append(@, e)]
           OO == [O EXCEPT ![q] = @ \cup D]
<1>1. Shaped(P, N, C, O, R) /\ Numbered(P, N, C, R) /\ Promised(P, C, O, R)
  BY DEF Consistent
<1>2. \A f \in Queue : P[f] \in Seq(Command) /\ R[f] \in Seq(SUBSET Job) /\ O[f] \in SUBSET Job
  BY <1>1 DEF Shaped
<1>3. /\ Append(P[q], e) \in Seq(Command)
      /\ Len(Append(P[q], e)) = Len(P[q]) + 1 /\ Len(P[q]) \in Nat
      /\ \A k \in 1..Len(P[q]) : Append(P[q], e)[k] = P[q][k]
      /\ Append(P[q], e)[Len(P[q]) + 1] = e
  BY <1>2, AppendElements
<1>4. D \in SUBSET Job
  BY DEF PutsAhead
<1>5. /\ PP \in [Queue -> Seq(Command)] /\ PP[q] = Append(P[q], e)
      /\ OO \in [Queue -> SUBSET Job] /\ OO[q] = O[q] \cup D
      /\ \A f \in Queue \ {q} : PP[f] = P[f] /\ OO[f] = O[f]
  BY <1>1, <1>3, <1>4 DEF Shaped
<1>6. SignalsIn(PP[q], N[q], C[q])
  <2> HIDE DEF PP
  <2> QED BY <1>1, <1>5, SignalsAppendOther DEF Numbered
<1> HIDE DEF PP, OO
<1>7. Extends(P, R, PP, R)
  <2> SUFFICES ASSUME NEW f \in Queue
               PROVE  /\ PP[f] \in Seq(Command)
                      /\ Len(P[f]) <= Len(PP[f]) /\ \A k \in 1..Len(P[f]) : PP[f][k] = P[f][k]
    BY <1>2 DEF Extends
  <2>1. CASE f = q
    <3>1. PP[q] = Append(P[q], e)
      BY <1>5
    <3>2. Len(P[q]) <= Len(PP[q])
      BY <1>3, <3>1
    <3> QED BY <1>3, <2>1, <3>1, <3>2, Zenon
  <2>2. CASE f # q
    BY <1>2, <1>5, <2>2
  <2> QED BY <2>1, <2>2
<1>8. Shaped(PP, N, C, OO, R)
  BY <1>1, <1>5 DEF Shaped
<1>9. Numbered(PP, N, C, R)
  <2> SUFFICES ASSUME NEW f \in Queue PROVE SignalsIn(PP[f], N[f], C[f])
    BY <1>1 DEF Numbered
  <2> QED BY <1>1, <1>5, <1>6 DEF Numbered
<1>10. ASSUME NEW f \in Queue, NEW k \in 1..Len(PP[f]), IsSignal(PP[f][k]),
              NEW j \in R[f][PP[f][k].value]
       PROVE  Behind(PP, R, j, f, k)
  <2>1. k \in 1..Len(P[f]) /\ PP[f][k] = P[f][k]
    <3>1. CASE f # q
      BY <1>5, <3>1
    <3>2. CASE f = q
      <4>1. k \in 1..Len(P[q]) + 1 /\ PP[f][k] = Append(P[q], e)[k]
        BY <1>3, <1>5, <3>2
      <4>2. k # Len(P[q]) + 1
        BY <1>3, <1>10, <4>1
      <4> QED BY <1>3, <3>2, <4>1, <4>2
    <3> QED BY <3>1, <3>2
  <2>2. Behind(P, R, j, f, k)
    BY <1>1, <1>10, <2>1 DEF Promised
  <2>3. k \in 1..Len(P[f]) + 1
    BY <2>1
  <2> QED BY <1>1, <1>7, <2>2, <2>3, BehindExtended
<1>11. ASSUME NEW f \in Queue, NEW j \in OO[f] PROVE Behind(PP, R, j, f, Len(PP[f]) + 1)
  <2>1. CASE j \in O[f]
    <3>1. Len(P[f]) + 1 \in 1..Len(P[f]) + 1
      BY <1>2
    <3>2. Behind(P, R, j, f, Len(P[f]) + 1)
      BY <1>1, <2>1 DEF Promised
    <3>3. Behind(PP, R, j, f, Len(P[f]) + 1)
      BY <1>1, <1>7, <3>1, <3>2, BehindExtended
    <3>4. \A i \in 1..(Len(P[f]) + 1) - 1 : i \in 1..(Len(PP[f]) + 1) - 1
      <4>1. P[f] \in Seq(Command) /\ PP[f] \in Seq(Command) /\ Len(P[f]) <= Len(PP[f])
        BY <1>2, <1>7 DEF Extends
      <4> QED BY <4>1
    <3> QED BY <3>3, <3>4 DEF Behind
  <2>2. CASE j \notin O[f]
    <3>1. f = q /\ j \in PutsAhead(e, R)
      BY <1>5, <2>2
    <3>2. Len(P[q]) + 1 \in 1..(Len(PP[q]) + 1) - 1
      BY <1>3, <1>5
    <3>3. PP[q][Len(P[q]) + 1] = e
      BY <1>3, <1>5
    <3> QED BY <3>1, <3>2, <3>3 DEF Behind, PutsAhead
  <2> QED BY <2>1, <2>2
<1>12. Promised(PP, C, OO, R)
  BY <1>1, <1>10, <1>11 DEF Promised
<1>13. Consistent(PP, N, C, OO, R)
  BY <1>8, <1>9, <1>12 DEF Consistent
<1> QED BY <1>13 DEF PP, OO

\* What is ahead of a command after the oldest command of q was taken, if it was ahead
\* before and not put there by the oldest command alone.
LEMMA BehindTaken ==
  ASSUME NEW P, NEW N, NEW C, NEW O, NEW R, Shaped(P, N, C, O, R),
         NEW q \in Queue, P[q] # <<>>, NEW D, PutsAhead(Head(P[q]), R) \subseteq D,
         NEW RR \in [Queue -> Seq(SUBSET Job)],
         \A g \in Queue : Len(RR[g]) = Len(R[g]) /\ \A v \in 1..Len(R[g]) : RR[g][v] = R[g][v] \ D,
         NEW j \in Job \ D, NEW f \in Queue, NEW k \in 1..Len(P[f]) + 1, Behind(P, R, j, f, k)
  PROVE  Behind([P EXCEPT ![q] = Tail(@)], RR, j, f, IF f = q THEN k - 1 ELSE k)
<1> DEFINE PP == [P EXCEPT ![q] = Tail(@)]
<1>1. \A g \in Queue : P[g] \in Seq(Command) /\ R[g] \in Seq(SUBSET Job)
  BY DEF Shaped
<1>2. /\ Len(P[q]) \in Nat /\ Head(P[q]) = P[q][1]
      /\ \A i \in 1..Len(P[q]) - 1 : Tail(P[q])[i] = P[q][i + 1]
  BY <1>1, TailElements
<1>3. PP[q] = Tail(P[q]) /\ \A g \in Queue \ {q} : PP[g] = P[g]
  BY DEF Shaped
<1> HIDE DEF PP
<1>4. PICK i \in 1..k - 1 :
        \/ P[f][i] = RunCmd(j)
        \/ \E p \in Point : /\ P[f][i] = WaitCmd(p)
                            /\ p.value \in 1..Len(R[p.fence])
                            /\ j \in R[p.fence][p.value]
  BY DEF Behind
<1> DEFINE n == IF f = q THEN i - 1 ELSE i
           m == IF f = q THEN k - 1 ELSE k
<1>5. n \in 1..m - 1 /\ PP[f][n] = P[f][i]
  <2>1. i \in Nat /\ k \in Nat /\ i < k /\ i <= Len(P[f]) /\ i >= 1
    BY <1>1
  <2>2. CASE f # q
    BY <1>3, <2>1, <2>2
  <2>3. CASE f = q
    <3>1. i # 1
      <4>1. j \notin PutsAhead(P[q][1], R)
        BY <1>2
      <4> QED BY <1>4, <2>3, <4>1 DEF PutsAhead
    <3>2. i - 1 \in 1..Len(P[q]) - 1 /\ (i - 1) + 1 = i /\ i - 1 \in 1..(k - 1) - 1
      BY <1>2, <2>1, <2>3, <3>1
    <3> QED BY <1>2, <1>3, <2>3, <3>2
  <2> QED BY <2>2, <2>3
<1> HIDE DEF n, m
<1>6. ASSUME P[f][i] = RunCmd(j) PROVE Behind(PP, RR, j, f, m)
  <2>1. PP[f][n] = RunCmd(j)
    BY <1>5, <1>6
  <2> QED BY <1>5, <2>1 DEF Behind
<1>7. ASSUME NEW p \in Point, P[f][i] = WaitCmd(p),
             p.value \in 1..Len(R[p.fence]), j \in R[p.fence][p.value]
      PROVE  Behind(PP, RR, j, f, m)
  <2>1. p.fence \in Queue
    BY DEF Point
  <2>2. p.value \in 1..Len(RR[p.fence]) /\ j \in RR[p.fence][p.value]
    BY <1>7, <2>1
  <2>3. PP[f][n] = WaitCmd(p)
    BY <1>5, <1>7
  <2> QED BY <1>5, <2>2, <2>3 DEF Behind
<1>8. Behind(PP, RR, j, f, m)
  BY <1>4, <1>6, <1>7
<1> QED BY <1>8 DEF PP, m

\* Command e of q is done: a signal completes its value, and the jobs in D, which include
\* what the command put ahead of the others, are removed from the history.
Done(e, q, D, C, O, R, CC, OO, RR) ==
  /\ PutsAhead(e, R) \subseteq D
  /\ CC = IF IsSignal(e) THEN [C EXCEPT ![q] = e.value] ELSE C
  /\ OO \in [Queue -> SUBSET Job] /\ \A f \in Queue : OO[f] = O[f] \ D
  /\ RR \in [Queue -> Seq(SUBSET Job)]
  /\ \A f \in Queue : /\ Len(RR[f]) = Len(R[f])
                      /\ \A v \in 1..Len(R[f]) : RR[f][v] = R[f][v] \ D

\* Taking the oldest command of q.
LEMMA TakeKeeps ==
  ASSUME NEW P, NEW N, NEW C, NEW O, NEW R, Consistent(P, N, C, O, R),
         NEW q \in Queue, P[q] # <<>>,
         NEW D, NEW CC, NEW OO, NEW RR, Done(Head(P[q]), q, D, C, O, R, CC, OO, RR)
  PROVE  /\ Consistent([P EXCEPT ![q] = Tail(@)], N, CC, OO, RR)
         /\ \A f \in Queue : C[f] <= CC[f]
         /\ IsSignal(Head(P[q])) => Head(P[q]).value = C[q] + 1
<1> USE DEF Done
<1> DEFINE PP == [P EXCEPT ![q] = Tail(@)]
<1>1. Shaped(P, N, C, O, R) /\ Numbered(P, N, C, R) /\ Promised(P, C, O, R)
  BY DEF Consistent
<1>2. \A f \in Queue : /\ P[f] \in Seq(Command) /\ R[f] \in Seq(SUBSET Job) /\ O[f] \in SUBSET Job
                       /\ N[f] \in 1..MaxSignals + 1 /\ C[f] \in 0..MaxSignals
  BY <1>1 DEF Shaped
<1>3. /\ Tail(P[q]) \in Seq(Command) /\ Head(P[q]) = P[q][1]
      /\ Len(P[q]) \in Nat /\ Len(P[q]) >= 1 /\ Len(Tail(P[q])) = Len(P[q]) - 1
      /\ \A i \in 1..Len(P[q]) - 1 : Tail(P[q])[i] = P[q][i + 1]
  BY <1>2, TailElements
<1>4. /\ PP \in [Queue -> Seq(Command)] /\ PP[q] = Tail(P[q])
      /\ \A g \in Queue \ {q} : PP[g] = P[g]
  BY <1>1, <1>3 DEF Shaped
<1> HIDE DEF PP
<1>5. \A f \in Queue : SignalsIn(P[f], N[f], C[f]) /\ Len(R[f]) = N[f] - 1
  BY <1>1 DEF Numbered
<1>6. \A f \in Queue : C[f] \in Nat /\ N[f] \in Nat /\ C[f] < N[f]
  BY <1>5 DEF SignalsIn
<1>7. /\ IsSignal(Head(P[q])) => Head(P[q]).value = C[q] + 1 /\ C[q] + 1 < N[q]
      /\ SignalsIn(PP[q], N[q], IF IsSignal(Head(P[q])) THEN C[q] + 1 ELSE C[q])
  <2>1. SignalsIn(P[q], N[q], C[q])
    BY <1>5
  <2>2. CASE IsSignal(Head(P[q]))
    <3>1. /\ Head(P[q]).value = C[q] + 1 /\ C[q] + 1 < N[q]
          /\ SignalsIn(Tail(P[q]), N[q], C[q] + 1)
      BY <2>1, <2>2, SignalsTailSignal, Zenon
    <3> QED BY <1>4, <2>2, <3>1
  <2>3. CASE ~IsSignal(Head(P[q]))
    BY <1>4, <2>1, <2>3, SignalsTailOther
  <2> QED BY <2>2, <2>3
<1>8. /\ CC \in [Queue -> 0..MaxSignals]
      /\ CC[q] = IF IsSignal(Head(P[q])) THEN C[q] + 1 ELSE C[q]
      /\ \A f \in Queue \ {q} : CC[f] = C[f]
  <2>1. CASE IsSignal(Head(P[q]))
    <3>1. C[q] + 1 \in 0..MaxSignals
      BY <1>2, <1>6, <1>7, <2>1, QueuesAssumption
    <3> QED BY <1>1, <1>7, <2>1, <3>1 DEF Shaped
  <2>2. CASE ~IsSignal(Head(P[q]))
    BY <1>1, <2>2 DEF Shaped
  <2> QED BY <2>1, <2>2
<1>9. Shaped(PP, N, CC, OO, RR)
  BY <1>1, <1>4, <1>8 DEF Shaped
<1>10. Numbered(PP, N, CC, RR)
  <2> SUFFICES ASSUME NEW f \in Queue PROVE SignalsIn(PP[f], N[f], CC[f])
    BY <1>5 DEF Numbered
  <2>1. CASE f = q
    BY <1>7, <1>8, <2>1
  <2>2. CASE f # q
    BY <1>4, <1>5, <1>8, <2>2
  <2> QED BY <2>1, <2>2
<1>11. ASSUME NEW f \in Queue, NEW v \in 1..CC[f] PROVE RR[f][v] = {}
  <2>1. v \in 1..Len(R[f])
    <3>1. CC[f] < N[f] /\ CC[f] \in Nat
      BY <1>10 DEF Numbered, SignalsIn
    <3> QED BY <1>5, <1>6, <3>1
  <2>2. R[f][v] = {}
    <3>1. CASE v \in 1..C[f]
      BY <1>1, <3>1 DEF Promised
    <3>2. CASE v \notin 1..C[f]
      <4>1. f = q /\ IsSignal(Head(P[q])) /\ v = Head(P[q]).value
        BY <1>6, <1>7, <1>8, <3>2
      <4>2. 1 \in 1..Len(P[q]) /\ IsSignal(P[q][1]) /\ P[q][1].value = v
        BY <1>3, <4>1 DEF IsSignal
      <4>3. \A j \in R[q][v] : Behind(P, R, j, q, 1)
        BY <1>1, <4>2 DEF Promised
      <4>4. \A j : ~Behind(P, R, j, q, 1)
        BY DEF Behind
      <4> QED BY <4>1, <4>3, <4>4
    <3> QED BY <3>1, <3>2
  <2> QED BY <2>1, <2>2
<1>12. ASSUME NEW j \in Job \ D, NEW f \in Queue, NEW k \in 1..Len(P[f]) + 1, Behind(P, R, j, f, k)
       PROVE  Behind(PP, RR, j, f, IF f = q THEN k - 1 ELSE k)
  BY <1>1, <1>12, BehindTaken DEF PP
<1>13. ASSUME NEW f \in Queue, NEW k \in 1..Len(PP[f]), IsSignal(PP[f][k]),
              NEW j \in RR[f][PP[f][k].value]
       PROVE  Behind(PP, RR, j, f, k)
  <2> DEFINE m == IF f = q THEN k + 1 ELSE k
  <2>1. m \in 1..Len(P[f]) /\ P[f][m] = PP[f][k] /\ (IF f = q THEN m - 1 ELSE m) = k
    <3>1. CASE f = q
      <4>1. k \in 1..Len(P[q]) - 1
        BY <1>3, <1>4, <3>1
      <4> QED BY <1>3, <1>4, <3>1, <4>1
    <3>2. CASE f # q
      BY <1>4, <3>2
    <3> QED BY <3>1, <3>2
  <2> HIDE DEF m
  <2>2. PP[f][k].value \in 1..Len(R[f])
    <3>1. IsSignal(P[f][m]) /\ PP[f][k].value = P[f][m].value
      BY <1>13, <2>1 DEF IsSignal
    <3>2. P[f][m].value \in C[f] + 1..N[f] - 1
      BY <1>5, <2>1, <3>1 DEF SignalsIn
    <3> QED BY <1>5, <1>6, <3>1, <3>2
  <2>3. j \in R[f][PP[f][k].value] /\ j \notin D
    BY <1>13, <2>2
  <2>4. j \in Job
    BY <1>2, <2>2, <2>3
  <2>5. Behind(P, R, j, f, m)
    <3>1. IsSignal(P[f][m]) /\ PP[f][k].value = P[f][m].value
      BY <1>13, <2>1 DEF IsSignal
    <3> QED BY <1>1, <2>1, <2>3, <3>1 DEF Promised
  <2>6. m \in 1..Len(P[f]) + 1
    BY <2>1
  <2> QED BY <1>12, <2>1, <2>3, <2>4, <2>5, <2>6
<1>14. ASSUME NEW f \in Queue, NEW j \in OO[f] PROVE Behind(PP, RR, j, f, Len(PP[f]) + 1)
  <2>1. j \in O[f] /\ j \in Job /\ j \notin D
    BY <1>2
  <2>2. Behind(P, R, j, f, Len(P[f]) + 1)
    BY <1>1, <2>1 DEF Promised
  <2>3. Len(P[f]) + 1 \in 1..Len(P[f]) + 1
    BY <1>2
  <2>4. (IF f = q THEN (Len(P[f]) + 1) - 1 ELSE Len(P[f]) + 1) = Len(PP[f]) + 1
    BY <1>3, <1>4
  <2> QED BY <1>12, <2>1, <2>2, <2>3, <2>4
<1>15. Promised(PP, CC, OO, RR)
  BY <1>11, <1>13, <1>14 DEF Promised
<1>16. \A f \in Queue : C[f] <= CC[f]
  BY <1>6, <1>8
<1> QED BY <1>7, <1>9, <1>10, <1>15, <1>16 DEF Consistent, PP

-----------------------------------------------------------------------------
(* The steps of CommandQueues in these terms. *)

History == Consistent(pending, next, completed, ordered, promised)

\* A client's point, and the one a signal returns.
LEMMA PointFacts ==
  ASSUME History
  PROVE  /\ \A q \in Queue : \A p \in Known(q) :
              /\ p \in Point /\ p.fence = q
              /\ p.value < next[q] => p.value \in 1..Len(promised[q])
         /\ \A q \in Queue : /\ NewPoint(q) \in Point
                             /\ NewPoint(q).fence = q /\ NewPoint(q).value = next[q]
<1>1. ASSUME NEW q \in Queue
      PROVE  next[q] \in 1..MaxSignals + 1 /\ Len(promised[q]) = next[q] - 1
  BY DEF History, Consistent, Shaped, Numbered
<1>2. ASSUME NEW q \in Queue, NEW p \in Known(q), p.value < next[q]
      PROVE  p.value \in 1..Len(promised[q])
  <2>1. p.value \in 1..MaxSignals + 1
    BY DEF Known, Point
  <2> QED BY <1>1, <1>2, <2>1, QueuesAssumption
<1> QED BY <1>1, <1>2 DEF Known, NewPoint, Point

\* A call on a queue keeps every promise.
LEMMA CallKeepsHistory ==
  ASSUME History, NEW q \in Queue, Call(q)
  PROVE  History' /\ completed' = completed
<1> USE DEF History
<1>1. /\ pending \in [Queue -> Seq(Command)] /\ next \in [Queue -> 1..MaxSignals + 1]
      /\ ordered \in [Queue -> SUBSET Job] /\ promised \in [Queue -> Seq(SUBSET Job)]
  BY DEF Consistent, Shaped
<1>2. CASE CallSignal(q)
  BY <1>2, SendSignalKeeps DEF CallSignal, Signalled
<1>3. ASSUME NEW j \in Job, ExecuteCommandList(q, j) PROVE History' /\ completed' = completed
  <2>1. RunCmd(j) \in Command /\ ~IsSignal(RunCmd(j)) /\ {j} \in SUBSET PutsAhead(RunCmd(j), promised)
    BY DEF RunCmd, Command, IsSignal, PutsAhead
  <2> QED BY <1>3, <2>1, SendOtherKeeps DEF ExecuteCommandList
<1>4. ASSUME NEW f \in Queue, NEW p \in Known(f), WaitOnFenceGPU(q, p)
      PROVE  History' /\ completed' = completed
  <2> DEFINE D == IF p.value < next[p.fence] THEN promised[p.fence][p.value] ELSE {}
  <2>1. p \in Point /\ p.fence = f /\ (p.value < next[f] => p.value \in 1..Len(promised[f]))
    BY PointFacts
  <2>2. WaitCmd(p) \in Command /\ ~IsSignal(WaitCmd(p))
    BY <2>1 DEF WaitCmd, Command, IsSignal
  <2>3. D \in SUBSET PutsAhead(WaitCmd(p), promised)
    <3>1. CASE p.value < next[f]
      <4>1. promised[f][p.value] \in SUBSET Job
        BY <1>1, <2>1, <3>1
      <4> QED BY <2>1, <3>1, <4>1 DEF PutsAhead
    <3>2. CASE ~(p.value < next[f])
      BY <2>1, <3>2
    <3> QED BY <3>1, <3>2
  <2> HIDE DEF D
  <2>4. /\ pending' = [pending EXCEPT ![q] = Append(@, WaitCmd(p))]
        /\ ordered' = [ordered EXCEPT ![q] = @ \cup D]
        /\ next' = next /\ completed' = completed /\ promised' = promised
    BY <1>4 DEF WaitOnFenceGPU, D
  <2>5. Consistent([pending EXCEPT ![q] = Append(@, WaitCmd(p))], next, completed,
                   [ordered EXCEPT ![q] = @ \cup D], promised)
    BY <2>2, <2>3, SendOtherKeeps, Zenon
  <2> QED BY <2>4, <2>5
<1>5. ASSUME NEW p, NEW timed, HasFencePointBeenReached(q, p) \/ WaitOnFenceCPU(q, p, timed)
      PROVE  History' /\ completed' = completed
  BY <1>5 DEF HasFencePointBeenReached, WaitOnFenceCPU, history
<1>6. ASSUME NEW other \in Queue, SyncWithQueue(q, other) PROVE History' /\ completed' = completed
  <2> DEFINE signalled == [pending EXCEPT ![other] = Append(@, SignalCmd(next[other]))]
             e == WaitCmd(NewPoint(other))
  <2>1. /\ next[other] <= MaxSignals /\ next' = [next EXCEPT ![other] = @ + 1]
        /\ promised' = [promised EXCEPT ![other] = Append(@, ordered[other])]
        /\ pending' = [signalled EXCEPT ![q] = Append(@, e)]
        /\ ordered' = [ordered EXCEPT ![q] = @ \cup ordered[other]]
        /\ completed' = completed
    BY <1>6 DEF SyncWithQueue, Signalled
  <2>2. Consistent(signalled, next', completed, ordered, promised')
    BY <2>1, SendSignalKeeps, Zenon
  <2>3. NewPoint(other) \in Point /\ NewPoint(other).fence = other /\ NewPoint(other).value = next[other]
    BY PointFacts
  <2>4. e \in Command /\ ~IsSignal(e)
    BY <2>3 DEF WaitCmd, Command, IsSignal
  <2>5. ordered[other] \in SUBSET PutsAhead(e, promised')
    <3>1. /\ promised[other] \in Seq(SUBSET Job) /\ ordered[other] \in SUBSET Job
          /\ Len(promised[other]) = next[other] - 1 /\ next[other] \in 1..MaxSignals + 1
      BY <1>1 DEF Consistent, Numbered
    <3>2. promised'[other] = Append(promised[other], ordered[other])
      BY <1>1, <2>1
    <3>3. next[other] \in 1..Len(promised'[other]) /\ promised'[other][next[other]] = ordered[other]
      BY <3>1, <3>2, AppendElements, QueuesAssumption
    <3> QED BY <2>3, <3>1, <3>3 DEF PutsAhead
  <2> HIDE DEF signalled, e
  <2> QED BY <2>1, <2>2, <2>4, <2>5, SendOtherKeeps
<1>7. CASE FlushQueue(q) \/ Destroy(q)
  <2>1. /\ next[q] <= MaxSignals /\ next' = [next EXCEPT ![q] = @ + 1]
        /\ promised' = [promised EXCEPT ![q] = Append(@, ordered[q])]
        /\ pending' = [pending EXCEPT ![q] = Append(@, SignalCmd(next[q]))]
        /\ ordered' = ordered /\ completed' = completed
    BY <1>7 DEF FlushQueue, Destroy, StartFlush, Signalled
  <2> QED BY <2>1, SendSignalKeeps
<1> QED BY <1>2, <1>3, <1>4, <1>5, <1>6, <1>7 DEF Call

\* What a command puts ahead of the others, by its kind.
LEMMA PutsAheadFacts ==
  ASSUME NEW e, NEW R
  PROVE  /\ e.op = "signal" => PutsAhead(e, R) \subseteq {}
         /\ e.op = "run" => PutsAhead(e, R) \subseteq {e.job}
         /\ e.op = "wait" => \A j \in PutsAhead(e, R) :
              /\ e.point \in Point /\ e.point.value \in 1..Len(R[e.point.fence])
              /\ j \in R[e.point.fence][e.point.value]
<1>1. ASSUME NEW j \in PutsAhead(e, R)
      PROVE  \/ e = RunCmd(j)
             \/ \E p \in Point : /\ e = WaitCmd(p)
                                 /\ p.value \in 1..Len(R[p.fence]) /\ j \in R[p.fence][p.value]
  BY DEF PutsAhead
<1>2. \A j : e = RunCmd(j) => e.op = "run" /\ e.job = j
  BY DEF RunCmd
<1>3. \A p : e = WaitCmd(p) => e.op = "wait" /\ e.point = p
  BY DEF WaitCmd
<1>4. ASSUME e.op = "signal" PROVE PutsAhead(e, R) \subseteq {}
  BY <1>1, <1>2, <1>3, <1>4
<1>5. ASSUME e.op = "run" PROVE PutsAhead(e, R) \subseteq {e.job}
  BY <1>1, <1>2, <1>3, <1>5
<1>6. ASSUME e.op = "wait", NEW j \in PutsAhead(e, R)
      PROVE  /\ e.point \in Point /\ e.point.value \in 1..Len(R[e.point.fence])
             /\ j \in R[e.point.fence][e.point.value]
  BY <1>1, <1>2, <1>3, <1>6
<1> QED BY <1>4, <1>5, <1>6

\* The GPU keeps every promise, and a fence never goes back.
LEMMA GpuKeepsHistory ==
  ASSUME History, NEW q \in Queue, GpuStep(q)
  PROVE  History' /\ (\A f \in Queue : completed[f] <= completed'[f])
<1> DEFINE head == Head(pending[q])
<1>1. /\ \A f \in Queue : pending[f] \in Seq(Command) /\ promised[f] \in Seq(SUBSET Job)
      /\ ordered \in [Queue -> SUBSET Job] /\ promised \in [Queue -> Seq(SUBSET Job)]
      /\ \A f \in Queue : completed[f] \in 0..MaxSignals
  BY DEF History, Consistent, Shaped
<1>2. pending[q] # <<>> /\ Ready(q) /\ pending' = [pending EXCEPT ![q] = Tail(@)] /\ next' = next
  BY DEF GpuStep, GpuSignal, GpuWait, GpuRun, Ready
<1>3. completed' = IF IsSignal(head) THEN [completed EXCEPT ![q] = head.value] ELSE completed
  BY DEF GpuStep, GpuSignal, GpuWait, GpuRun, IsSignal
<1>4. ASSUME NEW D, PutsAhead(head, promised) \subseteq D,
             ordered' \in [Queue -> SUBSET Job], \A f \in Queue : ordered'[f] = ordered[f] \ D,
             promised' \in [Queue -> Seq(SUBSET Job)],
             \A f \in Queue : /\ Len(promised'[f]) = Len(promised[f])
                              /\ \A v \in 1..Len(promised[f]) :
                                   promised'[f][v] = promised[f][v] \ D
      PROVE  History' /\ (\A f \in Queue : completed[f] <= completed'[f])
  <2>1. Consistent(pending, next, completed, ordered, promised)
    BY DEF History
  <2>2. /\ Consistent([pending EXCEPT ![q] = Tail(@)], next, completed', ordered', promised')
        /\ \A f \in Queue : completed[f] <= completed'[f]
    <3>1. Done(Head(pending[q]), q, D, completed, ordered, promised, completed', ordered', promised')
      BY <1>3, <1>4 DEF Done
    <3> QED BY <1>2, <2>1, <3>1, TakeKeeps
  <2> QED BY <1>2, <2>2 DEF History
<1> HIDE DEF head
<1>5. CASE ordered' = ordered /\ promised' = promised /\ PutsAhead(head, promised) = {}
  <2>1. \A f \in Queue : /\ ordered[f] = ordered[f] \ {}
                         /\ \A v \in 1..Len(promised[f]) : promised[f][v] = promised[f][v] \ {}
    OBVIOUS
  <2> QED BY <1>1, <1>4, <1>5, <2>1
<1>6. CASE GpuSignal(q)
  BY <1>5, <1>6, PutsAheadFacts DEF GpuSignal, history, head
<1>7. CASE GpuWait(q)
  <2>1. head.op = "wait"
    BY <1>7 DEF GpuWait, head
  <2>2. ASSUME NEW j \in PutsAhead(head, promised) PROVE FALSE
    <3> DEFINE p == head.point
    <3>1. p \in Point /\ p.value \in 1..Len(promised[p.fence]) /\ j \in promised[p.fence][p.value]
      BY <2>1, PutsAheadFacts
    <3>2. p.fence \in Queue /\ p.value \in Nat /\ p.value >= 1
      BY <3>1, QueuesAssumption DEF Point
    <3>3. completed[p.fence] >= p.value
      BY <1>2, <2>1 DEF Ready, head
    <3>4. p.value \in 1..completed[p.fence]
      BY <1>1, <3>2, <3>3, QueuesAssumption
    <3> HIDE DEF p
    <3> QED BY <3>1, <3>2, <3>4 DEF History, Consistent, Promised
  <2> QED BY <1>5, <1>7, <2>2 DEF GpuWait, history
<1>8. CASE GpuRun(q)
  <2>1. /\ head.op = "run"
        /\ ordered' = [f \in Queue |-> ordered[f] \ {head.job}]
        /\ promised' = [f \in Queue |-> [v \in DOMAIN promised[f] |-> promised[f][v] \ {head.job}]]
    BY <1>8 DEF GpuRun, head
  <2>2. PutsAhead(head, promised) \subseteq {head.job}
    BY <2>1, PutsAheadFacts
  <2>3. ordered' \in [Queue -> SUBSET Job] /\ \A f \in Queue : ordered'[f] = ordered[f] \ {head.job}
    BY <1>1, <2>1
  <2>4. ASSUME NEW f \in Queue
        PROVE  /\ promised'[f] \in Seq(SUBSET Job) /\ Len(promised'[f]) = Len(promised[f])
               /\ \A v \in 1..Len(promised[f]) : promised'[f][v] = promised[f][v] \ {head.job}
    <3>1. DOMAIN promised[f] = 1..Len(promised[f]) /\ Len(promised[f]) \in Nat
      BY <1>1
    <3>2. promised'[f] = [v \in 1..Len(promised[f]) |-> promised[f][v] \ {head.job}]
      BY <2>1, <3>1
    <3>3. promised'[f] \in [1..Len(promised[f]) -> SUBSET Job]
      BY <1>1, <3>2
    <3> QED BY <3>1, <3>2, <3>3, FunctionIsSeq
  <2>5. promised' \in [Queue -> Seq(SUBSET Job)]
    BY <2>1, <2>4
  <2> QED BY <1>4, <2>2, <2>3, <2>4, <2>5
<1> QED BY <1>6, <1>7, <1>8 DEF GpuStep

-----------------------------------------------------------------------------
(* What the CPU thread is told. *)

LastOf(s) == s[Len(s)]

\* A queue that was destroyed or flushed is empty, and a flush waits for the last
\* command of its queue: a signal, the newest of the fence.
Barrier ==
  /\ \A q \in gone : pending[q] = <<>>
  /\ cpu.at = "free" /\ cpu.outcome = "flushed" => pending[cpu.point.fence] = <<>>
  /\ cpu.at \in {"flush", "destroy"} =>
       LET q == cpu.point.fence
       IN  cpu.point.value = next[q] - 1 /\ (pending[q] # <<>> => IsSignal(LastOf(pending[q])))

QueuesInv == TypeOK /\ History /\ WaitTellsTruth /\ Barrier

\* How a call on a queue leaves the thread, and that it reaches no destroyed queue.
LEMMA CallOutcome ==
  ASSUME TypeOK, History, NEW q \in Queue, Call(q)
  PROVE  /\ cpu.at = "free" /\ gone' = gone /\ \A f \in gone : pending'[f] = pending[f]
         /\ \/ cpu' = Idle
            \/ \E p \in Point : cpu' = Reports("reached", p) /\ completed[p.fence] >= p.value
            \/ \E p \in Point : \E timed \in BOOLEAN : cpu' = Blocked("wait", p, timed)
            \/ \E call \in {"flush", "destroy"} :
                 /\ cpu' = Blocked(call, NewPoint(q), FALSE)
                 /\ next'[q] = next[q] + 1
                 /\ IsSignal(LastOf(pending'[q]))
<1>1. /\ pending \in [Queue -> Seq(Command)] /\ next \in [Queue -> 1..MaxSignals + 1]
      /\ completed \in [Queue -> 0..MaxSignals]
  BY DEF TypeOK
<1>2. q \notin gone /\ cpu.at = "free"
  BY DEF Call, CallSignal, ExecuteCommandList, WaitOnFenceGPU, HasFencePointBeenReached,
         WaitOnFenceCPU, SyncWithQueue, FlushQueue, Destroy, StartFlush, CanSubmit, Callable
<1>3. CASE CallSignal(q) \/ \E j \in Job : ExecuteCommandList(q, j)
  <2>1. \A f \in gone : f \in Queue /\ f # q
    BY <1>2 DEF TypeOK
  <2>2. gone' = gone /\ cpu' = Idle /\ \A f \in gone : pending'[f] = pending[f]
    BY <1>1, <1>3, <2>1 DEF CallSignal, ExecuteCommandList
  <2> QED BY <1>2, <2>2
<1>4. ASSUME NEW p, WaitOnFenceGPU(q, p)
      PROVE  gone' = gone /\ cpu' = Idle /\ \A f \in gone : pending'[f] = pending[f]
  BY <1>1, <1>2, <1>4 DEF WaitOnFenceGPU
<1>5. ASSUME NEW p \in Point,
             HasFencePointBeenReached(q, p) \/ \E timed \in BOOLEAN : WaitOnFenceCPU(q, p, timed)
      PROVE  /\ gone' = gone /\ pending' = pending
             /\ \/ cpu' = Idle
                \/ cpu' = Reports("reached", p) /\ completed[p.fence] >= p.value
                \/ \E timed \in BOOLEAN : cpu' = Blocked("wait", p, timed)
  <2>1. CASE HasFencePointBeenReached(q, p)
    BY <2>1 DEF HasFencePointBeenReached
  <2>2. ASSUME NEW timed \in BOOLEAN, WaitOnFenceCPU(q, p, timed)
        PROVE  /\ gone' = gone /\ pending' = pending
               /\ \/ cpu' = Idle
                  \/ cpu' = Reports("reached", p) /\ completed[p.fence] >= p.value
                  \/ cpu' = Blocked("wait", p, timed)
    <3>1. completed[q] \in Nat /\ p.value \in Nat
      BY <1>1, QueuesAssumption DEF Point
    <3>2. completed[q] > p.value => completed[q] >= p.value
      BY <3>1
    <3> QED BY <2>2, <3>2 DEF WaitOnFenceCPU
  <2> QED BY <1>5, <2>1, <2>2
<1>6. ASSUME NEW other \in Queue, SyncWithQueue(q, other)
      PROVE  gone' = gone /\ cpu' = Idle /\ \A f \in gone : pending'[f] = pending[f]
  <2>1. other \notin gone /\ gone' = gone /\ cpu' = Idle
    BY <1>6 DEF SyncWithQueue, CanSubmit, Callable
  <2> DEFINE signalled == [pending EXCEPT ![other] = Append(@, SignalCmd(next[other]))]
             waiting == [signalled EXCEPT ![q] = Append(@, WaitCmd(NewPoint(other)))]
  <2>2. pending' = waiting
    BY <1>6 DEF SyncWithQueue
  <2>3. ASSUME NEW f \in gone PROVE waiting[f] = pending[f]
    <3>1. f \in Queue /\ f # q /\ f # other
      BY <1>2, <2>1 DEF TypeOK
    <3> QED BY <1>1, <3>1
  <2> QED BY <2>1, <2>2, <2>3
<1>7. ASSUME NEW call, call \in {"flush", "destroy"}, StartFlush(q, call)
      PROVE  /\ gone' = gone /\ \A f \in gone : pending'[f] = pending[f]
             /\ \/ cpu' = Idle
                \/ /\ cpu' = Blocked(call, NewPoint(q), FALSE)
                   /\ next'[q] = next[q] + 1 /\ IsSignal(LastOf(pending'[q]))
  <2> DEFINE e == SignalCmd(next[q])
  <2>1. /\ next' = [next EXCEPT ![q] = @ + 1] /\ next[q] <= MaxSignals
        /\ pending' = [pending EXCEPT ![q] = Append(@, e)]
        /\ gone' = gone /\ (cpu' = Idle \/ cpu' = Blocked(call, NewPoint(q), FALSE))
    BY <1>7 DEF StartFlush, Signalled
  <2>2. e \in Command /\ IsSignal(e)
    <3>1. next[q] \in 1..MaxSignals
      BY <1>1, <2>1, QueuesAssumption
    <3> QED BY <3>1 DEF SignalCmd, Command, IsSignal
  <2> HIDE DEF e
  <2>3. pending'[q] = Append(pending[q], e) /\ next'[q] = next[q] + 1
        /\ \A f \in gone : pending'[f] = pending[f]
    BY <1>1, <1>2, <2>1 DEF TypeOK
  <2>4. LastOf(pending'[q]) = e
    BY <1>1, <2>2, <2>3, AppendElements DEF LastOf
  <2> QED BY <2>1, <2>2, <2>3, <2>4
<1>8. \A f \in Queue : \A p \in Known(f) : p \in Point
  BY PointFacts
<1>9. CASE FlushQueue(q) \/ Destroy(q)
  BY <1>2, <1>7, <1>9 DEF FlushQueue, Destroy
<1>10. CASE \E other \in Queue : SyncWithQueue(q, other)
  BY <1>2, <1>6, <1>10
<1>11. ASSUME NEW f \in Queue, NEW p \in Known(f), WaitOnFenceGPU(q, p)
       PROVE  cpu' = Idle /\ gone' = gone /\ \A g \in gone : pending'[g] = pending[g]
  BY <1>4, <1>11
<1>12. ASSUME NEW p \in Point,
              HasFencePointBeenReached(q, p) \/ \E timed \in BOOLEAN : WaitOnFenceCPU(q, p, timed)
       PROVE  /\ gone' = gone /\ pending' = pending
              /\ \/ cpu' = Idle
                 \/ \E r \in Point : cpu' = Reports("reached", r) /\ completed[r.fence] >= r.value
                 \/ \E r \in Point : \E timed \in BOOLEAN : cpu' = Blocked("wait", r, timed)
  BY <1>5, <1>12
<1> QED BY <1>2, <1>3, <1>8, <1>9, <1>10, <1>11, <1>12, Zenon DEF Call

\* A fence whose newest value is reached has nothing pending if the newest command is a
\* signal.
LEMMA FlushedIsEmpty ==
  ASSUME NEW p, NEW n, NEW c, SignalsIn(p, n, c), p # <<>> => IsSignal(LastOf(p)), c >= n - 1
  PROVE  p = <<>>
<1> SUFFICES ASSUME p # <<>> PROVE FALSE
  OBVIOUS
<1>1. p \in Seq(Command) /\ n \in Nat /\ c \in Nat
  BY DEF SignalsIn
<1>2. Len(p) \in 1..Len(p) /\ IsSignal(p[Len(p)])
  BY <1>1 DEF LastOf
<1>3. p[Len(p)].value \in c + 1..n - 1
  BY <1>2 DEF SignalsIn
<1> QED BY <1>1, <1>3

\* Taking a command leaves the last one the last, and a queue that has none is left alone.
LEMMA GpuLeavesLast ==
  ASSUME TypeOK, NEW q \in Queue, GpuStep(q), NEW f \in Queue
  PROVE  /\ pending[f] = <<>> => pending'[f] = <<>>
         /\ pending'[f] # <<>> => LastOf(pending'[f]) = LastOf(pending[f])
         /\ next' = next /\ gone' = gone /\ cpu' = cpu
<1>1. /\ pending \in [Queue -> Seq(Command)] /\ pending[q] # <<>>
      /\ pending' = [pending EXCEPT ![q] = Tail(@)]
      /\ next' = next /\ gone' = gone /\ cpu' = cpu
  BY DEF TypeOK, GpuStep, GpuSignal, GpuWait, GpuRun, Ready
<1>2. CASE f # q
  BY <1>1, <1>2
<1>3. CASE f = q
  <2>1. pending'[f] = Tail(pending[q])
    BY <1>1, <1>3
  <2>2. /\ Tail(pending[q]) \in Seq(Command) /\ Len(Tail(pending[q])) = Len(pending[q]) - 1
        /\ \A k \in 1..Len(pending[q]) - 1 : Tail(pending[q])[k] = pending[q][k + 1]
    BY <1>1, TailElements
  <2>3. ASSUME Tail(pending[q]) # <<>> PROVE LastOf(Tail(pending[q])) = LastOf(pending[q])
    <3>1. Len(pending[q]) - 1 \in 1..Len(pending[q]) - 1 /\ (Len(pending[q]) - 1) + 1 = Len(pending[q])
      BY <1>1, <2>2, <2>3
    <3> QED BY <2>2, <3>1 DEF LastOf
  <2> QED BY <1>1, <1>3, <2>1, <2>3
<1> QED BY <1>2, <1>3

\* The invariant is one.
LEMMA QueuesInit == Init => QueuesInv
<1> SUFFICES ASSUME Init PROVE QueuesInv
  OBVIOUS
<1>1. TypeOK
  BY QueuesAssumption DEF Init, TypeOK
<1>2. ASSUME NEW q \in Queue PROVE SignalsIn(pending[q], next[q], completed[q]) /\ Len(promised[q]) = next[q] - 1
  BY DEF Init, SignalsIn
<1>3. Shaped(pending, next, completed, ordered, promised)
  BY <1>1 DEF TypeOK, Shaped
<1>4. Promised(pending, completed, ordered, promised)
  BY DEF Init, Promised
<1>5. History
  BY <1>2, <1>3, <1>4 DEF History, Consistent, Numbered
<1> QED BY <1>1, <1>5 DEF QueuesInv, WaitTellsTruth, Barrier, Init, Idle

LEMMA QueuesStep == QueuesInv /\ [Next]_vars => QueuesInv'
<1> SUFFICES ASSUME TypeOK, History, WaitTellsTruth, Barrier, [Next]_vars
             PROVE  TypeOK' /\ History' /\ WaitTellsTruth' /\ Barrier'
  BY DEF QueuesInv
<1>1. /\ gone \subseteq Queue /\ next \in [Queue -> 1..MaxSignals + 1]
      /\ completed \in [Queue -> 0..MaxSignals]
  BY DEF TypeOK
<1> DEFINE CpuOK == \/ cpu = Idle
                    \/ cpu \in [at : {"free"}, point : Point, outcome : {"reached", "flushed"}]
                    \/ cpu \in [at : {"wait", "flush", "destroy"}, point : Point, timed : BOOLEAN]
<1>2. CpuOK
  BY DEF TypeOK
<1>3. ASSUME History', gone' \subseteq Queue, CpuOK' PROVE TypeOK'
  BY <1>3 DEF TypeOK, History, Consistent, Shaped
<1> HIDE DEF CpuOK
<1>4. ASSUME NEW q \in Queue, Call(q) PROVE TypeOK' /\ History' /\ WaitTellsTruth' /\ Barrier'
  <2>1. History' /\ completed' = completed
    BY <1>4, CallKeepsHistory
  <2>2. cpu.at = "free" /\ gone' = gone /\ \A f \in gone : pending'[f] = pending[f]
    BY <1>4, CallOutcome
  <2>3. \A f \in gone' : pending'[f] = <<>>
    BY <2>2 DEF Barrier
  <2>4. CASE cpu' = Idle
    BY <1>1, <1>3, <2>1, <2>2, <2>3, <2>4 DEF WaitTellsTruth, Barrier, CpuOK, Idle
  <2>5. ASSUME NEW p \in Point, cpu' = Reports("reached", p), completed[p.fence] >= p.value
        PROVE  TypeOK' /\ WaitTellsTruth' /\ Barrier'
    BY <1>1, <1>3, <2>1, <2>2, <2>3, <2>5 DEF WaitTellsTruth, Barrier, CpuOK, Reports
  <2>6. ASSUME NEW p \in Point, NEW timed \in BOOLEAN, cpu' = Blocked("wait", p, timed)
        PROVE  TypeOK' /\ WaitTellsTruth' /\ Barrier'
    BY <1>1, <1>3, <2>1, <2>2, <2>3, <2>6 DEF WaitTellsTruth, Barrier, CpuOK, Blocked
  <2>7. ASSUME NEW call \in {"flush", "destroy"}, cpu' = Blocked(call, NewPoint(q), FALSE),
               next'[q] = next[q] + 1, IsSignal(LastOf(pending'[q]))
        PROVE  TypeOK' /\ WaitTellsTruth' /\ Barrier'
    <3>1. NewPoint(q) \in Point /\ NewPoint(q).fence = q /\ NewPoint(q).value = next[q]
      BY PointFacts
    <3>2. /\ cpu'.at = call /\ cpu'.point = NewPoint(q) /\ CpuOK'
      BY <2>7, <3>1 DEF Blocked, CpuOK
    <3>3. cpu'.point.value = next'[q] - 1
      <4>1. next[q] \in Nat
        BY <1>1, QueuesAssumption
      <4>2. next[q] = (next[q] + 1) - 1
        BY <4>1
      <4>3. cpu'.point.value = next[q]
        BY <3>1, <3>2
      <4> QED BY <2>7, <4>2, <4>3, Zenon
    <3> QED BY <1>1, <1>3, <2>1, <2>2, <2>3, <2>7, <3>1, <3>2, <3>3 DEF WaitTellsTruth, Barrier
  <2> QED BY <1>4, <2>1, <2>4, <2>5, <2>6, <2>7, CallOutcome
<1>5. ASSUME NEW q \in Queue, GpuStep(q) PROVE TypeOK' /\ History' /\ WaitTellsTruth' /\ Barrier'
  <2>1. History' /\ \A f \in Queue : completed[f] <= completed'[f]
    BY <1>5, GpuKeepsHistory
  <2>2. \A f \in Queue : /\ pending[f] = <<>> => pending'[f] = <<>>
                         /\ pending'[f] # <<>> => LastOf(pending'[f]) = LastOf(pending[f])
    BY <1>5, GpuLeavesLast
  <2>3. next' = next /\ gone' = gone /\ cpu' = cpu
    BY <1>5 DEF GpuStep, GpuSignal, GpuWait, GpuRun
  <2>4. TypeOK'
    BY <1>1, <1>2, <1>3, <2>1, <2>3 DEF CpuOK
  <2>5. cpu # Idle => cpu.point.fence \in Queue /\ cpu.point.value \in Nat
    BY <1>2, QueuesAssumption DEF CpuOK, Point
  <2>6. WaitTellsTruth'
    <3> SUFFICES ASSUME cpu.at = "free", cpu.outcome \in {"reached", "flushed"}
                 PROVE  completed'[cpu.point.fence] >= cpu.point.value
      BY <2>3 DEF WaitTellsTruth
    <3>1. cpu # Idle
      BY DEF Idle
    <3>2. completed[cpu.point.fence] >= cpu.point.value
      BY DEF WaitTellsTruth
    <3>3. completed[cpu.point.fence] \in Nat /\ completed'[cpu.point.fence] \in Nat
      BY <1>1, <2>4, <2>5, <3>1 DEF TypeOK
    <3> QED BY <2>1, <2>5, <3>1, <3>2, <3>3
  <2>7. Barrier'
    <3>1. \A f \in gone' : pending'[f] = <<>>
      BY <1>1, <2>2, <2>3 DEF Barrier
    <3>2. cpu.at = "free" /\ cpu.outcome = "flushed" => cpu # Idle
      BY DEF Idle
    <3>3. cpu.at \in {"flush", "destroy"} => cpu # Idle
      BY DEF Idle
    <3> QED BY <2>2, <2>3, <2>5, <3>1, <3>2, <3>3 DEF Barrier
  <2> QED BY <2>1, <2>4, <2>6, <2>7
<1>6. ASSUME WaitReturns PROVE TypeOK' /\ History' /\ WaitTellsTruth' /\ Barrier'
  <2> DEFINE q == cpu.point.fence
  <2>1. /\ cpu.at \in {"wait", "flush", "destroy"} /\ cpu.point \in Point /\ q \in Queue
        /\ cpu.point.value \in Nat
    <3>1. cpu.at # "free"
      BY <1>6 DEF WaitReturns
    <3> QED BY <1>2, <3>1, QueuesAssumption DEF CpuOK, Idle, Point
  <2>2. /\ completed[q] >= cpu.point.value
        /\ cpu' = Reports(IF cpu.at = "wait" THEN "reached" ELSE "flushed", cpu.point)
        /\ gone' = IF cpu.at = "destroy" THEN gone \cup {q} ELSE gone
        /\ pending' = pending /\ next' = next /\ completed' = completed
        /\ ordered' = ordered /\ promised' = promised
    BY <1>6 DEF WaitReturns, history
  <2>3. History'
    BY <2>2 DEF History
  <2>4. /\ cpu'.at = "free" /\ cpu'.point = cpu.point
        /\ cpu'.outcome = IF cpu.at = "wait" THEN "reached" ELSE "flushed"
        /\ CpuOK'
    BY <2>1, <2>2 DEF Reports, CpuOK
  <2>5. TypeOK'
    BY <1>1, <1>3, <2>1, <2>2, <2>3, <2>4
  <2>6. cpu.at # "wait" => pending[q] = <<>>
    <3> SUFFICES ASSUME cpu.at # "wait" PROVE pending[q] = <<>>
      OBVIOUS
    <3>1. completed[q] >= next[q] - 1 /\ (pending[q] # <<>> => IsSignal(LastOf(pending[q])))
      BY <2>1, <2>2 DEF Barrier
    <3>2. SignalsIn(pending[q], next[q], completed[q])
      BY <2>1 DEF History, Consistent, Numbered
    <3> QED BY <3>1, <3>2, FlushedIsEmpty
  <2>7. \A f \in gone' : pending'[f] = <<>>
    BY <2>2, <2>6 DEF Barrier
  <2>8. Barrier'
    BY <2>2, <2>4, <2>6, <2>7 DEF Barrier
  <2> QED BY <2>2, <2>3, <2>4, <2>5, <2>8 DEF WaitTellsTruth
<1>7. ASSUME WaitTimesOut PROVE TypeOK' /\ History' /\ WaitTellsTruth' /\ Barrier'
  <2>1. cpu' = Idle /\ UNCHANGED <<pending, next, completed, gone, ordered, promised>>
    BY <1>7 DEF WaitTimesOut, history
  <2>2. History' /\ CpuOK'
    BY <2>1 DEF History, CpuOK
  <2> QED BY <1>1, <1>3, <2>1, <2>2 DEF WaitTellsTruth, Barrier, Idle
<1>8. ASSUME UNCHANGED vars PROVE TypeOK' /\ History' /\ WaitTellsTruth' /\ Barrier'
  BY <1>8 DEF vars, TypeOK, History, WaitTellsTruth, Barrier
<1> QED BY <1>4, <1>5, <1>6, <1>7, <1>8 DEF Next, Terminated

LEMMA QueuesInvariant == Spec => []QueuesInv
BY QueuesInit, QueuesStep, PTL DEF Spec

\* The state has its shape: every value the code computes is one its variable may hold.
THEOREM QueuesTypeCorrect == Spec => []TypeOK
<1>1. QueuesInv => TypeOK
  BY DEF QueuesInv
<1> QED BY <1>1, QueuesInvariant, PTL

\* ID3D12CommandQueue::Wait and Signal carry order from queue to queue: when a fence
\* reaches a point, everything the point was signalled after is done, on every queue.
THEOREM PointsMeanDone == Spec => []ReachedMeansDone
<1>1. QueuesInv => ReachedMeansDone
  BY DEF QueuesInv, History, Consistent, Promised, ReachedMeansDone
<1> QED BY <1>1, QueuesInvariant, PTL

\* HasFencePointBeenReached and WaitOnFenceCPU never report a point of any fence that is
\* not reached, and what they reported stays true.
THEOREM WaitsTellTruth == Spec => []WaitTellsTruth
<1>1. QueuesInv => WaitTellsTruth
  BY DEF QueuesInv
<1> QED BY <1>1, QueuesInvariant, PTL

\* FlushQueue and the destructor return to an empty queue.
THEOREM FlushesEmptyTheQueue == Spec => []FlushIsBarrier
<1>1. QueuesInv => FlushIsBarrier
  <2> SUFFICES ASSUME TypeOK, Barrier PROVE FlushIsBarrier
    BY DEF QueuesInv
  <2> QED BY DEF FlushIsBarrier, Barrier
<1> QED BY <1>1, QueuesInvariant, PTL

-----------------------------------------------------------------------------
(* Queues do not block each other. Every pending command has a rank, as if one    *)
(* clock had stamped them all, and a wait has a higher rank than the signal it   *)
(* waits for.                                                                    *)

\* The k-th command of q, if a wait, is for a point signalled already, at a lower rank.
WaitsForEarlier(P, N, r, q, k) ==
  P[q][k].op = "wait" =>
    LET p == P[q][k].point
    IN  /\ p.value < N[p.fence]
        /\ \A i \in 1..Len(P[p.fence]) :
             IsSignal(P[p.fence][i]) /\ P[p.fence][i].value = p.value => r[p.fence][i] < r[q][k]

\* The ranks r are below m and grow along every queue.
Ranked(P, N, r, m) ==
  /\ r \in [Queue -> Seq(Nat)] /\ m \in Nat
  /\ \A q \in Queue :
       /\ Len(r[q]) = Len(P[q])
       /\ \A k \in 1..Len(P[q]) : r[q][k] < m /\ WaitsForEarlier(P, N, r, q, k)
       /\ \A i, k \in 1..Len(P[q]) : i < k => r[q][i] < r[q][k]

Orderly == FutureWaits \/ \E r, m : Ranked(pending, next, r, m)

\* A new command gets the next rank.
LEMMA SendRanked ==
  ASSUME NEW P \in [Queue -> Seq(Command)], NEW N \in [Queue -> Nat],
         NEW NN \in [Queue -> Nat], \A f \in Queue : N[f] <= NN[f],
         NEW r, NEW m, Ranked(P, N, r, m),
         NEW q \in Queue, NEW e \in Command,
         IsSignal(e) => e.value = N[q],
         e.op = "wait" => e.point \in Point /\ e.point.value < N[e.point.fence]
  PROVE  Ranked([P EXCEPT ![q] = Append(@, e)], NN, [r EXCEPT ![q] = Append(@, m)], m + 1)
<1> DEFINE PP == [P EXCEPT ![q] = Append(@, e)]
           rr == [r EXCEPT ![q] = Append(@, m)]
<1>1. /\ r \in [Queue -> Seq(Nat)] /\ m \in Nat
      /\ \A f \in Queue : Len(r[f]) = Len(P[f]) /\ P[f] \in Seq(Command) /\ r[f] \in Seq(Nat)
  BY DEF Ranked
<1>2. /\ Append(P[q], e) \in Seq(Command)
      /\ Len(Append(P[q], e)) = Len(P[q]) + 1 /\ Len(P[q]) \in Nat
      /\ \A k \in 1..Len(P[q]) : Append(P[q], e)[k] = P[q][k]
      /\ Append(P[q], e)[Len(P[q]) + 1] = e
  BY AppendElements
<1>3. /\ Append(r[q], m) \in Seq(Nat)
      /\ Len(Append(r[q], m)) = Len(P[q]) + 1
      /\ \A k \in 1..Len(P[q]) : Append(r[q], m)[k] = r[q][k]
      /\ Append(r[q], m)[Len(P[q]) + 1] = m
  <2>1. r[q] \in Seq(Nat) /\ Len(r[q]) = Len(P[q])
    BY <1>1
  <2> QED BY <1>1, <2>1, AppendElements
<1>4. /\ PP[q] = Append(P[q], e) /\ rr[q] = Append(r[q], m) /\ rr \in [Queue -> Seq(Nat)]
      /\ \A f \in Queue \ {q} : PP[f] = P[f] /\ rr[f] = r[f]
  BY <1>1, <1>3
<1> HIDE DEF PP, rr
<1>5. ASSUME NEW f \in Queue, NEW k \in 1..Len(PP[f])
      PROVE  \/ /\ k \in 1..Len(P[f]) /\ PP[f][k] = P[f][k] /\ rr[f][k] = r[f][k]
                /\ rr[f][k] < m
             \/ f = q /\ k = Len(P[q]) + 1 /\ PP[f][k] = e /\ rr[f][k] = m
  <2>1. CASE f # q
    BY <1>4, <2>1 DEF Ranked
  <2>2. CASE f = q
    <3>1. k \in 1..Len(P[q]) + 1 /\ PP[f] = Append(P[q], e) /\ rr[f] = Append(r[q], m)
      BY <1>2, <1>4, <2>2
    <3>2. CASE k = Len(P[q]) + 1
      BY <1>2, <1>3, <2>2, <3>1, <3>2
    <3>3. CASE k # Len(P[q]) + 1
      <4>1. k \in 1..Len(P[q])
        BY <1>2, <3>1, <3>3
      <4>2. r[q][k] < m
        BY <4>1 DEF Ranked
      <4> QED BY <1>2, <1>3, <2>2, <3>1, <4>1, <4>2
    <3> QED BY <3>2, <3>3
  <2> QED BY <2>1, <2>2
<1>6. ASSUME NEW f \in Queue
      PROVE  Len(rr[f]) = Len(PP[f])
  <2>1. CASE f = q
    BY <1>2, <1>3, <1>4, <2>1
  <2>2. CASE f # q
    BY <1>1, <1>4, <2>2
  <2> QED BY <2>1, <2>2
<1>7. ASSUME NEW f \in Queue, NEW k \in 1..Len(PP[f])
      PROVE  rr[f][k] < m + 1
  <2>1. CASE rr[f][k] = m
    BY <1>1, <2>1
  <2>2. CASE k \in 1..Len(P[f]) /\ rr[f][k] = r[f][k] /\ rr[f][k] < m
    <3>1. r[f][k] \in Nat
      BY <1>1, <2>2
    <3> QED BY <1>1, <2>2, <3>1
  <2> QED BY <1>5, <2>1, <2>2
<1>8. ASSUME NEW f \in Queue, NEW i \in 1..Len(PP[f]), NEW k \in 1..Len(PP[f]), i < k
      PROVE  rr[f][i] < rr[f][k]
  <2>1. i \in 1..Len(P[f]) /\ rr[f][i] = r[f][i] /\ rr[f][i] < m
    <3>1. ~(f = q /\ i = Len(P[q]) + 1)
      BY <1>2, <1>4, <1>8
    <3> QED BY <1>5, <3>1
  <2>2. CASE k \in 1..Len(P[f]) /\ rr[f][k] = r[f][k]
    BY <1>8, <2>1, <2>2 DEF Ranked
  <2>3. CASE rr[f][k] = m
    BY <2>1, <2>3
  <2> QED BY <1>5, <2>2, <2>3
<1>9. ASSUME NEW f \in Queue, NEW k \in 1..Len(PP[f]), PP[f][k].op = "wait"
      PROVE  LET p == PP[f][k].point
             IN  /\ p.value < NN[p.fence]
                 /\ \A i \in 1..Len(PP[p.fence]) :
                      IsSignal(PP[p.fence][i]) /\ PP[p.fence][i].value = p.value =>
                        rr[p.fence][i] < rr[f][k]
  <2>0. PICK p : p = PP[f][k].point
    OBVIOUS
  <2>1. PP[f][k] \in Command
    <3>1. CASE k \in 1..Len(P[f]) /\ PP[f][k] = P[f][k]
      BY <1>1, <3>1
    <3>2. CASE PP[f][k] = e
      BY <3>2
    <3> QED BY <1>5, <3>1, <3>2
  <2>2. p \in Point /\ p.fence \in Queue /\ p.value \in Nat
    <3>1. p \in Point
      BY <1>9, <2>0, <2>1 DEF Command
    <3> QED BY <3>1, QueuesAssumption DEF Point
  <2>3. p.value < N[p.fence]
    <3>1. CASE k \in 1..Len(P[f]) /\ PP[f][k] = P[f][k]
      BY <1>9, <2>0, <3>1 DEF Ranked, WaitsForEarlier
    <3>2. CASE PP[f][k] = e
      BY <1>9, <2>0, <3>2
    <3> QED BY <1>5, <3>1, <3>2
  <2>4. p.value < NN[p.fence]
    <3>1. N[p.fence] \in Nat /\ NN[p.fence] \in Nat /\ N[p.fence] <= NN[p.fence]
      BY <2>2
    <3> QED BY <2>2, <2>3, <3>1
  <2>5. ASSUME NEW i \in 1..Len(PP[p.fence]), IsSignal(PP[p.fence][i]), PP[p.fence][i].value = p.value
        PROVE  rr[p.fence][i] < rr[f][k]
    <3>1. PP[p.fence][i] # e \/ p.fence # q
      <4>1. p.value # N[p.fence]
        <5>1. N[p.fence] \in Nat
          BY <2>2
        <5> QED BY <2>2, <2>3, <5>1
      <4> QED BY <2>5, <4>1
    <3>2. /\ i \in 1..Len(P[p.fence]) /\ PP[p.fence][i] = P[p.fence][i]
          /\ rr[p.fence][i] = r[p.fence][i] /\ rr[p.fence][i] < m
      BY <1>5, <2>2, <3>1
    <3>3. CASE k \in 1..Len(P[f]) /\ PP[f][k] = P[f][k] /\ rr[f][k] = r[f][k]
      <4>1. WaitsForEarlier(P, N, r, f, k)
        BY <3>3 DEF Ranked
      <4>2. P[f][k].op = "wait" /\ P[f][k].point = p
        BY <1>9, <2>0, <3>3
      <4>3. P[p.fence][i].value = p.value
        BY <2>5, <3>2
      <4>4. IsSignal(P[p.fence][i])
        BY <2>5, <3>2
      <4> QED BY <3>2, <3>3, <4>1, <4>2, <4>3, <4>4 DEF WaitsForEarlier
    <3>4. CASE rr[f][k] = m
      BY <3>2, <3>4
    <3> QED BY <1>5, <3>3, <3>4
  <2> QED BY <2>0, <2>4, <2>5
<1>10. \A f \in Queue : \A k \in 1..Len(PP[f]) : WaitsForEarlier(PP, NN, rr, f, k)
  BY <1>9 DEF WaitsForEarlier
<1>11. Ranked(PP, NN, rr, m + 1)
  BY <1>1, <1>4, <1>6, <1>7, <1>8, <1>10 DEF Ranked
<1> QED BY <1>11 DEF PP, rr

\* Taking the oldest command of a queue changes no rank of the others.
LEMMA TakeRanked ==
  ASSUME NEW P \in [Queue -> Seq(Command)], NEW N, NEW r, NEW m, Ranked(P, N, r, m),
         NEW q \in Queue, P[q] # <<>>
  PROVE  Ranked([P EXCEPT ![q] = Tail(@)], N, [r EXCEPT ![q] = Tail(@)], m)
<1> DEFINE PP == [P EXCEPT ![q] = Tail(@)]
           rr == [r EXCEPT ![q] = Tail(@)]
           back(f, k) == IF f = q THEN k + 1 ELSE k
<1>1. /\ r \in [Queue -> Seq(Nat)] /\ m \in Nat
      /\ \A f \in Queue : Len(r[f]) = Len(P[f]) /\ P[f] \in Seq(Command) /\ r[f] \in Seq(Nat)
  BY DEF Ranked
<1>2. /\ Len(Tail(P[q])) = Len(P[q]) - 1 /\ Len(P[q]) \in Nat
      /\ \A k \in 1..Len(P[q]) - 1 : Tail(P[q])[k] = P[q][k + 1]
  BY TailElements
<1>3. /\ Tail(r[q]) \in Seq(Nat) /\ Len(Tail(r[q])) = Len(P[q]) - 1
      /\ \A k \in 1..Len(P[q]) - 1 : Tail(r[q])[k] = r[q][k + 1]
  <2>1. r[q] \in Seq(Nat) /\ Len(r[q]) = Len(P[q]) /\ r[q] # <<>>
    BY <1>1
  <2> QED BY <2>1, TailElements
<1>4. /\ PP[q] = Tail(P[q]) /\ rr[q] = Tail(r[q]) /\ rr \in [Queue -> Seq(Nat)]
      /\ \A f \in Queue \ {q} : PP[f] = P[f] /\ rr[f] = r[f]
  BY <1>1, <1>3
<1> HIDE DEF PP, rr
<1>5. ASSUME NEW f \in Queue, NEW k \in 1..Len(PP[f])
      PROVE  back(f, k) \in 1..Len(P[f]) /\ PP[f][k] = P[f][back(f, k)] /\ rr[f][k] = r[f][back(f, k)]
  <2>1. CASE f = q
    <3>1. k \in 1..Len(P[q]) - 1 /\ k + 1 \in 1..Len(P[q])
      BY <1>2, <1>4, <2>1
    <3> QED BY <1>2, <1>3, <1>4, <2>1, <3>1
  <2>2. CASE f # q
    BY <1>4, <2>2
  <2> QED BY <2>1, <2>2
<1>6. \A f \in Queue : \A i, k \in Nat : i < k => back(f, i) < back(f, k)
  OBVIOUS
<1> HIDE DEF back
<1>7. ASSUME NEW f \in Queue PROVE Len(rr[f]) = Len(PP[f])
  <2>1. CASE f = q
    BY <1>2, <1>3, <1>4, <2>1
  <2>2. CASE f # q
    BY <1>1, <1>4, <2>2
  <2> QED BY <2>1, <2>2
<1>8. ASSUME NEW f \in Queue, NEW k \in 1..Len(PP[f])
      PROVE  rr[f][k] < m
  BY <1>5 DEF Ranked
<1>9. ASSUME NEW f \in Queue, NEW i \in 1..Len(PP[f]), NEW k \in 1..Len(PP[f]), i < k
      PROVE  rr[f][i] < rr[f][k]
  <2>1. back(f, i) < back(f, k)
    BY <1>6, <1>9
  <2> QED BY <1>5, <2>1 DEF Ranked
<1>10. ASSUME NEW f \in Queue, NEW k \in 1..Len(PP[f]) PROVE WaitsForEarlier(PP, N, rr, f, k)
  <2> SUFFICES ASSUME PP[f][k].op = "wait"
               PROVE  LET p == PP[f][k].point
                      IN  /\ p.value < N[p.fence]
                          /\ \A i \in 1..Len(PP[p.fence]) :
                               IsSignal(PP[p.fence][i]) /\ PP[p.fence][i].value = p.value =>
                                 rr[p.fence][i] < rr[f][k]
    BY DEF WaitsForEarlier
  <2> DEFINE p == PP[f][k].point
  <2>1. back(f, k) \in 1..Len(P[f]) /\ PP[f][k] = P[f][back(f, k)] /\ rr[f][k] = r[f][back(f, k)]
    BY <1>5
  <2>2. WaitsForEarlier(P, N, r, f, back(f, k)) /\ P[f][back(f, k)] \in Command
    BY <1>1, <2>1 DEF Ranked
  <2>3. p.fence \in Queue
    <3>1. p \in Point
      BY <2>1, <2>2 DEF Command
    <3> QED BY <3>1 DEF Point
  <2>4. P[f][back(f, k)].op = "wait" /\ P[f][back(f, k)].point = p
    BY <2>1
  <2> HIDE DEF p
  <2>5. p.value < N[p.fence]
    BY <2>2, <2>4 DEF WaitsForEarlier
  <2>6. ASSUME NEW i \in 1..Len(PP[p.fence]), IsSignal(PP[p.fence][i]), PP[p.fence][i].value = p.value
        PROVE  rr[p.fence][i] < rr[f][k]
    <3>1. /\ back(p.fence, i) \in 1..Len(P[p.fence])
          /\ PP[p.fence][i] = P[p.fence][back(p.fence, i)]
          /\ rr[p.fence][i] = r[p.fence][back(p.fence, i)]
      BY <1>5, <2>3
    <3>2. IsSignal(P[p.fence][back(p.fence, i)]) /\ P[p.fence][back(p.fence, i)].value = p.value
      BY <2>6, <3>1 DEF IsSignal
    <3> QED BY <2>1, <2>2, <2>4, <3>1, <3>2 DEF WaitsForEarlier
  <2> QED BY <2>5, <2>6 DEF p
<1>11. Ranked(PP, N, rr, m)
  BY <1>1, <1>4, <1>7, <1>8, <1>9, <1>10 DEF Ranked
<1> QED BY <1>11 DEF PP, rr

LEMMA OrderlyStep ==
  ASSUME QueuesInv, Orderly, [Next]_vars
  PROVE  Orderly'
<1> SUFFICES ASSUME ~FutureWaits PROVE \E r, m : Ranked(pending', next', r, m)
  BY DEF Orderly
<1>1. PICK r, m : Ranked(pending, next, r, m)
  BY DEF Orderly
<1>2. /\ pending \in [Queue -> Seq(Command)] /\ next \in [Queue -> Nat]
      /\ \A q \in Queue : next[q] \in 1..MaxSignals + 1
  BY QueuesAssumption DEF QueuesInv, TypeOK
<1>3. ASSUME NEW q \in Queue, next[q] <= MaxSignals
      PROVE  /\ SignalCmd(next[q]) \in Command /\ IsSignal(SignalCmd(next[q]))
             /\ SignalCmd(next[q]).op # "wait" /\ SignalCmd(next[q]).value = next[q]
             /\ [next EXCEPT ![q] = @ + 1] \in [Queue -> Nat]
             /\ \A f \in Queue : next[f] <= [next EXCEPT ![q] = @ + 1][f]
  <2>1. next[q] \in 1..MaxSignals
    BY <1>2, <1>3, QueuesAssumption
  <2> QED BY <1>2, <2>1 DEF SignalCmd, Command, IsSignal
\* Sending a signal.
<1>4. ASSUME NEW q \in Queue, next[q] <= MaxSignals
      PROVE  \E s, n : Ranked([pending EXCEPT ![q] = Append(@, SignalCmd(next[q]))],
                              [next EXCEPT ![q] = @ + 1], s, n)
  <2> DEFINE e == SignalCmd(next[q])
             N == [next EXCEPT ![q] = @ + 1]
  <2>1. /\ e \in Command /\ IsSignal(e) /\ e.op # "wait" /\ e.value = next[q]
        /\ N \in [Queue -> Nat] /\ \A f \in Queue : next[f] <= N[f]
    BY <1>3, <1>4
  <2> HIDE DEF e, N
  <2>2. Ranked([pending EXCEPT ![q] = Append(@, e)], N, [r EXCEPT ![q] = Append(@, m)], m + 1)
    BY <1>1, <1>2, <2>1, SendRanked
  <2> QED BY <2>2 DEF e, N
<1>5. ASSUME NEW q \in Queue, Call(q)
      PROVE  \E s, n : Ranked(pending', next', s, n)
  <2>1. CASE CallSignal(q) \/ FlushQueue(q) \/ Destroy(q)
    <3>1. /\ next[q] <= MaxSignals /\ next' = [next EXCEPT ![q] = @ + 1]
          /\ pending' = [pending EXCEPT ![q] = Append(@, SignalCmd(next[q]))]
      BY <2>1 DEF CallSignal, FlushQueue, Destroy, StartFlush, Signalled
    <3> QED BY <1>4, <3>1
  <2>2. ASSUME NEW j \in Job, ExecuteCommandList(q, j)
        PROVE  \E s, n : Ranked(pending', next', s, n)
    <3> DEFINE e == RunCmd(j)
    <3>1. e \in Command /\ ~IsSignal(e) /\ e.op # "wait"
      BY DEF RunCmd, Command, IsSignal
    <3>2. pending' = [pending EXCEPT ![q] = Append(@, e)] /\ next' = next
      BY <2>2 DEF ExecuteCommandList
    <3> HIDE DEF e
    <3>3. \A f \in Queue : next[f] <= next[f]
      BY <1>2
    <3>4. Ranked([pending EXCEPT ![q] = Append(@, e)], next, [r EXCEPT ![q] = Append(@, m)], m + 1)
      BY <1>1, <1>2, <3>1, <3>3, SendRanked
    <3> QED BY <3>2, <3>4
  <2>3. ASSUME NEW f \in Queue, NEW p \in Known(f), WaitOnFenceGPU(q, p)
        PROVE  \E s, n : Ranked(pending', next', s, n)
    <3> DEFINE e == WaitCmd(p)
    <3>1. p \in Point /\ p.fence = f /\ p.value < next[f]
      BY DEF Known
    <3>2. e \in Command /\ ~IsSignal(e) /\ e.point = p
      BY <3>1 DEF WaitCmd, Command, IsSignal
    <3>3. pending' = [pending EXCEPT ![q] = Append(@, e)] /\ next' = next
      BY <2>3 DEF WaitOnFenceGPU
    <3> HIDE DEF e
    <3>4. \A g \in Queue : next[g] <= next[g]
      BY <1>2
    <3>5. Ranked([pending EXCEPT ![q] = Append(@, e)], next, [r EXCEPT ![q] = Append(@, m)], m + 1)
      BY <1>1, <1>2, <3>1, <3>2, <3>4, SendRanked
    <3> QED BY <3>3, <3>5
  <2>4. ASSUME NEW other \in Queue, SyncWithQueue(q, other)
        PROVE  \E s, n : Ranked(pending', next', s, n)
    <3> DEFINE P == [pending EXCEPT ![other] = Append(@, SignalCmd(next[other]))]
               N == [next EXCEPT ![other] = @ + 1]
               e == WaitCmd(NewPoint(other))
    <3>1. next[other] <= MaxSignals /\ next' = N /\ pending' = [P EXCEPT ![q] = Append(@, e)]
      BY <2>4 DEF SyncWithQueue, Signalled
    <3>2. PICK s, n : Ranked(P, N, s, n)
      BY <1>4, <3>1
    <3>3. NewPoint(other) \in Point /\ NewPoint(other).fence = other /\ NewPoint(other).value = next[other]
      BY PointFacts DEF QueuesInv
    <3>4. /\ e \in Command /\ ~IsSignal(e) /\ e.point \in Point /\ e.point.fence = other
          /\ e.point.value = next[other]
      BY <3>3 DEF WaitCmd, Command, IsSignal
    <3>5. /\ P \in [Queue -> Seq(Command)] /\ N \in [Queue -> Nat]
          /\ N[other] = next[other] + 1
      BY <1>2, <1>3, <3>1, AppendElements
    <3> HIDE DEF P, N, e
    <3>6. \A g \in Queue : N[g] <= N[g]
      BY <3>5
    <3>7. e.point.value < N[e.point.fence]
      BY <1>2, <3>4, <3>5
    <3>8. Ranked([P EXCEPT ![q] = Append(@, e)], N, [s EXCEPT ![q] = Append(@, n)], n + 1)
      BY <3>2, <3>4, <3>5, <3>6, <3>7, SendRanked
    <3> QED BY <3>1, <3>8
  <2>5. ASSUME NEW p, NEW timed, HasFencePointBeenReached(q, p) \/ WaitOnFenceCPU(q, p, timed)
        PROVE  \E s, n : Ranked(pending', next', s, n)
    BY <1>1, <2>5 DEF HasFencePointBeenReached, WaitOnFenceCPU
  <2> QED BY <1>5, <2>1, <2>2, <2>3, <2>4, <2>5 DEF Call
<1>6. ASSUME NEW q \in Queue, GpuStep(q) PROVE \E s, n : Ranked(pending', next', s, n)
  <2>1. pending[q] # <<>> /\ pending' = [pending EXCEPT ![q] = Tail(@)] /\ next' = next
    BY <1>6 DEF GpuStep, GpuSignal, GpuWait, GpuRun, Ready
  <2>2. Ranked([pending EXCEPT ![q] = Tail(@)], next, [r EXCEPT ![q] = Tail(@)], m)
    BY <1>1, <1>2, <2>1, TakeRanked
  <2> QED BY <2>1, <2>2
<1>7. CASE WaitReturns \/ WaitTimesOut \/ UNCHANGED vars
  BY <1>1, <1>7 DEF WaitReturns, WaitTimesOut, vars
<1> QED BY <1>5, <1>6, <1>7 DEF Next, Terminated

\* A set of naturals that is not empty has a least member.
LEMMA LeastNatural ==
  ASSUME NEW T, T \subseteq Nat, T # {}
  PROVE  \E x \in T : \A y \in T : x <= y
<1> DEFINE Less == {w \in Nat \X Nat : w[1] < w[2]}
<1>1. IsWellFoundedOn(Less, Nat)
  BY NatLessThanWellFounded DEF OpToRel, IsWellFoundedOn
<1>2. PICK x \in T : \A y \in T : ~(<<y, x>> \in Less)
  BY <1>1, WFMin, Zenon
<1>3. ASSUME NEW y \in T PROVE ~(y < x)
  <2>1. <<y, x>> \in Nat \X Nat /\ <<y, x>>[1] = y /\ <<y, x>>[2] = x
    OBVIOUS
  <2> QED BY <1>2, <2>1
<1>4. \A y \in T : y \in Nat /\ x \in Nat
  OBVIOUS
<1> QED BY <1>3, <1>4

\* Fence points signalled before they are waited for keep the queues going: the oldest of
\* all pending commands can always be carried out.
THEOREM QueuesNeverStuck == Spec => []NeverStuck
<1>1. Init => Orderly
  <2> SUFFICES ASSUME Init PROVE \E r, m : Ranked(pending, next, r, m)
    BY DEF Orderly
  <2>1. Ranked(pending, next, [q \in Queue |-> <<>>], 0)
    BY DEF Ranked, Init
  <2> QED BY <2>1
<1>2. QueuesInv /\ Orderly /\ [Next]_vars => Orderly'
  BY OrderlyStep
<1>3. ASSUME QueuesInv, Orderly PROVE NeverStuck
  <2> SUFFICES ASSUME ~FutureWaits, NEW q0 \in Queue, pending[q0] # <<>>, \A q \in Queue : ~Ready(q)
               PROVE  FALSE
    BY DEF NeverStuck
  <2>1. PICK r, m : Ranked(pending, next, r, m)
    BY <1>3 DEF Orderly
  <2>2. /\ \A q \in Queue : pending[q] \in Seq(Command) /\ completed[q] \in Nat
        /\ \A q \in Queue : SignalsIn(pending[q], next[q], completed[q])
        /\ \A q \in Queue : r[q] \in Seq(Nat) /\ Len(r[q]) = Len(pending[q])
    BY <1>3, <2>1 DEF QueuesInv, TypeOK, History, Consistent, Numbered, Ranked
  <2> DEFINE Busy == {q \in Queue : pending[q] # <<>>}
             T == {r[q][1] : q \in Busy}
  <2>3. \A q \in Busy : 1 \in 1..Len(pending[q]) /\ r[q][1] \in Nat
    BY <2>2
  <2>4. T \subseteq Nat /\ T # {}
    BY <2>3
  <2>5. PICK q \in Busy : \A f \in Busy : r[q][1] <= r[f][1]
    <3> HIDE DEF T
    <3>1. PICK x \in T : \A y \in T : x <= y
      BY <2>4, LeastNatural
    <3> QED BY <3>1 DEF T
  <2> DEFINE p == Head(pending[q]).point
  <2>6. /\ Head(pending[q]).op = "wait" /\ ~(completed[p.fence] >= p.value)
        /\ Head(pending[q]) = pending[q][1] /\ pending[q][1] \in Command
    BY <2>2, <2>3, <2>5 DEF Ready
  <2>7. p \in Point /\ p.fence \in Queue /\ p.value \in Nat
    <3>1. p \in Point
      BY <2>6 DEF Command
    <3> QED BY <3>1, QueuesAssumption DEF Point
  <2>8. pending[q][1].op = "wait" /\ pending[q][1].point = p
    BY <2>6
  <2> HIDE DEF p
  <2>9. WaitsForEarlier(pending, next, r, q, 1)
    BY <2>1, <2>3 DEF Ranked
  <2>10. p.value \in completed[p.fence] + 1..next[p.fence] - 1
    <3>1. p.value < next[p.fence] /\ next[p.fence] \in Nat
      BY <2>2, <2>7, <2>8, <2>9 DEF WaitsForEarlier, SignalsIn
    <3> QED BY <2>2, <2>6, <2>7, <3>1
  <2>11. PICK i \in 1..Len(pending[p.fence]) :
           IsSignal(pending[p.fence][i]) /\ pending[p.fence][i].value = p.value
    BY <2>2, <2>7, <2>10 DEF SignalsIn
  <2>12. r[p.fence][i] < r[q][1]
    BY <2>8, <2>9, <2>11 DEF WaitsForEarlier
  <2>13. p.fence \in Busy
    BY <2>2, <2>7, <2>11
  <2>14. r[p.fence][1] <= r[p.fence][i]
    <3>1. CASE i = 1
      BY <2>3, <2>13, <3>1
    <3>2. CASE i # 1
      <4>1. 1 < i /\ r[p.fence][i] \in Nat
        BY <2>2, <2>7, <2>11, <3>2
      <4>2. r[p.fence][1] < r[p.fence][i]
        BY <2>1, <2>3, <2>7, <2>11, <2>13, <4>1 DEF Ranked
      <4> QED BY <2>3, <2>13, <4>1, <4>2
    <3> QED BY <3>1, <3>2
  <2>15. r[p.fence][i] \in Nat /\ r[p.fence][1] \in Nat /\ r[q][1] \in Nat
    <3>1. r[p.fence] \in Seq(Nat) /\ i \in 1..Len(r[p.fence])
      BY <2>2, <2>7, <2>11
    <3>2. r[p.fence][1] \in Nat /\ r[q][1] \in Nat
      BY <2>3, <2>5, <2>13, Zenon
    <3> QED BY <3>1, <3>2
  <2>16. r[q][1] <= r[p.fence][1]
    BY <2>5, <2>13
  <2> QED BY <2>12, <2>14, <2>15, <2>16
<1> QED BY <1>1, <1>2, <1>3, QueuesInvariant, PTL DEF Spec

-----------------------------------------------------------------------------
(* Every queue is a timeline of GpuTimeline. *)

\* What TimelineOf reads of one queue with commands p, next value n, completed value c.
SignalsAfter(p, k) == {i \in k..Len(p) : p[i].op = "signal"}
RunsOf(p) == {k \in DOMAIN p : p[k].op = "run"}
Mark(p, n, k) == n - Cardinality(SignalsAfter(p, k))
WorkOf(p, n) == {[job |-> p[k].job, mark |-> Mark(p, n, k)] : k \in RunsOf(p)}
Line(p, n, c) == [next |-> n, completed |-> c, work |-> WorkOf(p, n)]

LEMMA LineFields ==
  ASSUME NEW p, NEW n, NEW c
  PROVE  /\ Line(p, n, c).next = n /\ Line(p, n, c).completed = c
         /\ Line(p, n, c).work = WorkOf(p, n)
BY DEF Line

\* GpuTimeline's operations on such a line.
LEMMA LineSignal ==
  ASSUME NEW p, NEW n \in Nat, NEW c
  PROVE  Signal(Line(p, n, c)) = [next |-> n + 1, completed |-> c, work |-> WorkOf(p, n)]
BY DEF Line, Signal

LEMMA LineAdvance ==
  ASSUME NEW p, NEW n, NEW c \in Nat
  PROVE  Advance(Line(p, n, c)) = [next |-> n, completed |-> c + 1, work |-> WorkOf(p, n)]
BY DEF Line, Advance

LEMMA LineWork ==
  ASSUME NEW p, NEW n, NEW c, NEW W
  PROVE  [Line(p, n, c) EXCEPT !.work = W] = [next |-> n, completed |-> c, work |-> W]
BY DEF Line

LEMMA LineExecute ==
  ASSUME NEW p, NEW n, NEW c, NEW j, NEW W, W = WorkOf(p, n) \cup {[job |-> j, mark |-> n]}
  PROVE  Execute(Line(p, n, c), j) = [next |-> n, completed |-> c, work |-> W]
<1> DEFINE V == Line(p, n, c).work \cup {[job |-> j, mark |-> Line(p, n, c).next]}
<1>1. V = W
  BY LineFields
<1>2. Execute(Line(p, n, c), j) = [Line(p, n, c) EXCEPT !.work = V]
  BY DEF Execute
<1> HIDE DEF V
<1>3. [Line(p, n, c) EXCEPT !.work = V] = [next |-> n, completed |-> c, work |-> V]
  BY LineWork
<1> QED BY <1>1, <1>2, <1>3, Zenon

LEMMA LineFinish ==
  ASSUME NEW p, NEW n, NEW c, NEW w, NEW W, W = WorkOf(p, n) \ {w}
  PROVE  Finish(Line(p, n, c), w) = [next |-> n, completed |-> c, work |-> W]
<1> DEFINE V == Line(p, n, c).work \ {w}
<1>1. V = W
  BY LineFields
<1>2. Finish(Line(p, n, c), w) = [Line(p, n, c) EXCEPT !.work = V]
  BY DEF Finish
<1> HIDE DEF V
<1>3. [Line(p, n, c) EXCEPT !.work = V] = [next |-> n, completed |-> c, work |-> V]
  BY LineWork
<1> QED BY <1>1, <1>2, <1>3, Zenon

\* QueueTimelines speaks of the same operations.
LEMMA SameOperations ==
  ASSUME NEW t
  PROVE  /\ Timelines!Signal(t) = Signal(t)
         /\ Timelines!Advance(t) = Advance(t) /\ (Timelines!CanAdvance(t) <=> CanAdvance(t))
         /\ \A j : Timelines!Execute(t, j) = Execute(t, j)
         /\ \A w : Timelines!Finish(t, w) = Finish(t, w) /\ (Timelines!CanFinish(t, w) <=> CanFinish(t, w))
BY DEF Timelines!Signal, Signal, Timelines!Advance, Advance, Timelines!CanAdvance, CanAdvance,
       Timelines!Execute, Execute, Timelines!Finish, Finish, Timelines!CanFinish, CanFinish

LEMMA TimelineIsLine ==
  ASSUME NEW q \in Queue
  PROVE  TimelineOf(q) = Line(pending[q], next[q], completed[q])
BY DEF TimelineOf, Line, WorkOf, Mark, RunsOf, SignalsAfter

\* A set of indices shifted by one has as many members.
LEMMA ShiftKeepsCardinality ==
  ASSUME NEW S, S \subseteq Nat, IsFiniteSet(S), NEW T, T = {i - 1 : i \in S}
  PROVE  IsFiniteSet(T) /\ Cardinality(T) = Cardinality(S)
<1> DEFINE f == [i \in S |-> i - 1]
<1>1. f \in [S -> T] /\ \A i \in S : f[i] = i - 1
  OBVIOUS
<1> HIDE DEF f
<1>2. \A i, k \in S : f[i] = f[k] => i = k
  BY <1>1
<1>3. \A t \in T : \E i \in S : f[i] = t
  BY <1>1
<1>4. f \in Bijection(S, T)
  BY <1>1, <1>2, <1>3 DEF Bijection, Injection, IsInjective, Surjection
<1> QED BY <1>4, FS_Bijection DEF ExistsBijection

LEMMA SignalsFinite ==
  ASSUME NEW p \in Seq(Command), NEW k \in Nat
  PROVE  IsFiniteSet(SignalsAfter(p, k)) /\ Cardinality(SignalsAfter(p, k)) \in Nat
<1>1. Len(p) \in Nat /\ SignalsAfter(p, k) \in SUBSET (k..Len(p))
  BY DEF SignalsAfter
<1>2. IsFiniteSet(k..Len(p))
  BY <1>1, FS_Interval
<1>3. IsFiniteSet(SignalsAfter(p, k))
  BY <1>1, <1>2, FS_Subset
<1> QED BY <1>3, FS_CardinalityType

\* As many signals are pending as values were handed out and not reached.
LEMMA SignalsCounted ==
  ASSUME NEW p, NEW n, NEW c, SignalsIn(p, n, c)
  PROVE  Cardinality(SignalsAfter(p, 1)) = n - 1 - c
<1> DEFINE S == SignalsAfter(p, 1)
           f == [k \in S |-> p[k].value]
<1>1. p \in Seq(Command) /\ n \in Nat /\ c \in Nat /\ c < n
  BY DEF SignalsIn
<1>2. S = {k \in 1..Len(p) : IsSignal(p[k])}
  BY DEF SignalsAfter, IsSignal
<1>3. IsFiniteSet(S)
  BY <1>1, SignalsFinite
<1> HIDE DEF S
<1>4. \A k \in S : p[k].value \in c + 1..n - 1
  BY <1>2 DEF SignalsIn
<1>5. f \in [S -> c + 1..n - 1] /\ \A k \in S : f[k] = p[k].value
  BY <1>4
<1> HIDE DEF f
<1>6. ASSUME NEW i \in S, NEW k \in S, f[i] = f[k] PROVE i = k
  <2>1. i \in 1..Len(p) /\ k \in 1..Len(p) /\ IsSignal(p[i]) /\ IsSignal(p[k])
    BY <1>2
  <2>2. p[i].value \in Int /\ p[k].value \in Int /\ p[i].value = p[k].value
    BY <1>4, <1>5, <1>6
  <2>3. ~(i < k)
    <3> SUFFICES ASSUME i < k PROVE FALSE
      OBVIOUS
    <3>1. p[i].value < p[k].value
      BY <2>1 DEF SignalsIn
    <3> QED BY <2>2, <3>1
  <2>4. ~(k < i)
    <3> SUFFICES ASSUME k < i PROVE FALSE
      OBVIOUS
    <3>1. p[k].value < p[i].value
      BY <2>1 DEF SignalsIn
    <3> QED BY <2>2, <3>1
  <2> QED BY <2>1, <2>3, <2>4
<1>7. ASSUME NEW v \in c + 1..n - 1 PROVE \E k \in S : f[k] = v
  <2>1. PICK k \in 1..Len(p) : IsSignal(p[k]) /\ p[k].value = v
    BY DEF SignalsIn
  <2> QED BY <1>2, <1>5, <2>1
<1>8. f \in Bijection(S, c + 1..n - 1)
  BY <1>5, <1>6, <1>7 DEF Bijection, Injection, IsInjective, Surjection
<1>9. Cardinality(c + 1..n - 1) = Cardinality(S)
  BY <1>3, <1>8, FS_Bijection DEF ExistsBijection
<1>10. c + 1 \in Int /\ n - 1 \in Int
  BY <1>1
<1>11. Cardinality(c + 1..n - 1) = IF c + 1 > n - 1 THEN 0 ELSE (n - 1) - (c + 1) + 1
  BY <1>10, FS_Interval
<1> QED BY <1>1, <1>9, <1>11 DEF S

\* What sending a command changes: signals count for all that is pending, a job joins
\* behind them all, and a wait does not show.
LEMMA LineSent ==
  ASSUME NEW p \in Seq(Command), NEW n \in Nat, NEW c \in Nat, NEW e \in Command
  PROVE  /\ e.op = "signal" => Line(Append(p, e), n + 1, c) = Signal(Line(p, n, c))
         /\ e.op = "wait" => Line(Append(p, e), n, c) = Line(p, n, c)
         /\ e.op = "run" => Line(Append(p, e), n, c) = Execute(Line(p, n, c), e.job)
<1> DEFINE u == Append(p, e)
           L == Len(p)
<1>1. /\ u \in Seq(Command) /\ Len(u) = L + 1 /\ L \in Nat
      /\ \A k \in 1..L : u[k] = p[k]
      /\ u[L + 1] = e
  BY AppendElements
<1>2. DOMAIN p = 1..L /\ DOMAIN u = 1..L + 1
  BY <1>1
<1> HIDE DEF u, L
<1>3. \A k \in 1..L : k..L + 1 = (k..L) \cup {L + 1} /\ \A i \in k..L : i \in 1..L
  BY <1>1
<1>4. ASSUME NEW k \in 1..L
      PROVE  SignalsAfter(u, k) = IF e.op = "signal" THEN SignalsAfter(p, k) \cup {L + 1}
                                                     ELSE SignalsAfter(p, k)
  BY <1>1, <1>3 DEF SignalsAfter, L
<1>5. ASSUME NEW k \in 1..L
      PROVE  /\ e.op = "signal" => Mark(u, n + 1, k) = Mark(p, n, k)
             /\ e.op # "signal" => Mark(u, n, k) = Mark(p, n, k)
  <2>1. IsFiniteSet(SignalsAfter(p, k)) /\ Cardinality(SignalsAfter(p, k)) \in Nat
    <3>1. k \in Nat
      BY <1>1
    <3> QED BY <3>1, SignalsFinite
  <2>2. L + 1 \notin SignalsAfter(p, k)
    BY <1>1 DEF SignalsAfter, L
  <2>3. CASE e.op = "signal"
    <3>1. Cardinality(SignalsAfter(u, k)) = Cardinality(SignalsAfter(p, k)) + 1
      BY <1>4, <2>1, <2>2, <2>3, FS_AddElement
    <3> QED BY <2>1, <2>3, <3>1 DEF Mark
  <2>4. CASE e.op # "signal"
    BY <1>4, <2>4 DEF Mark
  <2> QED BY <2>3, <2>4
<1>6. RunsOf(p) \subseteq 1..L /\ RunsOf(u) = IF e.op = "run" THEN RunsOf(p) \cup {L + 1} ELSE RunsOf(p)
  BY <1>1, <1>2 DEF RunsOf
<1>7. CASE e.op = "signal"
  <2>1. WorkOf(u, n + 1) = WorkOf(p, n)
    BY <1>1, <1>5, <1>6, <1>7 DEF WorkOf
  <2>2. Line(u, n + 1, c) = Signal(Line(p, n, c))
    BY <2>1, LineSignal DEF Line
  <2> QED BY <1>7, <2>2 DEF u
<1>8. CASE e.op = "wait"
  <2>1. WorkOf(u, n) = WorkOf(p, n)
    BY <1>1, <1>5, <1>6, <1>8 DEF WorkOf
  <2> QED BY <1>8, <2>1 DEF Line, u
<1>9. CASE e.op = "run"
  <2>1. Mark(u, n, L + 1) = n
    <3>1. SignalsAfter(u, L + 1) = {}
      BY <1>1, <1>9 DEF SignalsAfter
    <3>2. Cardinality(SignalsAfter(u, L + 1)) = 0
      BY <3>1, FS_EmptySet
    <3> QED BY <3>2 DEF Mark
  <2>2. WorkOf(u, n) = WorkOf(p, n) \cup {[job |-> e.job, mark |-> n]}
    BY <1>1, <1>5, <1>6, <1>9, <2>1 DEF WorkOf
  <2> DEFINE W == WorkOf(u, n)
  <2> HIDE DEF W
  <2>3. Execute(Line(p, n, c), e.job) = [next |-> n, completed |-> c, work |-> W]
    <3>1. W = WorkOf(p, n) \cup {[job |-> e.job, mark |-> n]}
      BY <2>2 DEF W
    <3> QED BY <3>1, LineExecute
  <2>4. Line(u, n, c) = Execute(Line(p, n, c), e.job)
    BY <2>3, Zenon DEF Line, W
  <2> QED BY <1>9, <2>4 DEF u
<1> QED BY <1>7, <1>8, <1>9 DEF u

\* No job is pending twice in a queue.
JobsOnce(p) ==
  \A i, k \in 1..Len(p) : p[i].op = "run" /\ p[k].op = "run" /\ p[i].job = p[k].job => i = k

\* What taking the oldest command changes: a signal may be reached, for no work is left
\* before it, a job is the work that goes first, and a wait does not show.
LEMMA LineTaken ==
  ASSUME NEW p, NEW n, NEW c, SignalsIn(p, n, c), p # <<>>, JobsOnce(p)
  PROVE  LET head == Head(p)
             line == Line(p, n, c)
         IN  /\ head.op = "signal" =>
                  /\ CanAdvance(line)
                  /\ Line(Tail(p), n, c + 1) = Advance(line)
             /\ head.op = "wait" => Line(Tail(p), n, c) = line
             /\ head.op = "run" =>
                  \E w \in line.work : /\ CanFinish(line, w)
                                       /\ Line(Tail(p), n, c) = Finish(line, w)
<1> DEFINE u == Tail(p)
           L == Len(p)
<1>1. p \in Seq(Command) /\ n \in Nat /\ c \in Nat /\ c < n
  BY DEF SignalsIn
<1>2. /\ u \in Seq(Command) /\ Len(u) = L - 1 /\ L \in Nat /\ L >= 1
      /\ \A k \in 1..L - 1 : u[k] = p[k + 1]
      /\ Head(p) = p[1]
  BY <1>1, TailElements
<1>3. DOMAIN p = 1..L /\ DOMAIN u = 1..L - 1
  BY <1>1, <1>2
<1> HIDE DEF u, L
<1>4. ASSUME NEW k \in 1..L - 1 PROVE Mark(u, n, k) = Mark(p, n, k + 1)
  <2>1. SignalsAfter(u, k) = {i - 1 : i \in SignalsAfter(p, k + 1)}
    <3>1. ASSUME NEW i \in SignalsAfter(u, k)
          PROVE  i + 1 \in SignalsAfter(p, k + 1) /\ i = (i + 1) - 1
      BY <1>2, <3>1 DEF SignalsAfter, L
    <3>2. ASSUME NEW i \in SignalsAfter(p, k + 1) PROVE i - 1 \in SignalsAfter(u, k)
      <4>1. i \in k + 1..L /\ p[i].op = "signal" /\ i - 1 \in k..L - 1 /\ (i - 1) + 1 = i
        BY <1>2 DEF SignalsAfter, L
      <4> QED BY <1>2, <4>1 DEF SignalsAfter
    <3> QED BY <3>1, <3>2
  <2>2. k + 1 \in Nat /\ SignalsAfter(p, k + 1) \subseteq Nat
    BY <1>2 DEF SignalsAfter
  <2>3. IsFiniteSet(SignalsAfter(p, k + 1))
    BY <1>1, <2>2, SignalsFinite
  <2> QED BY <2>1, <2>2, <2>3, ShiftKeepsCardinality DEF Mark
<1>5. ASSUME NEW k \in 1..L
      PROVE  /\ Mark(p, n, k) \in Int /\ Mark(p, n, k) >= c + 1
             /\ k # 1 /\ p[1].op = "signal" => Mark(p, n, k) > c + 1
  <2>1. /\ IsFiniteSet(SignalsAfter(p, 1)) /\ Cardinality(SignalsAfter(p, 1)) = n - 1 - c
    BY <1>1, SignalsFinite, SignalsCounted
  <2>2. k \in Nat /\ SignalsAfter(p, k) \in SUBSET SignalsAfter(p, 1)
    BY <1>2 DEF SignalsAfter, L
  <2>3. Cardinality(SignalsAfter(p, k)) \in Nat /\ Cardinality(SignalsAfter(p, k)) <= n - 1 - c
    BY <1>1, <2>1, <2>2, SignalsFinite, FS_Subset
  <2>4. ASSUME k # 1, p[1].op = "signal" PROVE Cardinality(SignalsAfter(p, k)) <= n - 2 - c
    <3>1. 1 \in SignalsAfter(p, 1) /\ 1 \notin SignalsAfter(p, k)
      BY <1>2, <2>4 DEF SignalsAfter, L
    <3>2. SignalsAfter(p, k) # SignalsAfter(p, 1)
      BY <3>1
    <3>3. Cardinality(SignalsAfter(p, k)) # Cardinality(SignalsAfter(p, 1))
      BY <2>1, <2>2, <3>2, FS_Subset
    <3> QED BY <1>1, <2>1, <2>3, <3>3
  <2> QED BY <1>1, <2>3, <2>4 DEF Mark
<1>6. RunsOf(p) \subseteq 1..L /\ RunsOf(u) = {k \in 1..L - 1 : p[k + 1].op = "run"}
  BY <1>2, <1>3 DEF RunsOf
<1>7. ASSUME p[1].op # "run" PROVE WorkOf(u, n) = WorkOf(p, n)
  <2>1. ASSUME NEW k \in RunsOf(u)
        PROVE  /\ k + 1 \in RunsOf(p) /\ u[k].job = p[k + 1].job /\ Mark(u, n, k) = Mark(p, n, k + 1)
    BY <1>2, <1>3, <1>4, <1>6 DEF RunsOf
  <2>2. ASSUME NEW k \in RunsOf(p)
        PROVE  /\ k - 1 \in RunsOf(u) /\ u[k - 1].job = p[k].job /\ Mark(u, n, k - 1) = Mark(p, n, k)
    <3>1. k \in 1..L /\ p[k].op = "run" /\ k # 1
      BY <1>3, <1>7 DEF RunsOf
    <3>2. k - 1 \in 1..L - 1 /\ (k - 1) + 1 = k
      BY <1>2, <3>1
    <3> QED BY <1>2, <1>4, <1>6, <3>1, <3>2
  <2> QED BY <2>1, <2>2 DEF WorkOf
<1>8. CASE p[1].op = "signal"
  <2>1. Line(u, n, c + 1) = Advance(Line(p, n, c))
    BY <1>1, <1>7, <1>8, LineAdvance DEF Line
  <2>2. c + 1 < n
    BY <1>1, <1>2, <1>8, SignalsTailSignal DEF IsSignal
  <2>3. ASSUME NEW w \in WorkOf(p, n) PROVE w.mark > c + 1
    <3>1. PICK k \in RunsOf(p) : w = [job |-> p[k].job, mark |-> Mark(p, n, k)]
      BY DEF WorkOf
    <3>2. k \in 1..L /\ k # 1
      BY <1>3, <1>8 DEF RunsOf
    <3> QED BY <1>5, <1>8, <3>1, <3>2
  <2> QED BY <1>2, <1>8, <2>1, <2>2, <2>3 DEF CanAdvance, Line, u
<1>9. CASE p[1].op = "wait"
  <2>1. Line(u, n, c) = Line(p, n, c)
    BY <1>7, <1>9 DEF Line
  <2> QED BY <1>2, <1>9, <2>1 DEF u
<1>10. CASE p[1].op = "run"
  <2> DEFINE w == [job |-> p[1].job, mark |-> Mark(p, n, 1)]
  <2>1. 1 \in RunsOf(p)
    BY <1>2, <1>3, <1>10 DEF RunsOf
  <2>2. w \in WorkOf(p, n)
    BY <2>1 DEF WorkOf
  <2>3. Mark(p, n, 1) = c + 1
    BY <1>1, SignalsCounted DEF Mark
  <2>4. WorkOf(u, n) = WorkOf(p, n) \ {w}
    <3>1. ASSUME NEW k \in RunsOf(u)
          PROVE  /\ k + 1 \in RunsOf(p) /\ k + 1 # 1 /\ u[k].job = p[k + 1].job
                 /\ Mark(u, n, k) = Mark(p, n, k + 1)
      BY <1>2, <1>3, <1>4, <1>6 DEF RunsOf
    <3>2. ASSUME NEW k \in RunsOf(p), k # 1
          PROVE  /\ k - 1 \in RunsOf(u) /\ u[k - 1].job = p[k].job
                 /\ Mark(u, n, k - 1) = Mark(p, n, k)
                 /\ p[k].job # p[1].job
      <4>1. k \in 1..L /\ p[k].op = "run"
        BY <1>3 DEF RunsOf
      <4>2. k - 1 \in 1..L - 1 /\ (k - 1) + 1 = k
        BY <1>2, <3>2, <4>1
      <4>3. p[k].job # p[1].job
        BY <1>2, <1>10, <3>2, <4>1 DEF JobsOnce, L
      <4> QED BY <1>2, <1>4, <1>6, <4>1, <4>2, <4>3
    <3>3. ASSUME NEW x \in WorkOf(u, n) PROVE x \in WorkOf(p, n) /\ x # w
      <4>1. PICK k \in RunsOf(u) : x = [job |-> u[k].job, mark |-> Mark(u, n, k)]
        BY DEF WorkOf
      <4>2. x = [job |-> p[k + 1].job, mark |-> Mark(p, n, k + 1)] /\ k + 1 \in RunsOf(p)
        BY <3>1, <4>1
      <4>3. p[k + 1].job # p[1].job
        BY <3>1, <3>2
      <4> QED BY <4>2, <4>3 DEF WorkOf
    <3>4. ASSUME NEW x \in WorkOf(p, n), x # w PROVE x \in WorkOf(u, n)
      <4>1. PICK k \in RunsOf(p) : x = [job |-> p[k].job, mark |-> Mark(p, n, k)]
        BY DEF WorkOf
      <4>2. k # 1
        BY <3>4, <4>1
      <4> QED BY <3>2, <4>1, <4>2 DEF WorkOf
    <3> QED BY <3>3, <3>4
  <2>5. w.mark = c + 1
    BY <2>3
  <2> HIDE DEF w
  <2> DEFINE W == WorkOf(u, n)
  <2> HIDE DEF W
  <2>6. Line(u, n, c) = Finish(Line(p, n, c), w)
    <3>1. Finish(Line(p, n, c), w) = [next |-> n, completed |-> c, work |-> W]
      <4>1. W = WorkOf(p, n) \ {w}
        BY <2>4 DEF W
      <4> QED BY <4>1, LineFinish
    <3> QED BY <3>1, Zenon DEF Line, W
  <2>7. w \in Line(p, n, c).work /\ CanFinish(Line(p, n, c), w)
    BY <1>1, <2>2, <2>5 DEF CanFinish, Line
  <2> QED BY <1>2, <1>10, <2>6, <2>7 DEF u
<1>11. p[1].op \in {"signal", "wait", "run"}
  <2>1. p[1] \in Command
    BY <1>1, <1>2 DEF L
  <2> QED BY <2>1 DEF Command
<1> QED BY <1>8, <1>9, <1>10, <1>11

JobsApart == \A q \in Queue : JobsOnce(pending[q])

\* ExecuteCommandList is not given a command list that is still pending.
LEMMA JobsApartStep ==
  ASSUME QueuesInv, JobsApart, [Next]_vars
  PROVE  JobsApart'
<1>1. \A q \in Queue : pending[q] \in Seq(Command) /\ pending \in [Queue -> Seq(Command)]
  BY DEF QueuesInv, TypeOK
<1>2. ASSUME NEW p \in Seq(Command), NEW e \in Command, JobsOnce(p),
             e.op = "run" => \A k \in 1..Len(p) : p[k].op = "run" => p[k].job # e.job
      PROVE  JobsOnce(Append(p, e)) /\ Append(p, e) \in Seq(Command)
  <2> DEFINE u == Append(p, e)
  <2>1. /\ u \in Seq(Command) /\ Len(u) = Len(p) + 1 /\ Len(p) \in Nat
        /\ \A k \in 1..Len(p) : u[k] = p[k]
        /\ u[Len(p) + 1] = e
    BY AppendElements
  <2> HIDE DEF u
  <2>2. ASSUME NEW i \in 1..Len(u), NEW k \in 1..Len(u), u[i].op = "run", u[k].op = "run",
               u[i].job = u[k].job
        PROVE  i = k
    <3>1. CASE i \in 1..Len(p) /\ k \in 1..Len(p)
      BY <1>2, <2>1, <2>2, <3>1 DEF JobsOnce
    <3>2. CASE i \in 1..Len(p) /\ k = Len(p) + 1
      BY <1>2, <2>1, <2>2, <3>2
    <3>3. CASE i = Len(p) + 1 /\ k \in 1..Len(p)
      BY <1>2, <2>1, <2>2, <3>3
    <3> QED BY <2>1, <3>1, <3>2, <3>3
  <2>3. JobsOnce(u)
    BY <2>2 DEF JobsOnce
  <2> QED BY <2>1, <2>3 DEF u
<1>3. ASSUME NEW q \in Queue, NEW e \in Command, pending' = [pending EXCEPT ![q] = Append(@, e)],
             e.op = "run" => \A k \in 1..Len(pending[q]) :
                               pending[q][k].op = "run" => pending[q][k].job # e.job
      PROVE  JobsApart'
  <2>1. JobsOnce(Append(pending[q], e))
    BY <1>1, <1>2, <1>3 DEF JobsApart
  <2> QED BY <1>1, <1>3, <2>1 DEF JobsApart
<1>4. ASSUME NEW q \in Queue, next[q] <= MaxSignals
      PROVE  SignalCmd(next[q]) \in Command /\ SignalCmd(next[q]).op = "signal"
  <2>1. next[q] \in 1..MaxSignals
    BY <1>4, QueuesAssumption DEF QueuesInv, TypeOK
  <2> QED BY <2>1 DEF SignalCmd, Command
<1>5. ASSUME NEW p \in Point PROVE WaitCmd(p) \in Command /\ WaitCmd(p).op = "wait"
  BY DEF WaitCmd, Command
<1>6. ASSUME NEW q \in Queue, Call(q) PROVE JobsApart'
  <2>1. CASE CallSignal(q) \/ FlushQueue(q) \/ Destroy(q)
    <3>1. next[q] <= MaxSignals /\ pending' = [pending EXCEPT ![q] = Append(@, SignalCmd(next[q]))]
      BY <2>1 DEF CallSignal, FlushQueue, Destroy, StartFlush, Signalled
    <3> QED BY <1>3, <1>4, <3>1
  <2>2. ASSUME NEW j \in Job, ExecuteCommandList(q, j) PROVE JobsApart'
    <3>1. RunCmd(j) \in Command /\ RunCmd(j).job = j
      BY DEF RunCmd, Command
    <3>2. ASSUME NEW k \in 1..Len(pending[q]), pending[q][k].op = "run" PROVE pending[q][k].job # j
      <4>1. k \in DOMAIN pending[q]
        BY <1>1
      <4>2. pending[q][k].job \in Jobs(q)
        BY <3>2, <4>1 DEF Jobs
      <4> QED BY <2>2, <4>2 DEF ExecuteCommandList, Outstanding
    <3>3. pending' = [pending EXCEPT ![q] = Append(@, RunCmd(j))]
      BY <2>2 DEF ExecuteCommandList
    <3> QED BY <1>3, <3>1, <3>2, <3>3
  <2>3. ASSUME NEW f \in Queue, NEW p \in Known(f), WaitOnFenceGPU(q, p) PROVE JobsApart'
    <3>1. p \in Point /\ pending' = [pending EXCEPT ![q] = Append(@, WaitCmd(p))]
      BY <2>3 DEF Known, WaitOnFenceGPU
    <3> QED BY <1>3, <1>5, <3>1
  <2>4. ASSUME NEW other \in Queue, SyncWithQueue(q, other) PROVE JobsApart'
    <3> DEFINE P == [pending EXCEPT ![other] = Append(@, SignalCmd(next[other]))]
               e == WaitCmd(NewPoint(other))
    <3>1. next[other] <= MaxSignals /\ pending' = [P EXCEPT ![q] = Append(@, e)]
      BY <2>4 DEF SyncWithQueue, Signalled
    <3>2. NewPoint(other) \in Point
      BY PointFacts DEF QueuesInv
    <3>3. e \in Command /\ e.op = "wait"
      BY <1>5, <3>2
    <3>4. JobsOnce(Append(pending[other], SignalCmd(next[other])))
          /\ Append(pending[other], SignalCmd(next[other])) \in Seq(Command)
      BY <1>1, <1>2, <1>4, <3>1 DEF JobsApart
    <3>5. \A f \in Queue : JobsOnce(P[f]) /\ P[f] \in Seq(Command) /\ P \in [Queue -> Seq(Command)]
      BY <1>1, <3>4 DEF JobsApart
    <3> HIDE DEF P, e
    <3>6. JobsOnce(Append(P[q], e))
      BY <1>2, <3>3, <3>5
    <3> QED BY <3>1, <3>5, <3>6 DEF JobsApart
  <2>5. ASSUME NEW p, NEW timed, HasFencePointBeenReached(q, p) \/ WaitOnFenceCPU(q, p, timed)
        PROVE  JobsApart'
    BY <2>5 DEF HasFencePointBeenReached, WaitOnFenceCPU, JobsApart
  <2> QED BY <1>6, <2>1, <2>2, <2>3, <2>4, <2>5 DEF Call
<1>7. ASSUME NEW q \in Queue, GpuStep(q) PROVE JobsApart'
  <2>1. pending[q] # <<>> /\ pending' = [pending EXCEPT ![q] = Tail(@)]
    BY <1>7 DEF GpuStep, GpuSignal, GpuWait, GpuRun, Ready
  <2> DEFINE u == Tail(pending[q])
  <2>2. /\ Len(u) = Len(pending[q]) - 1 /\ Len(pending[q]) \in Nat
        /\ \A k \in 1..Len(pending[q]) - 1 : u[k] = pending[q][k + 1]
    BY <1>1, <2>1, TailElements
  <2> HIDE DEF u
  <2>3. ASSUME NEW i \in 1..Len(u), NEW k \in 1..Len(u), u[i].op = "run", u[k].op = "run",
               u[i].job = u[k].job
        PROVE  i = k
    <3>1. /\ i + 1 \in 1..Len(pending[q]) /\ u[i] = pending[q][i + 1]
          /\ k + 1 \in 1..Len(pending[q]) /\ u[k] = pending[q][k + 1]
      BY <2>2
    <3>2. i + 1 = k + 1
      BY <2>3, <3>1 DEF JobsApart, JobsOnce
    <3> QED BY <3>2
  <2>4. JobsOnce(u)
    BY <2>3 DEF JobsOnce
  <2> QED BY <1>1, <2>1, <2>4 DEF JobsApart, u
<1>8. CASE WaitReturns \/ WaitTimesOut \/ UNCHANGED vars
  BY <1>8 DEF WaitReturns, WaitTimesOut, vars, JobsApart
<1> QED BY <1>6, <1>7, <1>8 DEF Next, Terminated

\* A step of one queue's timeline, the others left alone, is a step of the timelines.
LEMMA StepOfLine ==
  ASSUME NEW q \in Queue, Timelines!TimelineStep(TimelineOf(q), TimelineOf(q)'),
         \A f \in Queue \ {q} : TimelineOf(f)' = TimelineOf(f)
  PROVE  Timelines!TimelinesNext
<1> DEFINE T == [f \in Queue |-> TimelineOf(f)]
<1>1. T[q] = TimelineOf(q) /\ T'[q] = TimelineOf(q)'
  OBVIOUS
<1>2. T' = [T EXCEPT ![q] = T'[q]]
  OBVIOUS
<1> QED BY <1>1, <1>2 DEF Timelines!TimelinesNext

\* Signals and waits.
LEMMA SignalOfLine ==
  ASSUME QueuesInv, NEW q \in Queue, NEW N, NEW P, next[q] <= MaxSignals,
         N = [next EXCEPT ![q] = @ + 1], P = [pending EXCEPT ![q] = Append(@, SignalCmd(next[q]))]
  PROVE  /\ P \in [Queue -> Seq(Command)] /\ \A f \in Queue : N[f] \in Nat
         /\ Timelines!TimelineStep(TimelineOf(q), Line(P[q], N[q], completed[q]))
         /\ \A f \in Queue \ {q} : Line(P[f], N[f], completed[f]) = TimelineOf(f)
<1> DEFINE e == SignalCmd(next[q])
<1>1. /\ pending \in [Queue -> Seq(Command)] /\ next \in [Queue -> 1..MaxSignals + 1]
      /\ completed \in [Queue -> 0..MaxSignals]
  BY DEF QueuesInv, TypeOK
<1>2. e \in Command /\ e.op = "signal" /\ next[q] \in Nat /\ completed[q] \in Nat
  <2>1. next[q] \in 1..MaxSignals /\ completed[q] \in Nat
    BY <1>1, QueuesAssumption
  <2> QED BY <2>1 DEF SignalCmd, Command
<1> HIDE DEF e
<1>3. /\ P[q] = Append(pending[q], e) /\ N[q] = next[q] + 1 /\ P \in [Queue -> Seq(Command)]
      /\ \A f \in Queue \ {q} : P[f] = pending[f] /\ N[f] = next[f]
  BY <1>1, <1>2, AppendElements DEF e
<1>4. Line(P[q], N[q], completed[q]) = Signal(TimelineOf(q))
  <2>1. pending[q] \in Seq(Command)
    BY <1>1
  <2>2. Line(Append(pending[q], e), next[q] + 1, completed[q])
          = Signal(Line(pending[q], next[q], completed[q]))
    BY <1>2, <2>1, LineSent
  <2> QED BY <1>3, <2>2, TimelineIsLine
<1>5. Line(P[q], N[q], completed[q]) = Timelines!Signal(TimelineOf(q))
  BY <1>4, SameOperations
<1>6. Timelines!TimelineStep(TimelineOf(q), Line(P[q], N[q], completed[q]))
  BY <1>5 DEF Timelines!TimelineStep
<1>7. \A f \in Queue : N[f] \in Nat
  BY <1>1, <1>2, <1>3, QueuesAssumption
<1> QED BY <1>3, <1>6, <1>7, TimelineIsLine

LEMMA WaitOfLine ==
  ASSUME NEW s \in Seq(Command), NEW n \in Nat, NEW c \in Nat, NEW p \in Point
  PROVE  Line(Append(s, WaitCmd(p)), n, c) = Line(s, n, c)
<1>1. WaitCmd(p) \in Command /\ WaitCmd(p).op = "wait"
  BY DEF WaitCmd, Command
<1> DEFINE e == WaitCmd(p)
<1> HIDE DEF e
<1>2. e \in Command /\ e.op = "wait"
  BY <1>1 DEF e
<1>3. Line(Append(s, e), n, c) = Line(s, n, c)
  BY <1>2, LineSent
<1> QED BY <1>3 DEF e

\* Every step is a step of the timelines, or does not show on them.
LEMMA TimelinesStep ==
  ASSUME QueuesInv, JobsApart, [Next]_vars
  PROVE  [Timelines!TimelinesNext]_([q \in Queue |-> TimelineOf(q)])
<1> DEFINE T == [q \in Queue |-> TimelineOf(q)]
           Goal == Timelines!TimelinesNext \/ T' = T
<1> SUFFICES Goal
  OBVIOUS
<1>1. /\ pending \in [Queue -> Seq(Command)] /\ next \in [Queue -> 1..MaxSignals + 1]
      /\ completed \in [Queue -> 0..MaxSignals]
      /\ \A f \in Queue : next[f] \in Nat /\ completed[f] \in Nat
  BY QueuesAssumption DEF QueuesInv, TypeOK
<1>2. \A f \in Queue : TimelineOf(f) = Line(pending[f], next[f], completed[f])
  BY TimelineIsLine
<1>3. \A f \in Queue : TimelineOf(f)' = Line(pending'[f], next'[f], completed'[f])
  BY DEF TimelineOf, Line, WorkOf, Mark, RunsOf, SignalsAfter
<1>4. ASSUME NEW q \in Queue,
             Timelines!TimelineStep(TimelineOf(q), Line(pending'[q], next'[q], completed'[q])),
             \A f \in Queue \ {q} : Line(pending'[f], next'[f], completed'[f]) = TimelineOf(f)
      PROVE  Goal
  BY <1>3, <1>4, StepOfLine
<1>5. ASSUME \A f \in Queue : Line(pending'[f], next'[f], completed'[f]) = TimelineOf(f) PROVE Goal
  BY <1>3, <1>5
<1> HIDE DEF Goal, T
<1>6. ASSUME NEW q \in Queue, Call(q) PROVE Goal
  <2>1. CASE CallSignal(q) \/ FlushQueue(q) \/ Destroy(q)
    <3>1. /\ next[q] <= MaxSignals /\ next' = [next EXCEPT ![q] = @ + 1] /\ completed' = completed
          /\ pending' = [pending EXCEPT ![q] = Append(@, SignalCmd(next[q]))]
      BY <2>1 DEF CallSignal, FlushQueue, Destroy, StartFlush, Signalled
    <3>2. /\ Timelines!TimelineStep(TimelineOf(q), Line(pending'[q], next'[q], completed[q]))
          /\ \A f \in Queue \ {q} : Line(pending'[f], next'[f], completed[f]) = TimelineOf(f)
      BY <3>1, SignalOfLine, Zenon
    <3> QED BY <1>4, <3>1, <3>2
  <2>2. ASSUME NEW j \in Job, ExecuteCommandList(q, j) PROVE Goal
    <3> DEFINE e == RunCmd(j)
    <3>1. e \in Command /\ e.op = "run" /\ e.job = j
      BY DEF RunCmd, Command
    <3>2. pending' = [pending EXCEPT ![q] = Append(@, e)] /\ next' = next /\ completed' = completed
      BY <2>2 DEF ExecuteCommandList
    <3> HIDE DEF e
    <3>3. pending'[q] = Append(pending[q], e) /\ \A f \in Queue \ {q} : pending'[f] = pending[f]
      BY <1>1, <3>2
    <3>4. pending[q] \in Seq(Command) /\ next[q] \in Nat /\ completed[q] \in Nat
      BY <1>1
    <3>5. Line(Append(pending[q], e), next[q], completed[q])
            = Execute(Line(pending[q], next[q], completed[q]), e.job)
      BY <3>1, <3>4, LineSent
    <3>6. Line(pending'[q], next[q], completed[q]) = Timelines!Execute(TimelineOf(q), j)
      BY <1>2, <3>1, <3>3, <3>5, SameOperations
    <3>7. Timelines!TimelineStep(TimelineOf(q), Line(pending'[q], next'[q], completed'[q]))
      BY <3>2, <3>6 DEF Timelines!TimelineStep
    <3> QED BY <1>2, <1>4, <3>2, <3>3, <3>7
  <2>3. ASSUME NEW f \in Queue, NEW p \in Known(f), WaitOnFenceGPU(q, p) PROVE Goal
    <3>1. /\ p \in Point /\ pending' = [pending EXCEPT ![q] = Append(@, WaitCmd(p))]
          /\ next' = next /\ completed' = completed
      BY <2>3 DEF Known, WaitOnFenceGPU
    <3>2. \A g \in Queue : Line(pending'[g], next[g], completed[g])
                             = Line(pending[g], next[g], completed[g])
      <4>1. pending'[q] = Append(pending[q], WaitCmd(p)) /\ \A g \in Queue \ {q} : pending'[g] = pending[g]
        BY <1>1, <3>1
      <4>2. \A g \in Queue : pending[g] \in Seq(Command) /\ next[g] \in Nat /\ completed[g] \in Nat
        BY <1>1
      <4>3. Line(Append(pending[q], WaitCmd(p)), next[q], completed[q])
              = Line(pending[q], next[q], completed[q])
        BY <3>1, <4>2, WaitOfLine
      <4> QED BY <4>1, <4>3
    <3> QED BY <1>2, <1>5, <3>1, <3>2
  <2>4. ASSUME NEW other \in Queue, SyncWithQueue(q, other) PROVE Goal
    <3> DEFINE P == [pending EXCEPT ![other] = Append(@, SignalCmd(next[other]))]
    <3>1. /\ next[other] <= MaxSignals /\ next' = [next EXCEPT ![other] = @ + 1]
          /\ pending' = [P EXCEPT ![q] = Append(@, WaitCmd(NewPoint(other)))]
          /\ completed' = completed
      BY <2>4 DEF SyncWithQueue, Signalled
    <3>2. NewPoint(other) \in Point
      BY PointFacts DEF QueuesInv
    <3>3. /\ P \in [Queue -> Seq(Command)] /\ \A f \in Queue : next'[f] \in Nat
          /\ Timelines!TimelineStep(TimelineOf(other), Line(P[other], next'[other], completed[other]))
          /\ \A f \in Queue \ {other} : Line(P[f], next'[f], completed[f]) = TimelineOf(f)
      BY <3>1, SignalOfLine
    <3> HIDE DEF P
    <3>4. \A g \in Queue : Line(pending'[g], next'[g], completed[g]) = Line(P[g], next'[g], completed[g])
      <4>1. /\ pending'[q] = Append(P[q], WaitCmd(NewPoint(other)))
            /\ \A g \in Queue \ {q} : pending'[g] = P[g]
        BY <3>1, <3>3
      <4>2. \A g \in Queue : P[g] \in Seq(Command) /\ next'[g] \in Nat /\ completed[g] \in Nat
        BY <1>1, <3>3
      <4>3. Line(Append(P[q], WaitCmd(NewPoint(other))), next'[q], completed[q])
              = Line(P[q], next'[q], completed[q])
        BY <3>2, <4>2, WaitOfLine
      <4> QED BY <4>1, <4>3
    <3> QED BY <1>4, <3>1, <3>3, <3>4
  <2>5. ASSUME NEW p, NEW timed, HasFencePointBeenReached(q, p) \/ WaitOnFenceCPU(q, p, timed)
        PROVE  Goal
    BY <1>2, <1>5, <2>5 DEF HasFencePointBeenReached, WaitOnFenceCPU
  <2> QED BY <1>6, <2>1, <2>2, <2>3, <2>4, <2>5 DEF Call
<1>7. ASSUME NEW q \in Queue, GpuStep(q) PROVE Goal
  <2> DEFINE head == Head(pending[q])
             u == Tail(pending[q])
             line == Line(pending[q], next[q], completed[q])
  <2>1. /\ pending[q] # <<>> /\ pending' = [pending EXCEPT ![q] = u] /\ next' = next
        /\ completed' = IF IsSignal(head) THEN [completed EXCEPT ![q] = head.value] ELSE completed
        /\ head.op \in {"signal", "wait", "run"}
    BY <1>7 DEF GpuStep, GpuSignal, GpuWait, GpuRun, Ready, IsSignal
  <2>2. SignalsIn(pending[q], next[q], completed[q]) /\ JobsOnce(pending[q])
    BY DEF QueuesInv, History, Consistent, Numbered, JobsApart
  <2>3. /\ head.op = "signal" =>
              /\ CanAdvance(line)
              /\ Line(u, next[q], completed[q] + 1) = Advance(line)
        /\ head.op = "wait" => Line(u, next[q], completed[q]) = line
        /\ head.op = "run" =>
              \E w \in line.work : /\ CanFinish(line, w)
                                   /\ Line(u, next[q], completed[q]) = Finish(line, w)
    BY <2>1, <2>2, LineTaken DEF head, u, line
  <2>4. IsSignal(head) => head.value = completed[q] + 1
    BY <2>1, <2>2, SignalsTailSignal
  <2>5. TimelineOf(q) = line /\ line.completed = completed[q]
    BY <1>2, LineFields
  <2> HIDE DEF head, u, line
  <2>6. /\ pending'[q] = u /\ \A f \in Queue \ {q} : pending'[f] = pending[f]
        /\ completed'[q] = IF IsSignal(head) THEN completed[q] + 1 ELSE completed[q]
        /\ \A f \in Queue \ {q} : completed'[f] = completed[f]
    BY <1>1, <2>1, <2>4
  <2>7. \A f \in Queue \ {q} : Line(pending'[f], next'[f], completed'[f]) = TimelineOf(f)
    BY <1>2, <2>1, <2>6
  <2>8. CASE head.op = "signal"
    <3>1. Line(u, next[q], completed[q] + 1) = Timelines!Advance(line) /\ Timelines!CanAdvance(line)
      BY <2>3, <2>8, SameOperations
    <3>2. Line(pending'[q], next'[q], completed'[q]) = Line(u, next[q], completed[q] + 1)
      BY <2>1, <2>6, <2>8 DEF IsSignal
    <3> QED BY <1>4, <2>5, <2>7, <3>1, <3>2 DEF Timelines!TimelineStep
  <2>9. CASE head.op = "wait"
    <3>1. Line(pending'[q], next'[q], completed'[q]) = TimelineOf(q)
      BY <2>1, <2>3, <2>5, <2>6, <2>9 DEF IsSignal
    <3> QED BY <1>5, <2>7, <3>1
  <2>10. CASE head.op = "run"
    <3>1. PICK w \in line.work : /\ CanFinish(line, w)
                                 /\ Line(u, next[q], completed[q]) = Finish(line, w)
      BY <2>3, <2>10
    <3>2. Timelines!CanFinish(line, w) /\ Line(u, next[q], completed[q]) = Timelines!Finish(line, w)
      BY <3>1, SameOperations
    <3>3. Line(pending'[q], next'[q], completed'[q]) = Line(u, next[q], completed[q])
      BY <2>1, <2>6, <2>10 DEF IsSignal
    <3> QED BY <1>4, <2>5, <2>7, <3>1, <3>2, <3>3 DEF Timelines!TimelineStep
  <2> QED BY <2>1, <2>8, <2>9, <2>10
<1>8. CASE WaitReturns \/ WaitTimesOut \/ UNCHANGED vars
  BY <1>2, <1>5, <1>8 DEF WaitReturns, WaitTimesOut, vars
<1>9. Goal
  BY <1>6, <1>7, <1>8 DEF Next, Terminated
<1> QED BY <1>9

\* CommandQueue and Fence keep, queue by queue, the promise the rest of the code is
\* built on: points are handed out and reached in order, each after the work before it.
THEOREM QueuesImplementTimelines == Spec => ImplementsTimelines
<1>1. Init => Timelines!TimelinesInit /\ JobsApart
  <2> SUFFICES ASSUME Init PROVE Timelines!TimelinesInit /\ JobsApart
    OBVIOUS
  <2>1. JobsApart
    BY DEF Init, JobsApart, JobsOnce
  <2>2. ASSUME NEW q \in Queue PROVE TimelineOf(q) = Timelines!NewQueue
    <3>1. TimelineOf(q) = Line(<<>>, 1, 0) /\ RunsOf(<<>>) = {}
      BY TimelineIsLine DEF Init, RunsOf
    <3>2. WorkOf(<<>>, 1) = {}
      BY <3>1 DEF WorkOf
    <3> QED BY <3>1, <3>2 DEF Line, Timelines!NewQueue
  <2> QED BY <2>1, <2>2 DEF Timelines!TimelinesInit
<1>2. QueuesInv /\ JobsApart /\ [Next]_vars => JobsApart'
  BY JobsApartStep
<1>3. QueuesInv /\ JobsApart /\ [Next]_vars
        => [Timelines!TimelinesNext]_([q \in Queue |-> TimelineOf(q)])
  BY TimelinesStep
<1> QED BY <1>1, <1>2, <1>3, QueuesInvariant, PTL
        DEF Spec, ImplementsTimelines, Timelines!TimelinesSpec

=============================================================================
