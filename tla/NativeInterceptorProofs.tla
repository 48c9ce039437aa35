----------------------- MODULE NativeInterceptorProofs -----------------------
(***************************************************************************)
(* Proofs about NativeInterceptor: the queue of the stub stays in step, no *)
(* transaction is executed twice but for a lost post hook, and none is     *)
(* answered twice, for all threads, transactions, targets, buffers, nested *)
(* calls, daemons and failures.                                            *)
(***************************************************************************)
EXTENDS NativeInterceptor, TLAPS

\* What the hook has not looked at is not redirected.
Untouched ==
    \A t \in Threads : \A i \in DOMAIN mIn[t] : i > scanned[t] => ~mIn[t][i].redirected

\* A transaction that was read is unanswered, and not executed before its
\* post hook is waited for.
InFlight ==
    /\ \A t \in Threads : \A i \in DOMAIN mIn[t] :
         answer[mIn[t][i].id] = None /\ executed[mIn[t][i].id] = 0
    /\ \A t \in Threads : \A i \in DOMAIN stack[t] :
         /\ answer[stack[t][i].id] = None
         /\ executed[stack[t][i].id] = IF stack[t][i].pc = "pre" THEN 0 ELSE 1

\* A transaction is in one place.
OnePlace ==
    /\ \A t, u \in Threads : \A i \in DOMAIN mIn[t], j \in DOMAIN mIn[u] :
         mIn[t][i].id = mIn[u][j].id => t = u /\ i = j
    /\ \A t, u \in Threads : \A i \in DOMAIN stack[t], j \in DOMAIN stack[u] :
         stack[t][i].id = stack[u][j].id => t = u /\ i = j
    /\ \A t, u \in Threads : \A i \in DOMAIN mIn[t], j \in DOMAIN stack[u] :
         mIn[t][i].id # stack[u][j].id

IInv == TypeOK /\ QueueAligned /\ Untouched /\ InFlight /\ OnePlace /\ ExecutedOnce

-----------------------------------------------------------------------------
(* Sequences *)

\* The first element and the rest.
LEMMA TailIs ==
    ASSUME NEW S, NEW s \in Seq(S), s # <<>>
    PROVE  /\ Len(s) \in Nat /\ Len(s) >= 1 /\ DOMAIN s = 1..Len(s)
           /\ Head(s) = s[1] /\ Head(s) \in S
           /\ Tail(s) \in Seq(S) /\ Len(Tail(s)) = Len(s) - 1 /\ DOMAIN Tail(s) = 1..(Len(s) - 1)
           /\ \A i \in 1..(Len(s) - 1) : Tail(s)[i] = s[i + 1]
  OBVIOUS

\* The last element and what is before it.
LEMMA FrontIs ==
    ASSUME NEW S, NEW s \in Seq(S), s # <<>>
    PROVE  /\ Len(s) \in Nat /\ Len(s) >= 1 /\ DOMAIN s = 1..Len(s)
           /\ Last(s) = s[Len(s)] /\ Last(s) \in S
           /\ Front(s) \in Seq(S) /\ Len(Front(s)) = Len(s) - 1 /\ DOMAIN Front(s) = 1..(Len(s) - 1)
           /\ \A i \in 1..(Len(s) - 1) : Front(s)[i] = s[i]
<1>1. Len(s) \in Nat /\ Len(s) >= 1 /\ DOMAIN s = 1..Len(s)
  OBVIOUS
<1>2. Last(s) = s[Len(s)] /\ Last(s) \in S
  BY <1>1 DEF Last
<1>3. Front(s) = SubSeq(s, 1, Len(s) - 1)
  BY DEF Front
<1>4. \A i \in 1..(Len(s) - 1) : s[i] \in S
  BY <1>1
<1>5. SubSeq(s, 1, Len(s) - 1) = [i \in 1..(Len(s) - 1) |-> s[i]]
  BY <1>1
<1> QED
  BY <1>1, <1>2, <1>3, <1>4, <1>5

\* One element more.
LEMMA AppendIs ==
    ASSUME NEW S, NEW s \in Seq(S), NEW e \in S
    PROVE  /\ Len(s) \in Nat /\ DOMAIN s = 1..Len(s)
           /\ Append(s, e) \in Seq(S) /\ Len(Append(s, e)) = Len(s) + 1
           /\ DOMAIN Append(s, e) = 1..(Len(s) + 1)
           /\ \A i \in 1..Len(s) : Append(s, e)[i] = s[i]
           /\ Append(s, e)[Len(s) + 1] = e
  OBVIOUS

-----------------------------------------------------------------------------
(* The queue and the buffer *)

\* Nothing is redirected and nothing queued.
LEMMA AlignedEmpty ==
    ASSUME NEW cmds \in Seq(Commands), \A i \in DOMAIN cmds : ~cmds[i].redirected
    PROVE  Aligned(cmds, <<>>)
<1> DEFINE redirected == {i \in DOMAIN cmds : cmds[i].redirected}
           at == [j \in {} |-> j]
<1>1. redirected = {} /\ DOMAIN <<>> = {}
  OBVIOUS
<1>2. at \in [DOMAIN <<>> -> redirected]
  BY <1>1
<1> QED
  BY <1>1, <1>2 DEF Aligned

\* Without redirected commands the queue is empty.
LEMMA AlignedNone ==
    ASSUME NEW cmds \in Seq(Commands), NEW infos \in Seq(Infos), Aligned(cmds, infos),
           \A i \in DOMAIN cmds : ~cmds[i].redirected
    PROVE  infos = <<>>
<1> DEFINE redirected == {i \in DOMAIN cmds : cmds[i].redirected}
<1>1. redirected = {}
  OBVIOUS
<1>2. PICK at \in [DOMAIN infos -> redirected] : TRUE
  BY DEF Aligned
<1>3. DOMAIN infos = {}
  BY <1>1, <1>2
<1> QED
  BY <1>3

\* What matters of a command is its info and whether it is redirected.
LEMMA AlignedSame ==
    ASSUME NEW cmds \in Seq(Commands), NEW cmds2 \in Seq(Commands), NEW infos \in Seq(Infos),
           Aligned(cmds, infos),
           DOMAIN cmds = DOMAIN cmds2,
           \A i \in DOMAIN cmds : /\ cmds2[i].redirected <=> cmds[i].redirected
                                  /\ InfoOf(cmds2[i]) = InfoOf(cmds[i])
    PROVE  Aligned(cmds2, infos)
<1> DEFINE R(c) == {i \in DOMAIN c : c[i].redirected}
<1>1. R(cmds) = R(cmds2)
  OBVIOUS
<1>2. PICK at \in [DOMAIN infos -> R(cmds)] :
        /\ \A i \in R(cmds) : \E j \in DOMAIN infos : at[j] = i
        /\ \A j, k \in DOMAIN infos : j < k => at[j] < at[k]
        /\ \A j \in DOMAIN infos : infos[j] = InfoOf(cmds[at[j]])
  BY DEF Aligned
<1>3. \A j \in DOMAIN infos : infos[j] = InfoOf(cmds2[at[j]])
  BY <1>1, <1>2
<1> QED
  BY <1>1, <1>2, <1>3 DEF Aligned

\* Redirecting a command behind which none is redirected, and queueing it.
LEMMA AlignedAppend ==
    ASSUME NEW cmds \in Seq(Commands), NEW cmds2 \in Seq(Commands), NEW infos \in Seq(Infos),
           NEW n \in DOMAIN cmds,
           Aligned(cmds, infos),
           DOMAIN cmds = DOMAIN cmds2,
           \A i \in DOMAIN cmds : i >= n => ~cmds[i].redirected,
           \A i \in DOMAIN cmds : i # n => cmds2[i] = cmds[i],
           cmds2[n].redirected,
           InfoOf(cmds2[n]) \in Infos
    PROVE  Aligned(cmds2, Append(infos, InfoOf(cmds2[n])))
<1> DEFINE R(c) == {i \in DOMAIN c : c[i].redirected}
           infos2 == Append(infos, InfoOf(cmds2[n]))
           l == Len(infos)
<1>1. PICK at \in [DOMAIN infos -> R(cmds)] :
        /\ \A i \in R(cmds) : \E j \in DOMAIN infos : at[j] = i
        /\ \A j, k \in DOMAIN infos : j < k => at[j] < at[k]
        /\ \A j \in DOMAIN infos : infos[j] = InfoOf(cmds[at[j]])
  BY DEF Aligned
<1>2. /\ l \in Nat /\ DOMAIN infos = 1..l
      /\ DOMAIN infos2 = 1..(l + 1)
      /\ \A j \in 1..l : infos2[j] = infos[j]
      /\ infos2[l + 1] = InfoOf(cmds2[n])
  BY AppendIs
<1>3. /\ DOMAIN cmds = 1..Len(cmds) /\ Len(cmds) \in Nat
      /\ \A i \in R(cmds) : i \in Nat /\ i < n
  OBVIOUS
<1>4. R(cmds2) = R(cmds) \cup {n}
  BY <1>3
<1> HIDE DEF infos2, l
<1> DEFINE at2 == [j \in 1..(l + 1) |-> IF j = l + 1 THEN n ELSE at[j]]
<1>5. /\ at2[l + 1] = n
      /\ \A j \in 1..l : at2[j] = at[j] /\ at[j] \in R(cmds) /\ j \in 1..(l + 1)
  BY <1>1, <1>2
<1>6. at2 \in [DOMAIN infos2 -> R(cmds2)]
  BY <1>2, <1>4, <1>5
<1>7. \A i \in R(cmds2) : \E j \in DOMAIN infos2 : at2[j] = i
  <2>1. l + 1 \in DOMAIN infos2 /\ at2[l + 1] = n
    BY <1>2, <1>5
  <2>2. ASSUME NEW i \in R(cmds) PROVE \E j \in DOMAIN infos2 : at2[j] = i
    BY <2>2, <1>1, <1>2, <1>5
  <2> QED
    BY <2>1, <2>2, <1>4
<1>8. \A j, k \in DOMAIN infos2 : j < k => at2[j] < at2[k]
  <2> SUFFICES ASSUME NEW j \in 1..(l + 1), NEW k \in 1..(l + 1), j < k PROVE at2[j] < at2[k]
    BY <1>2
  <2>1. j \in 1..l
    BY <1>2
  <2>2. CASE k = l + 1
    BY <2>1, <2>2, <1>3, <1>5
  <2>3. CASE k # l + 1
    <3>1. k \in 1..l
      BY <2>3, <1>2
    <3> QED
      BY <2>1, <3>1, <1>1, <1>2, <1>5
  <2> QED
    BY <2>2, <2>3
<1>9. \A j \in DOMAIN infos2 : infos2[j] = InfoOf(cmds2[at2[j]])
  <2> SUFFICES ASSUME NEW j \in 1..(l + 1) PROVE infos2[j] = InfoOf(cmds2[at2[j]])
    BY <1>2
  <2>1. CASE j = l + 1
    BY <2>1, <1>2, <1>5
  <2>2. CASE j # l + 1
    <3>1. j \in 1..l
      BY <2>2, <1>2
    <3>2. at[j] \in R(cmds)
      BY <3>1, <1>5
    <3>3. at[j] # n /\ at[j] \in DOMAIN cmds
      BY <3>2, <1>3
    <3> QED
      BY <3>1, <3>3, <1>1, <1>2, <1>5
  <2> QED
    BY <2>1, <2>2
<1> HIDE DEF at2
<1> QED
  BY <1>6, <1>7, <1>8, <1>9 DEF Aligned, infos2

\* Executing a command that is not redirected leaves the queue.
LEMMA AlignedTailReal ==
    ASSUME NEW cmds \in Seq(Commands), NEW infos \in Seq(Infos), cmds # <<>>,
           Aligned(cmds, infos), ~Head(cmds).redirected
    PROVE  Aligned(Tail(cmds), infos)
<1> DEFINE R(c) == {i \in DOMAIN c : c[i].redirected}
           rest == Tail(cmds)
<1>1. PICK at \in [DOMAIN infos -> R(cmds)] :
        /\ \A i \in R(cmds) : \E j \in DOMAIN infos : at[j] = i
        /\ \A j, k \in DOMAIN infos : j < k => at[j] < at[k]
        /\ \A j \in DOMAIN infos : infos[j] = InfoOf(cmds[at[j]])
  BY DEF Aligned
<1>2. /\ Len(cmds) \in Nat /\ DOMAIN cmds = 1..Len(cmds) /\ Head(cmds) = cmds[1]
      /\ DOMAIN rest = 1..(Len(cmds) - 1)
      /\ \A i \in 1..(Len(cmds) - 1) : rest[i] = cmds[i + 1]
  BY TailIs
<1> HIDE DEF rest
<1>3. /\ \A i \in R(cmds) : i \in Nat /\ i - 1 \in R(rest) /\ rest[i - 1] = cmds[i]
      /\ \A i \in R(rest) : i \in Nat /\ i + 1 \in R(cmds)
  <2>1. \A i \in R(cmds) : i \in 2..Len(cmds)
    BY <1>2
  <2>2. \A i \in R(cmds) : i - 1 \in 1..(Len(cmds) - 1) /\ rest[i - 1] = cmds[i]
    <3> SUFFICES ASSUME NEW i \in R(cmds)
                 PROVE  i - 1 \in 1..(Len(cmds) - 1) /\ rest[i - 1] = cmds[i]
      OBVIOUS
    <3>1. i - 1 \in 1..(Len(cmds) - 1) /\ (i - 1) + 1 = i
      BY <2>1, <1>2
    <3>2. rest[i - 1] = cmds[(i - 1) + 1]
      BY <3>1, <1>2
    <3> QED
      BY <3>1, <3>2
  <2>3. \A i \in R(rest) : i \in 1..(Len(cmds) - 1) /\ i + 1 \in 1..Len(cmds)
    BY <1>2
  <2> QED
    BY <1>2, <2>1, <2>2, <2>3
<1> DEFINE at2 == [j \in DOMAIN infos |-> at[j] - 1]
<1>4. /\ at2 \in [DOMAIN infos -> R(rest)]
      /\ \A j \in DOMAIN infos : at[j] \in R(cmds) /\ at2[j] = at[j] - 1
  BY <1>1, <1>3
<1> HIDE DEF at2
<1>5. \A i \in R(rest) : \E j \in DOMAIN infos : at2[j] = i
  <2> SUFFICES ASSUME NEW i \in R(rest) PROVE \E j \in DOMAIN infos : at2[j] = i
    OBVIOUS
  <2>1. PICK j \in DOMAIN infos : at[j] = i + 1
    BY <1>1, <1>3
  <2>2. i \in Nat /\ at2[j] = (i + 1) - 1
    BY <2>1, <1>3, <1>4
  <2> QED
    BY <2>2
<1>6. \A j, k \in DOMAIN infos : j < k => at2[j] < at2[k]
  BY <1>1, <1>3, <1>4
<1>7. \A j \in DOMAIN infos : infos[j] = InfoOf(rest[at2[j]])
  BY <1>1, <1>3, <1>4
<1> QED
  BY <1>4, <1>5, <1>6, <1>7 DEF Aligned, rest

\* Executing a redirected command pops its info.
LEMMA AlignedTailStub ==
    ASSUME NEW cmds \in Seq(Commands), NEW infos \in Seq(Infos), cmds # <<>>,
           Aligned(cmds, infos), Head(cmds).redirected
    PROVE  /\ infos # <<>> /\ Head(infos) = InfoOf(Head(cmds))
           /\ Aligned(Tail(cmds), Tail(infos))
<1> DEFINE R(c) == {i \in DOMAIN c : c[i].redirected}
           rest == Tail(cmds)
           infos2 == Tail(infos)
<1>1. PICK at \in [DOMAIN infos -> R(cmds)] :
        /\ \A i \in R(cmds) : \E j \in DOMAIN infos : at[j] = i
        /\ \A j, k \in DOMAIN infos : j < k => at[j] < at[k]
        /\ \A j \in DOMAIN infos : infos[j] = InfoOf(cmds[at[j]])
  BY DEF Aligned
<1>2. /\ Len(cmds) \in Nat /\ Len(cmds) >= 1 /\ DOMAIN cmds = 1..Len(cmds) /\ Head(cmds) = cmds[1]
      /\ DOMAIN rest = 1..(Len(cmds) - 1)
      /\ \A i \in 1..(Len(cmds) - 1) : rest[i] = cmds[i + 1]
  BY TailIs
<1>3. 1 \in R(cmds)
  BY <1>2
<1>4. PICK first \in DOMAIN infos : at[first] = 1
  BY <1>1, <1>3
<1>5. infos # <<>>
  BY <1>4
<1>6. /\ Len(infos) \in Nat /\ Len(infos) >= 1 /\ DOMAIN infos = 1..Len(infos)
      /\ Head(infos) = infos[1]
      /\ DOMAIN infos2 = 1..(Len(infos) - 1)
      /\ \A i \in 1..(Len(infos) - 1) : infos2[i] = infos[i + 1]
  BY <1>5, TailIs
<1> HIDE DEF rest, infos2
<1>7. \A j \in DOMAIN infos : at[j] \in R(cmds) /\ at[j] \in 1..Len(cmds)
  BY <1>1, <1>2
<1>8. at[1] = 1
  <2>1. CASE first = 1
    BY <2>1, <1>4
  <2>2. CASE first # 1
    <3>1. 1 \in DOMAIN infos /\ 1 < first
      BY <2>2, <1>4, <1>6
    <3>2. at[1] < at[first]
      BY <3>1, <1>1
    <3> QED
      BY <3>1, <3>2, <1>4, <1>7, <1>2
  <2> QED
    BY <2>1, <2>2
<1>9. Head(infos) = InfoOf(Head(cmds))
  <2>1. 1 \in DOMAIN infos
    BY <1>6
  <2>2. infos[1] = InfoOf(cmds[at[1]])
    BY <2>1, <1>1
  <2> QED
    BY <2>2, <1>2, <1>6, <1>8
<1>10. \A i \in R(rest) : i \in 1..(Len(cmds) - 1) /\ i + 1 \in R(cmds)
  BY <1>2
<1>11. \A j \in 1..(Len(infos) - 1) :
         /\ j + 1 \in DOMAIN infos /\ at[j + 1] \in 2..Len(cmds) /\ at[j + 1] \in R(cmds)
  <2> SUFFICES ASSUME NEW j \in 1..(Len(infos) - 1)
               PROVE  j + 1 \in DOMAIN infos /\ at[j + 1] \in 2..Len(cmds) /\ at[j + 1] \in R(cmds)
    OBVIOUS
  <2>1. 1 \in DOMAIN infos /\ j + 1 \in DOMAIN infos /\ 1 < j + 1
    BY <1>6
  <2>2. at[1] < at[j + 1]
    BY <2>1, <1>1
  <2> QED
    BY <2>1, <2>2, <1>7, <1>8, <1>2
<1> DEFINE at2 == [j \in 1..(Len(infos) - 1) |-> at[j + 1] - 1]
<1>12. \A j \in 1..(Len(infos) - 1) :
         /\ at2[j] = at[j + 1] - 1 /\ at2[j] \in 1..(Len(cmds) - 1)
         /\ rest[at2[j]] = cmds[at[j + 1]] /\ at2[j] \in R(rest)
  <2> SUFFICES ASSUME NEW j \in 1..(Len(infos) - 1)
               PROVE  /\ at2[j] = at[j + 1] - 1 /\ at2[j] \in 1..(Len(cmds) - 1)
                      /\ rest[at2[j]] = cmds[at[j + 1]] /\ at2[j] \in R(rest)
    OBVIOUS
  <2>1. at2[j] = at[j + 1] - 1
    OBVIOUS
  <2> HIDE DEF at2
  <2>2. at2[j] \in 1..(Len(cmds) - 1) /\ at2[j] + 1 = at[j + 1]
    BY <2>1, <1>2, <1>11
  <2>3. rest[at2[j]] = cmds[at2[j] + 1]
    BY <2>2, <1>2
  <2> QED
    BY <2>1, <2>2, <2>3, <1>2, <1>11
<1>13. at2 \in [DOMAIN infos2 -> R(rest)]
  BY <1>6, <1>12
<1> HIDE DEF at2
<1>14. \A i \in R(rest) : \E j \in DOMAIN infos2 : at2[j] = i
  <2> SUFFICES ASSUME NEW i \in R(rest) PROVE \E j \in DOMAIN infos2 : at2[j] = i
    OBVIOUS
  <2>1. PICK k \in DOMAIN infos : at[k] = i + 1
    BY <1>1, <1>10
  <2>2. k # 1
    BY <2>1, <1>8, <1>10
  <2>3. k - 1 \in 1..(Len(infos) - 1) /\ (k - 1) + 1 = k
    BY <2>2, <1>6
  <2>4. at2[k - 1] = at[k] - 1
    BY <2>3, <1>12
  <2>5. at2[k - 1] = i
    BY <2>1, <2>4, <1>10
  <2> QED
    BY <2>3, <2>5, <1>6
<1>15. \A j, k \in DOMAIN infos2 : j < k => at2[j] < at2[k]
  <2> SUFFICES ASSUME NEW j \in 1..(Len(infos) - 1), NEW k \in 1..(Len(infos) - 1), j < k
               PROVE  at2[j] < at2[k]
    BY <1>6
  <2>1. at[j + 1] < at[k + 1]
    BY <1>1, <1>11
  <2> QED
    BY <2>1, <1>11, <1>12, <1>2
<1>16. \A j \in DOMAIN infos2 : infos2[j] = InfoOf(rest[at2[j]])
  BY <1>1, <1>6, <1>11, <1>12
<1> QED
  BY <1>5, <1>9, <1>13, <1>14, <1>15, <1>16 DEF Aligned, rest, infos2

-----------------------------------------------------------------------------
(* The steps *)

\* What a step may do to an answered transaction: nothing.
Settled == \A x \in Txns : answer[x] # None => UNCHANGED <<answer[x], executed[x]>>

LEMMA InitIInv == Init => IInv
<1> SUFFICES ASSUME Init PROVE IInv
  OBVIOUS
<1> USE DEF Init
<1>1. /\ \A t \in Threads : mIn[t] = <<>> /\ queue[t] = <<>> /\ stack[t] = <<>> /\ scanned[t] = 0
      /\ \A S : <<>> \in Seq(S)
      /\ DOMAIN <<>> = {} /\ Len(<<>>) = 0
  OBVIOUS
<1>2. TypeOK
  <2>1. registry \in [Targets -> 0..MaxDaemons] /\ daemon \in 0..MaxDaemons
    BY NativeAssumption
  <2>2. alive \in BOOLEAN /\ targets \subseteq Targets /\ lostPost \subseteq Txns
    OBVIOUS
  <2>3. mIn \in [Threads -> Seq(Commands)] /\ queue \in [Threads -> Seq(Infos)]
    BY <1>1
  <2>4. stack \in [Threads -> Seq(Frames)]
    BY <1>1
  <2>5. scanned \in [Threads -> Nat] /\ \A t \in Threads : scanned[t] <= Len(mIn[t])
    BY <1>1
  <2>6. executed \in [Txns -> 0..2] /\ answer \in [Txns -> Answers \cup {None}]
    OBVIOUS
  <2> QED
    BY <2>1, <2>2, <2>3, <2>4, <2>5, <2>6 DEF TypeOK
<1>3. QueueAligned
  BY <1>1, AlignedEmpty DEF QueueAligned
<1>4. Untouched /\ InFlight /\ OnePlace
  BY <1>1 DEF Untouched, InFlight, OnePlace
<1>5. ExecutedOnce
  BY NativeAssumption DEF ExecutedOnce, Answers
<1> QED
  BY <1>2, <1>3, <1>4, <1>5 DEF IInv

\* Steps of the daemon and of the targets.
LEMMA OutsideStep ==
    ASSUME IInv, UNCHANGED <<mIn, scanned, queue, stack, executed, answer, lostPost>>, TypeOK'
    PROVE  IInv' /\ Settled
<1>1. QueueAligned' /\ Untouched'
  BY DEF IInv, QueueAligned, Untouched
<1>2. InFlight' /\ OnePlace' /\ ExecutedOnce' /\ Settled
  BY DEF IInv, InFlight, OnePlace, ExecutedOnce, Settled
<1> QED
  BY <1>1, <1>2 DEF IInv

LEMMA RegisterStep ==
    ASSUME IInv, NEW target \in Targets, Register(target)
    PROVE  IInv' /\ Settled
  BY OutsideStep DEF IInv, TypeOK, Register

LEMMA TargetGoneStep ==
    ASSUME IInv, NEW target \in Targets, TargetGone(target)
    PROVE  IInv' /\ Settled
  BY OutsideStep DEF IInv, TypeOK, TargetGone

LEMMA DaemonStep ==
    ASSUME IInv, DaemonStarts \/ DaemonDies
    PROVE  IInv' /\ Settled
<1>1. daemon' \in 0..MaxDaemons
  BY NativeAssumption DEF IInv, TypeOK, DaemonStarts, DaemonDies
<1>2. alive' \in BOOLEAN
  BY DEF IInv, TypeOK, DaemonStarts, DaemonDies
<1> QED
  BY <1>1, <1>2, OutsideStep DEF IInv, TypeOK, DaemonStarts, DaemonDies

\* A buffer is read.
LEMMA ReadStep ==
    ASSUME IInv, NEW t \in Threads, NEW b \in Batches, Read(t, b)
    PROVE  IInv' /\ Settled
<1>1. b \in Seq(Commands)
  <2>1. PICK n \in 1..MaxBatch :
          b \in [1..n -> [id : Arriving, target : targets, kind : Kinds, redirected : {FALSE}]]
    BY DEF Batches
  <2>2. n \in Nat
    BY NativeAssumption
  <2>3. Arriving \subseteq Txns /\ targets \subseteq Targets
    BY DEF IInv, TypeOK, Arriving
  <2>4. [id : Arriving, target : targets, kind : Kinds, redirected : {FALSE}] \subseteq Commands
    BY <2>3 DEF Commands
  <2>5. b \in [1..n -> Commands]
    BY <2>1, <2>4
  <2> QED
    BY <2>2, <2>5
<1>2. \A i \in DOMAIN b : b[i].id \in Arriving /\ b[i].redirected = FALSE
  <2>1. PICK n \in 1..MaxBatch :
          b \in [1..n -> [id : Arriving, target : targets, kind : Kinds, redirected : {FALSE}]]
    BY DEF Batches
  <2> QED
    BY <2>1
<1>3. \A i, j \in DOMAIN b : b[i].id = b[j].id => i = j
  BY DEF Batches
<1>4. /\ mIn[t] = <<>> /\ mIn' = [mIn EXCEPT ![t] = b]
      /\ UNCHANGED <<registry, targets, daemon, alive, scanned, queue, stack, executed, answer, lostPost>>
  BY DEF Read
<1>5. TypeOK
  BY DEF IInv
<1>6. scanned[t] = 0 /\ Len(b) \in Nat /\ mIn'[t] = b /\ \A u \in Threads : u # t => mIn'[u] = mIn[u]
  BY <1>1, <1>4, <1>5 DEF TypeOK
<1>7. TypeOK'
  <2>1. mIn' \in [Threads -> Seq(Commands)]
    BY <1>1, <1>4, <1>5 DEF TypeOK
  <2>2. \A u \in Threads : scanned'[u] <= Len(mIn'[u])
    BY <1>4, <1>5, <1>6 DEF TypeOK
  <2> QED
    BY <2>1, <2>2, <1>4, <1>5 DEF TypeOK
<1>8. QueueAligned'
  <2>1. queue[t] = <<>>
    <3>1. Aligned(mIn[t], queue[t]) /\ mIn[t] \in Seq(Commands) /\ queue[t] \in Seq(Infos)
      BY <1>5 DEF IInv, QueueAligned, TypeOK
    <3>2. DOMAIN mIn[t] = {}
      BY <1>4
    <3> QED
      BY <3>1, <3>2, AlignedNone
  <2>2. Aligned(mIn'[t], queue'[t])
    BY <2>1, <1>1, <1>2, <1>4, <1>6, AlignedEmpty
  <2>3. \A u \in Threads : u # t => Aligned(mIn'[u], queue'[u])
    BY <1>4, <1>6 DEF IInv, QueueAligned
  <2> QED
    BY <2>2, <2>3 DEF QueueAligned
<1>9. Untouched'
  BY <1>2, <1>4, <1>6 DEF IInv, Untouched
<1>10. InFlight'
  <2>1. \A i \in DOMAIN b : answer[b[i].id] = None /\ executed[b[i].id] = 0
    BY <1>2 DEF Arriving
  <2> QED
    BY <2>1, <1>4, <1>6 DEF IInv, InFlight
<1>11. OnePlace'
  <2>1. \A i \in DOMAIN b : \A u \in Threads :
          /\ \A j \in DOMAIN mIn[u] : mIn[u][j].id # b[i].id
          /\ \A j \in DOMAIN stack[u] : stack[u][j].id # b[i].id
    BY <1>2 DEF Arriving
  <2>2. \A v, u \in Threads : \A i \in DOMAIN mIn'[v], j \in DOMAIN mIn'[u] :
          mIn'[v][i].id = mIn'[u][j].id => v = u /\ i = j
    <3> SUFFICES ASSUME NEW v \in Threads, NEW u \in Threads,
                        NEW i \in DOMAIN mIn'[v], NEW j \in DOMAIN mIn'[u],
                        mIn'[v][i].id = mIn'[u][j].id
                 PROVE  v = u /\ i = j
      OBVIOUS
    <3>1. CASE v = t /\ u = t
      BY <3>1, <1>3, <1>6
    <3>2. CASE v # t /\ u # t
      BY <3>2, <1>6 DEF IInv, OnePlace
    <3>3. CASE v = t /\ u # t
      BY <3>3, <2>1, <1>6
    <3>4. CASE v # t /\ u = t
      BY <3>4, <2>1, <1>6
    <3> QED
      BY <3>1, <3>2, <3>3, <3>4
  <2>3. \A v, u \in Threads : \A i \in DOMAIN mIn'[v], j \in DOMAIN stack'[u] :
          mIn'[v][i].id # stack'[u][j].id
    BY <2>1, <1>4, <1>6 DEF IInv, OnePlace
  <2> QED
    BY <2>2, <2>3, <1>4 DEF IInv, OnePlace
<1>12. ExecutedOnce' /\ Settled
  BY <1>4 DEF IInv, ExecutedOnce, Settled
<1> QED
  BY <1>7, <1>8, <1>9, <1>10, <1>11, <1>12 DEF IInv

\* Redirecting touches nothing but the mark.
LEMMA RedirectIs ==
    ASSUME NEW cmd \in Commands
    PROVE  /\ Redirect(cmd) \in Commands
           /\ Redirect(cmd).id = cmd.id
           /\ InfoOf(Redirect(cmd)) = InfoOf(cmd)
           /\ InfoOf(cmd) \in Infos
<1> DEFINE mark == cmd.kind = "backdoor" \/ ShouldIntercept(cmd.target, cmd.kind)
<1>1. Redirect(cmd) = [cmd EXCEPT !.redirected = mark]
  BY DEF Redirect
<1>2. mark \in BOOLEAN
  BY Zenon
<1> HIDE DEF mark
<1>3. Redirect(cmd) \in Commands /\ Redirect(cmd).id = cmd.id
  BY <1>1, <1>2 DEF Commands
<1>4. Redirect(cmd).kind = cmd.kind /\ Redirect(cmd).target = cmd.target
  BY <1>1 DEF Commands
<1>5. InfoOf(cmd) \in Infos
  BY DEF InfoOf, Infos, Commands
<1> QED
  BY <1>3, <1>4, <1>5 DEF InfoOf

\* The hook looks at one transaction.
LEMMA ProcessStep ==
    ASSUME IInv, NEW t \in Threads, ProcessBinderTransaction(t)
    PROVE  IInv' /\ Settled
<1> DEFINE k == scanned[t] + 1
           cmd == Redirect(mIn[t][k])
<1>1. /\ k <= Len(mIn[t])
      /\ mIn' = [mIn EXCEPT ![t] = [mIn[t] EXCEPT ![k] = cmd]]
      /\ scanned' = [scanned EXCEPT ![t] = k]
      /\ queue' = IF cmd.redirected THEN [queue EXCEPT ![t] = Append(@, InfoOf(cmd))] ELSE queue
      /\ UNCHANGED <<registry, targets, daemon, alive, stack, executed, answer, lostPost>>
  BY DEF ProcessBinderTransaction
<1>2. TypeOK /\ QueueAligned /\ Untouched
  BY DEF IInv
<1>3. /\ mIn[t] \in Seq(Commands) /\ queue[t] \in Seq(Infos) /\ scanned[t] \in Nat
      /\ Len(mIn[t]) \in Nat /\ DOMAIN mIn[t] = 1..Len(mIn[t])
  BY <1>2 DEF TypeOK
<1>4. k \in 1..Len(mIn[t])
  BY <1>1, <1>3
<1>5. /\ cmd \in Commands /\ cmd.id = mIn[t][k].id
      /\ InfoOf(cmd) = InfoOf(mIn[t][k]) /\ InfoOf(cmd) \in Infos
  <2>1. mIn[t][k] \in Commands
    BY <1>3, <1>4
  <2> QED
    BY <2>1, RedirectIs
<1> HIDE DEF k, cmd
<1>6. /\ mIn'[t] \in Seq(Commands) /\ Len(mIn'[t]) = Len(mIn[t]) /\ DOMAIN mIn'[t] = DOMAIN mIn[t]
      /\ mIn'[t][k] = cmd
      /\ \A i \in DOMAIN mIn[t] : i # k => mIn'[t][i] = mIn[t][i]
  <2>1. mIn'[t] = [mIn[t] EXCEPT ![k] = cmd]
    BY <1>1, <1>2 DEF TypeOK
  <2> QED
    BY <2>1, <1>3, <1>4, <1>5
<1>7. \A u \in Threads : u # t => mIn'[u] = mIn[u] /\ scanned'[u] = scanned[u] /\ queue'[u] = queue[u]
  BY <1>1, <1>2 DEF TypeOK
<1>8. scanned'[t] = k /\ k = scanned[t] + 1
  BY <1>1, <1>2 DEF TypeOK, k
<1>9. queue' \in [Threads -> Seq(Infos)] /\ Aligned(mIn'[t], queue'[t])
  <2>1. Aligned(mIn[t], queue[t])
    BY <1>2 DEF QueueAligned
  <2>2. \A i \in DOMAIN mIn[t] : i >= k => ~mIn[t][i].redirected
    BY <1>2, <1>3, <1>8 DEF Untouched
  <2>3. CASE cmd.redirected
    <3>1. queue' = [queue EXCEPT ![t] = Append(queue[t], InfoOf(cmd))]
      BY <1>1, <2>3
    <3>2. queue'[t] = Append(queue[t], InfoOf(cmd))
      BY <3>1, <1>2 DEF TypeOK
    <3>3. Aligned(mIn'[t], queue'[t])
      BY <3>2, <2>1, <2>2, <2>3, <1>3, <1>4, <1>5, <1>6, AlignedAppend
    <3>4. Append(queue[t], InfoOf(cmd)) \in Seq(Infos)
      BY <1>3, <1>5, AppendIs
    <3> QED
      BY <3>1, <3>3, <3>4, <1>2 DEF TypeOK
  <2>4. CASE ~cmd.redirected
    <3>1. queue' = queue
      BY <1>1, <2>4
    <3>2. ~mIn[t][k].redirected
      BY <2>2, <1>3, <1>4
    <3>3. \A i \in DOMAIN mIn[t] : /\ mIn'[t][i].redirected <=> mIn[t][i].redirected
                                   /\ InfoOf(mIn'[t][i]) = InfoOf(mIn[t][i])
      BY <3>2, <2>4, <1>5, <1>6
    <3>4. Aligned(mIn'[t], queue[t])
      BY <3>3, <2>1, <1>3, <1>6, AlignedSame
    <3> QED
      BY <3>1, <3>4, <1>2 DEF TypeOK
  <2> QED
    BY <2>3, <2>4
<1>10. TypeOK'
  <2>1. mIn' \in [Threads -> Seq(Commands)]
    BY <1>1, <1>2, <1>3, <1>4, <1>5 DEF TypeOK
  <2>2. scanned' \in [Threads -> Nat] /\ \A u \in Threads : scanned'[u] <= Len(mIn'[u])
    BY <1>1, <1>2, <1>3, <1>4, <1>6, <1>7, <1>8 DEF TypeOK
  <2> QED
    BY <2>1, <2>2, <1>1, <1>2, <1>9 DEF TypeOK
<1>11. QueueAligned'
  BY <1>2, <1>7, <1>9 DEF QueueAligned
<1>12. Untouched'
  <2>1. \A i \in DOMAIN mIn'[t] : i > scanned'[t] => ~mIn'[t][i].redirected
    BY <1>2, <1>3, <1>6, <1>8 DEF Untouched
  <2> QED
    BY <2>1, <1>2, <1>7 DEF Untouched
<1>13. \A u \in Threads : /\ DOMAIN mIn'[u] = DOMAIN mIn[u]
                          /\ \A i \in DOMAIN mIn[u] : mIn'[u][i].id = mIn[u][i].id
  BY <1>5, <1>6, <1>7
<1>14. InFlight'
  BY <1>1, <1>13 DEF IInv, InFlight
<1>15. OnePlace'
  BY <1>1, <1>13 DEF IInv, OnePlace
<1>16. ExecutedOnce' /\ Settled
  BY <1>1 DEF IInv, ExecutedOnce, Settled
<1> QED
  BY <1>10, <1>11, <1>12, <1>14, <1>15, <1>16 DEF IInv

\* What executing the first transaction of a buffer does to the buffers.
LEMMA ExecutingIs ==
    ASSUME IInv, NEW t \in Threads, Executing(t)
    PROVE  /\ mIn[t] \in Seq(Commands) /\ mIn[t] # <<>> /\ mIn'[t] = Tail(mIn[t])
           /\ Head(mIn[t]) = mIn[t][1] /\ Head(mIn[t]) \in Commands /\ 1 \in DOMAIN mIn[t]
           /\ mIn' \in [Threads -> Seq(Commands)]
           /\ scanned' \in [Threads -> Nat] /\ \A u \in Threads : scanned'[u] <= Len(mIn'[u])
           /\ Untouched'
           /\ \A u \in Threads : u # t => mIn'[u] = mIn[u]
           /\ \A u \in Threads : \A i \in DOMAIN mIn'[u] :
                /\ mIn'[u][i].id # Head(mIn[t]).id
                /\ IF u = t THEN i + 1 \in DOMAIN mIn[u] /\ mIn'[u][i] = mIn[u][i + 1]
                            ELSE i \in DOMAIN mIn[u] /\ mIn'[u][i] = mIn[u][i]
<1>1. TypeOK /\ Untouched /\ OnePlace
  BY DEF IInv
<1>2. /\ mIn[t] # <<>> /\ scanned[t] = Len(mIn[t])
      /\ mIn' = [mIn EXCEPT ![t] = Tail(mIn[t])]
      /\ scanned' = [scanned EXCEPT ![t] = scanned[t] - 1]
  BY DEF Executing
<1>3. mIn[t] \in Seq(Commands)
  BY <1>1 DEF TypeOK
<1>4. /\ Len(mIn[t]) \in Nat /\ Len(mIn[t]) >= 1 /\ DOMAIN mIn[t] = 1..Len(mIn[t])
      /\ Head(mIn[t]) = mIn[t][1] /\ Head(mIn[t]) \in Commands
      /\ Tail(mIn[t]) \in Seq(Commands) /\ Len(Tail(mIn[t])) = Len(mIn[t]) - 1
      /\ DOMAIN Tail(mIn[t]) = 1..(Len(mIn[t]) - 1)
      /\ \A i \in 1..(Len(mIn[t]) - 1) : Tail(mIn[t])[i] = mIn[t][i + 1]
  BY <1>2, <1>3, TailIs
<1>5. /\ mIn'[t] = Tail(mIn[t]) /\ scanned'[t] = Len(mIn'[t])
      /\ \A u \in Threads : u # t => mIn'[u] = mIn[u] /\ scanned'[u] = scanned[u]
  BY <1>1, <1>2, <1>4 DEF TypeOK
<1>6. mIn' \in [Threads -> Seq(Commands)]
  BY <1>1, <1>2, <1>4 DEF TypeOK
<1>7. scanned' \in [Threads -> Nat] /\ \A u \in Threads : scanned'[u] <= Len(mIn'[u])
  BY <1>1, <1>2, <1>4, <1>5 DEF TypeOK
<1>8. Untouched'
  <2>1. \A i \in DOMAIN mIn'[t] : ~(i > scanned'[t])
    BY <1>4, <1>5
  <2> QED
    BY <2>1, <1>1, <1>5 DEF Untouched
<1>9. ASSUME NEW u \in Threads, NEW i \in DOMAIN mIn'[u]
      PROVE  /\ mIn'[u][i].id # Head(mIn[t]).id
             /\ IF u = t THEN i + 1 \in DOMAIN mIn[u] /\ mIn'[u][i] = mIn[u][i + 1]
                         ELSE i \in DOMAIN mIn[u] /\ mIn'[u][i] = mIn[u][i]
  <2>1. 1 \in DOMAIN mIn[t]
    BY <1>4
  <2>2. CASE u = t
    <3>1. i \in 1..(Len(mIn[t]) - 1) /\ i + 1 \in DOMAIN mIn[t] /\ i + 1 # 1
      BY <2>2, <1>4, <1>5
    <3>2. mIn'[u][i] = mIn[t][i + 1]
      BY <3>1, <2>2, <1>4, <1>5
    <3> QED
      BY <3>1, <3>2, <2>1, <2>2, <1>1, <1>4 DEF OnePlace
  <2>3. CASE u # t
    BY <2>1, <2>3, <1>1, <1>4, <1>5 DEF OnePlace
  <2> QED
    BY <2>2, <2>3
<1>10. 1 \in DOMAIN mIn[t]
  BY <1>4
<1> QED
  BY <1>2, <1>3, <1>4, <1>5, <1>6, <1>7, <1>8, <1>9, <1>10

\* The caller of a transaction that is nowhere any more gets its answer.
LEMMA SettleStep ==
    ASSUME IInv, NEW x \in Txns, NEW a \in Answers, NEW n \in 0..2,
           answer[x] = None, executed[x] # 2,
           answer' = [answer EXCEPT ![x] = a],
           executed' = [executed EXCEPT ![x] = n],
           lostPost' = IF n = 2 THEN lostPost \cup {x} ELSE lostPost,
           a \in {"REAL", "POST_OVERRIDE"} <=> n >= 1,
           \A u \in Threads : \A i \in DOMAIN mIn'[u] :
             mIn'[u][i].id # x /\ \E j \in DOMAIN mIn[u] : mIn'[u][i] = mIn[u][j],
           \A u \in Threads : \A i \in DOMAIN stack'[u] :
             stack'[u][i].id # x /\ \E j \in DOMAIN stack[u] : stack'[u][i] = stack[u][j]
    PROVE  /\ InFlight' /\ ExecutedOnce' /\ Settled
           /\ answer' \in [Txns -> Answers \cup {None}]
           /\ executed' \in [Txns -> 0..2] /\ lostPost' \subseteq Txns
<1>1. TypeOK /\ InFlight /\ ExecutedOnce
  BY DEF IInv
<1>2. answer' \in [Txns -> Answers \cup {None}]
  BY <1>1 DEF TypeOK
<1>3. executed' \in [Txns -> 0..2] /\ lostPost' \subseteq Txns
  BY <1>1 DEF TypeOK
<1>4. /\ answer'[x] = a /\ executed'[x] = n
      /\ \A y \in Txns : y # x => answer'[y] = answer[y] /\ executed'[y] = executed[y]
      /\ \A y \in Txns : y # x => (y \in lostPost' <=> y \in lostPost)
  BY <1>1 DEF TypeOK
<1>5. InFlight'
  <2>1. ASSUME NEW u \in Threads, NEW i \in DOMAIN mIn'[u]
        PROVE  answer'[mIn'[u][i].id] = None /\ executed'[mIn'[u][i].id] = 0
    <3>1. PICK j \in DOMAIN mIn[u] : mIn'[u][i] = mIn[u][j]
      OBVIOUS
    <3>2. mIn[u][j].id \in Txns /\ mIn[u][j].id # x
      <4>1. mIn[u] \in Seq(Commands)
        BY <1>1 DEF TypeOK
      <4>2. mIn[u][j] \in Commands
        BY <4>1
      <4> QED
        BY <4>2, <3>1 DEF Commands
    <3> QED
      BY <3>1, <3>2, <1>1, <1>4 DEF InFlight
  <2>2. ASSUME NEW u \in Threads, NEW i \in DOMAIN stack'[u]
        PROVE  /\ answer'[stack'[u][i].id] = None
               /\ executed'[stack'[u][i].id] = IF stack'[u][i].pc = "pre" THEN 0 ELSE 1
    <3>1. PICK j \in DOMAIN stack[u] : stack'[u][i] = stack[u][j]
      OBVIOUS
    <3>2. stack[u][j].id \in Txns /\ stack[u][j].id # x
      <4>1. stack[u] \in Seq(Frames)
        BY <1>1 DEF TypeOK
      <4>2. stack[u][j] \in Frames
        BY <4>1
      <4> QED
        BY <4>2, <3>1 DEF Frames
    <3> QED
      BY <3>1, <3>2, <1>1, <1>4 DEF InFlight
  <2> QED
    BY <2>1, <2>2 DEF InFlight
<1>6. ExecutedOnce'
  <2>1. /\ executed'[x] = 2 <=> x \in lostPost'
        /\ answer'[x] \in {"REAL", "POST_OVERRIDE"} => executed'[x] >= 1
        /\ answer'[x] \in Answers \ {"REAL", "POST_OVERRIDE"} => executed'[x] = 0
    BY <1>1, <1>4 DEF ExecutedOnce
  <2> QED
    BY <2>1, <1>1, <1>4 DEF ExecutedOnce
<1>7. Settled
  BY <1>4 DEF Settled
<1> QED
  BY <1>2, <1>3, <1>5, <1>6, <1>7

\* Executing leaves every transaction in one place.
LEMMA ExecutingOnePlace ==
    ASSUME IInv, NEW t \in Threads, Executing(t)
    PROVE  \A v, u \in Threads : \A i \in DOMAIN mIn'[v], j \in DOMAIN mIn'[u] :
             mIn'[v][i].id = mIn'[u][j].id => v = u /\ i = j
<1> SUFFICES ASSUME NEW v \in Threads, NEW u \in Threads,
                    NEW i \in DOMAIN mIn'[v], NEW j \in DOMAIN mIn'[u],
                    mIn'[v][i].id = mIn'[u][j].id
             PROVE  v = u /\ i = j
  OBVIOUS
<1>1. mIn'[v] \in Seq(Commands) /\ mIn'[u] \in Seq(Commands)
  BY ExecutingIs
<1>2. i \in Nat /\ j \in Nat
  BY <1>1
<1>3. /\ IF v = t THEN i + 1 \in DOMAIN mIn[v] /\ mIn'[v][i] = mIn[v][i + 1]
                  ELSE i \in DOMAIN mIn[v] /\ mIn'[v][i] = mIn[v][i]
      /\ IF u = t THEN j + 1 \in DOMAIN mIn[u] /\ mIn'[u][j] = mIn[u][j + 1]
                  ELSE j \in DOMAIN mIn[u] /\ mIn'[u][j] = mIn[u][j]
  BY ExecutingIs
<1>4. OnePlace
  BY DEF IInv
<1>5. v = u
  BY <1>3, <1>4 DEF OnePlace
<1>6. CASE v = t
  <2>1. i + 1 = j + 1
    BY <1>3, <1>4, <1>5, <1>6 DEF OnePlace
  <2> QED
    BY <2>1, <1>2, <1>5
<1>7. CASE v # t
  BY <1>3, <1>4, <1>5, <1>7 DEF OnePlace
<1> QED
  BY <1>6, <1>7

LEMMA ExecuteRealStep ==
    ASSUME IInv, NEW t \in Threads, ExecuteReal(t)
    PROVE  IInv' /\ Settled
<1> DEFINE x == Head(mIn[t]).id
<1>1. /\ Executing(t) /\ ~Head(mIn[t]).redirected
      /\ executed' = [executed EXCEPT ![x] = executed[x] + 1]
      /\ answer' = [answer EXCEPT ![x] = "REAL"]
      /\ UNCHANGED <<registry, targets, daemon, alive, queue, stack, lostPost>>
  BY DEF ExecuteReal, Forward, Reply
<1>2. TypeOK /\ QueueAligned /\ InFlight /\ OnePlace
  BY DEF IInv
<1>3. Head(mIn[t]) = mIn[t][1] /\ Head(mIn[t]) \in Commands /\ 1 \in DOMAIN mIn[t]
  BY <1>1, ExecutingIs
<1>4. x \in Txns /\ answer[x] = None /\ executed[x] = 0
  BY <1>2, <1>3 DEF InFlight, Commands
<1>5. \A u \in Threads : \A i \in DOMAIN mIn'[u] :
        mIn'[u][i].id # x /\ \E j \in DOMAIN mIn[u] : mIn'[u][i] = mIn[u][j]
  <2> SUFFICES ASSUME NEW u \in Threads, NEW i \in DOMAIN mIn'[u]
               PROVE  mIn'[u][i].id # x /\ \E j \in DOMAIN mIn[u] : mIn'[u][i] = mIn[u][j]
    OBVIOUS
  <2>1. /\ mIn'[u][i].id # x
        /\ IF u = t THEN i + 1 \in DOMAIN mIn[u] /\ mIn'[u][i] = mIn[u][i + 1]
                    ELSE i \in DOMAIN mIn[u] /\ mIn'[u][i] = mIn[u][i]
    BY <1>1, ExecutingIs
  <2> QED
    BY <2>1
<1>6. \A u \in Threads : \A i \in DOMAIN stack[u] : stack[u][i].id # x
  BY <1>2, <1>3 DEF OnePlace
<1>7. /\ InFlight' /\ ExecutedOnce' /\ Settled
      /\ answer' \in [Txns -> Answers \cup {None}]
      /\ executed' \in [Txns -> 0..2] /\ lostPost' \subseteq Txns
  <2> HIDE DEF x
  <2>1. "REAL" \in Answers /\ 1 \in 0..2 /\ executed' = [executed EXCEPT ![x] = 1]
    BY <1>1, <1>4 DEF Answers
  <2>2. \A u \in Threads : \A i \in DOMAIN stack'[u] :
          stack'[u][i].id # x /\ \E j \in DOMAIN stack[u] : stack'[u][i] = stack[u][j]
    BY <1>1, <1>6
  <2>3. /\ "REAL" \in {"REAL", "POST_OVERRIDE"} <=> 1 >= 1
        /\ lostPost' = IF 1 = 2 THEN lostPost \cup {x} ELSE lostPost
        /\ executed[x] # 2
    BY <1>1, <1>4
  <2> QED
    BY <2>1, <2>2, <2>3, <1>1, <1>4, <1>5, SettleStep, Zenon
<1>8. TypeOK'
  BY <1>1, <1>2, <1>7, ExecutingIs DEF TypeOK
<1>9. QueueAligned'
  <2>1. Aligned(mIn'[t], queue'[t])
    <3>1. Aligned(mIn[t], queue[t]) /\ queue[t] \in Seq(Infos)
      BY <1>2 DEF QueueAligned, TypeOK
    <3>2. mIn[t] \in Seq(Commands) /\ mIn[t] # <<>> /\ mIn'[t] = Tail(mIn[t])
      BY <1>1, ExecutingIs
    <3> QED
      BY <3>1, <3>2, <1>1, AlignedTailReal
  <2> QED
    BY <2>1, <1>1, <1>2, ExecutingIs DEF QueueAligned
<1>10. OnePlace'
  <2>1. \A v, u \in Threads : \A i \in DOMAIN mIn'[v], j \in DOMAIN mIn'[u] :
          mIn'[v][i].id = mIn'[u][j].id => v = u /\ i = j
    BY <1>1, ExecutingOnePlace
  <2>2. \A v, u \in Threads : \A i \in DOMAIN mIn'[v], j \in DOMAIN stack'[u] :
          mIn'[v][i].id # stack'[u][j].id
    BY <1>1, <1>2, <1>5 DEF OnePlace
  <2> QED
    BY <2>1, <2>2, <1>1, <1>2 DEF OnePlace
<1>11. Untouched'
  BY <1>1, ExecutingIs
<1> QED
  BY <1>7, <1>8, <1>9, <1>10, <1>11 DEF IInv

\* What the stub answers by itself, and which target it serves else.
LEMMA StubAnswerIs ==
    ASSUME NEW q \in Seq(Infos), q # <<>>
    PROVE  /\ StubAnswer(q) # None => StubAnswer(q) \in Answers \ {"REAL", "POST_OVERRIDE"}
           /\ StubAnswer(q) = None => Head(q).target \in Targets
<1>1. Head(q) \in Infos
  BY TailIs
<1>2. Head(q).target \in Targets \cup {None}
  BY <1>1 DEF Infos
<1>3. CASE Head(q).target = None
  BY <1>3, NativeAssumption DEF StubAnswer, Answers
<1>4. CASE Head(q).target # None /\ Head(q).target \notin targets
  BY <1>4, NativeAssumption DEF StubAnswer, Answers
<1>5. CASE Head(q).target # None /\ Head(q).target \in targets
  BY <1>2, <1>5 DEF StubAnswer
<1> QED
  BY <1>3, <1>4, <1>5

\* The stub executes a redirected transaction.
LEMMA ExecuteStubStep ==
    ASSUME IInv, NEW t \in Threads, ExecuteStub(t)
    PROVE  IInv' /\ Settled
<1> DEFINE x == Head(mIn[t]).id
           q == queue[t]
           f == [id |-> x, target |-> Head(q).target, interceptor |-> registry[Head(q).target], pc |-> "pre"]
<1>1. /\ Executing(t) /\ Head(mIn[t]).redirected
      /\ queue' = [queue EXCEPT ![t] = IF q = <<>> THEN q ELSE Tail(q)]
      /\ UNCHANGED <<registry, targets, daemon, alive, executed, lostPost>>
  BY DEF ExecuteStub
<1>2. TypeOK /\ QueueAligned /\ InFlight /\ OnePlace /\ ExecutedOnce
  BY DEF IInv
<1>3. /\ Head(mIn[t]) = mIn[t][1] /\ Head(mIn[t]) \in Commands /\ 1 \in DOMAIN mIn[t]
      /\ mIn[t] \in Seq(Commands) /\ mIn[t] # <<>> /\ mIn'[t] = Tail(mIn[t])
  BY <1>1, ExecutingIs
<1>4. x \in Txns /\ answer[x] = None /\ executed[x] = 0
  BY <1>2, <1>3 DEF InFlight, Commands
<1>5. \A u \in Threads : \A i \in DOMAIN mIn'[u] :
        mIn'[u][i].id # x /\ \E j \in DOMAIN mIn[u] : mIn'[u][i] = mIn[u][j]
  <2> SUFFICES ASSUME NEW u \in Threads, NEW i \in DOMAIN mIn'[u]
               PROVE  mIn'[u][i].id # x /\ \E j \in DOMAIN mIn[u] : mIn'[u][i] = mIn[u][j]
    OBVIOUS
  <2>1. /\ mIn'[u][i].id # x
        /\ IF u = t THEN i + 1 \in DOMAIN mIn[u] /\ mIn'[u][i] = mIn[u][i + 1]
                    ELSE i \in DOMAIN mIn[u] /\ mIn'[u][i] = mIn[u][i]
    BY <1>1, ExecutingIs
  <2> QED
    BY <2>1
<1>6. \A u \in Threads : \A i \in DOMAIN stack[u] : stack[u][i].id # x
  BY <1>2, <1>3 DEF OnePlace
<1>7. q \in Seq(Infos) /\ q # <<>> /\ Aligned(Tail(mIn[t]), Tail(q))
  <2>1. Aligned(mIn[t], q) /\ q \in Seq(Infos)
    BY <1>2 DEF QueueAligned, TypeOK
  <2> QED
    BY <2>1, <1>1, <1>3, AlignedTailStub
<1>8. queue' \in [Threads -> Seq(Infos)] /\ QueueAligned'
  <2>1. queue' = [queue EXCEPT ![t] = Tail(q)] /\ Tail(q) \in Seq(Infos)
    BY <1>1, <1>7, TailIs
  <2>2. queue' \in [Threads -> Seq(Infos)] /\ queue'[t] = Tail(q)
    BY <2>1, <1>2 DEF TypeOK
  <2>3. \A u \in Threads : u # t => queue'[u] = queue[u] /\ mIn'[u] = mIn[u]
    BY <2>1, <1>1, <1>2, ExecutingIs DEF TypeOK
  <2> QED
    BY <2>2, <2>3, <1>2, <1>3, <1>7 DEF QueueAligned
<1>9. Untouched' /\ mIn' \in [Threads -> Seq(Commands)]
      /\ scanned' \in [Threads -> Nat] /\ \A u \in Threads : scanned'[u] <= Len(mIn'[u])
  BY <1>1, ExecutingIs
<1>10. \A v, u \in Threads : \A i \in DOMAIN mIn'[v], j \in DOMAIN mIn'[u] :
         mIn'[v][i].id = mIn'[u][j].id => v = u /\ i = j
  BY <1>1, ExecutingOnePlace
<1> HIDE DEF x, q, f
<1>11. CASE StubAnswer(q) # None /\ answer' = [answer EXCEPT ![x] = StubAnswer(q)] /\ UNCHANGED stack
  <2>1. StubAnswer(q) \in Answers /\ StubAnswer(q) \notin {"REAL", "POST_OVERRIDE"}
    BY <1>7, <1>11, StubAnswerIs
  <2>2. 0 \in 0..2 /\ executed' = [executed EXCEPT ![x] = 0]
    BY <1>1, <1>2, <1>4 DEF TypeOK
  <2>3. \A u \in Threads : \A i \in DOMAIN stack'[u] :
          stack'[u][i].id # x /\ \E j \in DOMAIN stack[u] : stack'[u][i] = stack[u][j]
    BY <1>6, <1>11
  <2>4. /\ StubAnswer(q) \in {"REAL", "POST_OVERRIDE"} <=> 0 >= 1
        /\ lostPost' = IF 0 = 2 THEN lostPost \cup {x} ELSE lostPost
        /\ executed[x] # 2
    BY <2>1, <1>1, <1>4
  <2>5. /\ InFlight' /\ ExecutedOnce' /\ Settled
        /\ answer' \in [Txns -> Answers \cup {None}]
        /\ executed' \in [Txns -> 0..2] /\ lostPost' \subseteq Txns
    BY <2>1, <2>2, <2>3, <2>4, <1>4, <1>5, <1>11, SettleStep, Zenon
  <2>6. TypeOK'
    BY <2>5, <1>1, <1>2, <1>8, <1>9, <1>11 DEF TypeOK
  <2>7. OnePlace'
    BY <1>2, <1>5, <1>10, <1>11 DEF OnePlace
  <2> QED
    BY <2>5, <2>6, <2>7, <1>8, <1>9 DEF IInv
<1>12. CASE StubAnswer(q) = None /\ stack' = [stack EXCEPT ![t] = Append(stack[t], f)] /\ UNCHANGED answer
  <2>1. Head(q).target \in Targets
    BY <1>7, <1>12, StubAnswerIs
  <2>2. f \in Frames /\ f.id = x /\ f.pc = "pre"
    BY <2>1, <1>2, <1>4 DEF TypeOK, Frames, f
  <2>3. stack[t] \in Seq(Frames)
    BY <1>2 DEF TypeOK
  <2>4. /\ Len(stack[t]) \in Nat /\ DOMAIN stack[t] = 1..Len(stack[t])
        /\ Append(stack[t], f) \in Seq(Frames)
        /\ DOMAIN Append(stack[t], f) = 1..(Len(stack[t]) + 1)
        /\ \A i \in 1..Len(stack[t]) : Append(stack[t], f)[i] = stack[t][i]
        /\ Append(stack[t], f)[Len(stack[t]) + 1] = f
    BY <2>2, <2>3, AppendIs
  <2>5. /\ stack' \in [Threads -> Seq(Frames)] /\ stack'[t] = Append(stack[t], f)
        /\ \A u \in Threads : u # t => stack'[u] = stack[u]
    BY <2>4, <1>2, <1>12 DEF TypeOK
  <2>6. \A u \in Threads : \A i \in DOMAIN stack'[u] :
          \/ i \in DOMAIN stack[u] /\ stack'[u][i] = stack[u][i]
          \/ u = t /\ i = Len(stack[t]) + 1 /\ stack'[u][i] = f
    <3> SUFFICES ASSUME NEW u \in Threads, NEW i \in DOMAIN stack'[u]
                 PROVE  \/ i \in DOMAIN stack[u] /\ stack'[u][i] = stack[u][i]
                        \/ u = t /\ i = Len(stack[t]) + 1 /\ stack'[u][i] = f
      OBVIOUS
    <3>1. CASE u # t
      BY <3>1, <2>5
    <3>2. CASE u = t
      <4>1. i \in 1..(Len(stack[t]) + 1)
        BY <3>2, <2>4, <2>5
      <4>2. i \in 1..Len(stack[t]) \/ i = Len(stack[t]) + 1
        BY <4>1, <2>4
      <4> QED
        BY <4>2, <3>2, <2>4, <2>5
    <3> QED
      BY <3>1, <3>2
  <2>7. TypeOK'
    BY <2>5, <1>1, <1>2, <1>8, <1>9, <1>12 DEF TypeOK
  <2>8. InFlight'
    <3>1. \A u \in Threads : \A i \in DOMAIN mIn'[u] :
            answer'[mIn'[u][i].id] = None /\ executed'[mIn'[u][i].id] = 0
      BY <1>1, <1>2, <1>5, <1>12 DEF InFlight
    <3>2. \A u \in Threads : \A i \in DOMAIN stack'[u] :
            /\ answer'[stack'[u][i].id] = None
            /\ executed'[stack'[u][i].id] = IF stack'[u][i].pc = "pre" THEN 0 ELSE 1
      BY <2>2, <2>6, <1>1, <1>2, <1>4, <1>12 DEF InFlight
    <3> QED
      BY <3>1, <3>2 DEF InFlight
  <2>9. OnePlace'
    <3>1. \A v, u \in Threads : \A i \in DOMAIN stack'[v], j \in DOMAIN stack'[u] :
            stack'[v][i].id = stack'[u][j].id => v = u /\ i = j
      BY <2>2, <2>6, <1>2, <1>6 DEF OnePlace
    <3>2. \A v, u \in Threads : \A i \in DOMAIN mIn'[v], j \in DOMAIN stack'[u] :
            mIn'[v][i].id # stack'[u][j].id
      BY <2>2, <2>6, <1>2, <1>5 DEF OnePlace
    <3> QED
      BY <3>1, <3>2, <1>10 DEF OnePlace
  <2>10. ExecutedOnce' /\ Settled
    BY <1>1, <1>2, <1>12 DEF ExecutedOnce, Settled
  <2> QED
    BY <2>7, <2>8, <2>9, <2>10, <1>8, <1>9 DEF IInv
<1> QED
  BY <1>11, <1>12 DEF ExecuteStub, Reply, x, q, f

\* The innermost transaction of a thread.
LEMMA InnermostIs ==
    ASSUME IInv, NEW t \in Threads, stack[t] # <<>>
    PROVE  /\ stack[t] \in Seq(Frames) /\ Last(stack[t]) = stack[t][Len(stack[t])]
           /\ Len(stack[t]) \in DOMAIN stack[t]
           /\ Last(stack[t]) \in Frames /\ Last(stack[t]).id \in Txns
           /\ answer[Last(stack[t]).id] = None
           /\ executed[Last(stack[t]).id] = IF Last(stack[t]).pc = "pre" THEN 0 ELSE 1
           /\ \A u \in Threads : \A i \in DOMAIN mIn[u] : mIn[u][i].id # Last(stack[t]).id
<1>1. TypeOK /\ InFlight /\ OnePlace
  BY DEF IInv
<1>2. stack[t] \in Seq(Frames)
  BY <1>1 DEF TypeOK
<1>3. /\ Last(stack[t]) = stack[t][Len(stack[t])] /\ Len(stack[t]) \in DOMAIN stack[t]
      /\ Last(stack[t]) \in Frames
  <2>1. /\ Len(stack[t]) \in Nat /\ Len(stack[t]) >= 1 /\ DOMAIN stack[t] = 1..Len(stack[t])
        /\ Last(stack[t]) = stack[t][Len(stack[t])] /\ Last(stack[t]) \in Frames
    BY <1>2, FrontIs
  <2> QED
    BY <2>1
<1>4. Last(stack[t]).id \in Txns
  BY <1>3 DEF Frames
<1> QED
  BY <1>1, <1>2, <1>3, <1>4 DEF InFlight, OnePlace

\* The innermost transaction of a thread is answered and popped.
LEMMA PopStep ==
    ASSUME IInv, NEW t \in Threads, NEW a \in Answers, NEW n \in 0..2, NEW x,
           stack[t] # <<>>, x = Last(stack[t]).id, Pop(t),
           answer' = [answer EXCEPT ![x] = a],
           executed' = [executed EXCEPT ![x] = n],
           lostPost' = IF n = 2 THEN lostPost \cup {x} ELSE lostPost,
           a \in {"REAL", "POST_OVERRIDE"} <=> n >= 1,
           UNCHANGED <<registry, targets, daemon, alive, mIn, scanned, queue>>
    PROVE  IInv' /\ Settled
<1>1. TypeOK /\ QueueAligned /\ Untouched /\ OnePlace
  BY DEF IInv
<1>2. /\ stack[t] \in Seq(Frames) /\ x = stack[t][Len(stack[t])].id
      /\ Len(stack[t]) \in DOMAIN stack[t]
      /\ x \in Txns /\ answer[x] = None /\ executed[x] # 2
      /\ \A u \in Threads : \A i \in DOMAIN mIn[u] : mIn[u][i].id # x
  BY InnermostIs
<1>3. /\ Len(stack[t]) \in Nat /\ DOMAIN stack[t] = 1..Len(stack[t])
      /\ Front(stack[t]) \in Seq(Frames) /\ DOMAIN Front(stack[t]) = 1..(Len(stack[t]) - 1)
      /\ \A i \in 1..(Len(stack[t]) - 1) : Front(stack[t])[i] = stack[t][i]
  BY <1>2, FrontIs
<1>4. /\ stack' \in [Threads -> Seq(Frames)] /\ stack'[t] = Front(stack[t])
      /\ \A u \in Threads : u # t => stack'[u] = stack[u]
  BY <1>1, <1>3 DEF TypeOK, Pop
<1>5. \A u \in Threads : \A i \in DOMAIN stack'[u] :
        i \in DOMAIN stack[u] /\ stack'[u][i] = stack[u][i] /\ stack'[u][i].id # x
  <2> SUFFICES ASSUME NEW u \in Threads, NEW i \in DOMAIN stack'[u]
               PROVE  i \in DOMAIN stack[u] /\ stack'[u][i] = stack[u][i] /\ stack'[u][i].id # x
    OBVIOUS
  <2>1. CASE u = t
    <3>1. i \in DOMAIN stack[t] /\ i # Len(stack[t]) /\ stack'[t][i] = stack[t][i]
      BY <2>1, <1>3, <1>4
    <3> QED
      BY <2>1, <3>1, <1>1, <1>2 DEF OnePlace
  <2>2. CASE u # t
    BY <2>2, <1>1, <1>2, <1>4 DEF OnePlace
  <2> QED
    BY <2>1, <2>2
<1>6. /\ InFlight' /\ ExecutedOnce' /\ Settled
      /\ answer' \in [Txns -> Answers \cup {None}]
      /\ executed' \in [Txns -> 0..2] /\ lostPost' \subseteq Txns
  <2>1. \A u \in Threads : \A i \in DOMAIN mIn'[u] :
          mIn'[u][i].id # x /\ \E j \in DOMAIN mIn[u] : mIn'[u][i] = mIn[u][j]
    BY <1>2
  <2>2. \A u \in Threads : \A i \in DOMAIN stack'[u] :
          stack'[u][i].id # x /\ \E j \in DOMAIN stack[u] : stack'[u][i] = stack[u][j]
    BY <1>5
  <2> QED
    BY <2>1, <2>2, <1>2, SettleStep, Zenon
<1>7. TypeOK'
  BY <1>1, <1>4, <1>6 DEF TypeOK
<1>8. QueueAligned' /\ Untouched'
  BY <1>1 DEF QueueAligned, Untouched
<1>9. OnePlace'
  BY <1>1, <1>5 DEF OnePlace
<1> QED
  BY <1>6, <1>7, <1>8, <1>9 DEF IInv

\* The pre hook lets the call go on: the real object executes it.
LEMMA ContinueStep ==
    ASSUME IInv, NEW t \in Threads, NEW f, f = Last(stack[t]), Waiting(t, "pre"),
           executed' = [executed EXCEPT ![f.id] = executed[f.id] + 1],
           stack' = [stack EXCEPT ![t] = Append(Front(stack[t]), [f EXCEPT !.pc = "post"])],
           UNCHANGED <<registry, targets, daemon, alive, mIn, scanned, queue, answer, lostPost>>
    PROVE  IInv' /\ Settled
<1> DEFINE g == [f EXCEPT !.pc = "post"]
           x == f.id
           l == Len(stack[t])
<1>1. TypeOK /\ QueueAligned /\ Untouched /\ InFlight /\ OnePlace /\ ExecutedOnce
  BY DEF IInv
<1>2. stack[t] # <<>> /\ f.pc = "pre"
  BY DEF Waiting
<1>3. /\ stack[t] \in Seq(Frames) /\ f = stack[t][l] /\ l \in DOMAIN stack[t]
      /\ f \in Frames /\ x \in Txns /\ answer[x] = None /\ executed[x] = 0
      /\ \A u \in Threads : \A i \in DOMAIN mIn[u] : mIn[u][i].id # x
  BY <1>2, InnermostIs
<1>4. g \in Frames /\ g.id = x /\ g.pc = "post"
  BY <1>3 DEF Frames
<1>5. /\ l \in Nat /\ l >= 1 /\ DOMAIN stack[t] = 1..l
      /\ Front(stack[t]) \in Seq(Frames) /\ Len(Front(stack[t])) = l - 1
      /\ \A i \in 1..(l - 1) : Front(stack[t])[i] = stack[t][i]
  BY <1>2, <1>3, FrontIs
<1> HIDE DEF g, x, l
<1>6. /\ Append(Front(stack[t]), g) \in Seq(Frames)
      /\ DOMAIN Append(Front(stack[t]), g) = 1..l
      /\ \A i \in 1..(l - 1) : Append(Front(stack[t]), g)[i] = stack[t][i]
      /\ Append(Front(stack[t]), g)[l] = g
  <2>1. /\ Append(Front(stack[t]), g) \in Seq(Frames)
        /\ DOMAIN Append(Front(stack[t]), g) = 1..((l - 1) + 1)
        /\ \A i \in 1..(l - 1) : Append(Front(stack[t]), g)[i] = Front(stack[t])[i]
        /\ Append(Front(stack[t]), g)[(l - 1) + 1] = g
    BY <1>4, <1>5, AppendIs
  <2>2. (l - 1) + 1 = l
    BY <1>5
  <2> QED
    BY <2>1, <2>2, <1>5
<1>7. /\ stack' \in [Threads -> Seq(Frames)] /\ stack'[t] = Append(Front(stack[t]), g)
      /\ \A u \in Threads : u # t => stack'[u] = stack[u]
  BY <1>1, <1>6 DEF TypeOK, g
<1>8. executed' \in [Txns -> 0..2] /\ executed'[x] = 1 /\ \A y \in Txns : y # x => executed'[y] = executed[y]
  BY <1>1, <1>3 DEF TypeOK, x
<1>9. \A u \in Threads :
        /\ DOMAIN stack'[u] = DOMAIN stack[u]
        /\ \A i \in DOMAIN stack[u] :
             /\ stack'[u][i].id = stack[u][i].id
             /\ \/ stack'[u][i] = stack[u][i] /\ stack[u][i].id # x
                \/ stack'[u][i] = g
  <2> SUFFICES ASSUME NEW u \in Threads
               PROVE  /\ DOMAIN stack'[u] = DOMAIN stack[u]
                      /\ \A i \in DOMAIN stack[u] :
                           /\ stack'[u][i].id = stack[u][i].id
                           /\ \/ stack'[u][i] = stack[u][i] /\ stack[u][i].id # x
                              \/ stack'[u][i] = g
    OBVIOUS
  <2>1. CASE u # t
    BY <2>1, <1>1, <1>3, <1>7 DEF OnePlace, x
  <2>2. CASE u = t
    <3>1. DOMAIN stack'[t] = DOMAIN stack[t]
      BY <1>5, <1>6, <1>7
    <3>2. \A i \in DOMAIN stack[t] : i # l => stack'[t][i] = stack[t][i] /\ stack[t][i].id # x
      <4> SUFFICES ASSUME NEW i \in DOMAIN stack[t], i # l
                   PROVE  stack'[t][i] = stack[t][i] /\ stack[t][i].id # x
        OBVIOUS
      <4>1. i \in 1..(l - 1)
        BY <1>5
      <4>2. stack[t][i].id # x
        BY <1>1, <1>3 DEF OnePlace, x
      <4> QED
        BY <4>1, <4>2, <1>6, <1>7
    <3>3. stack'[t][l] = g /\ stack[t][l].id = g.id
      BY <1>3, <1>4, <1>6, <1>7 DEF x
    <3> QED
      BY <2>2, <3>1, <3>2, <3>3
  <2> QED
    BY <2>1, <2>2
<1>10. TypeOK'
  BY <1>1, <1>7, <1>8 DEF TypeOK
<1>11. QueueAligned' /\ Untouched'
  BY <1>1 DEF QueueAligned, Untouched
<1>12. InFlight'
  <2>1. \A u \in Threads : \A i \in DOMAIN mIn[u] : mIn[u][i].id \in Txns
    <3> SUFFICES ASSUME NEW u \in Threads, NEW i \in DOMAIN mIn[u] PROVE mIn[u][i].id \in Txns
      OBVIOUS
    <3>1. mIn[u] \in Seq(Commands)
      BY <1>1 DEF TypeOK
    <3>2. mIn[u][i] \in Commands
      BY <3>1
    <3> QED
      BY <3>2 DEF Commands
  <2>2. \A u \in Threads : \A i \in DOMAIN mIn'[u] :
          answer'[mIn'[u][i].id] = None /\ executed'[mIn'[u][i].id] = 0
    BY <2>1, <1>1, <1>3, <1>8 DEF InFlight
  <2>3. \A u \in Threads : \A i \in DOMAIN stack[u] : stack[u][i].id \in Txns
    <3> SUFFICES ASSUME NEW u \in Threads, NEW i \in DOMAIN stack[u] PROVE stack[u][i].id \in Txns
      OBVIOUS
    <3>1. stack[u] \in Seq(Frames)
      BY <1>1 DEF TypeOK
    <3>2. stack[u][i] \in Frames
      BY <3>1
    <3> QED
      BY <3>2 DEF Frames
  <2>4. \A u \in Threads : \A i \in DOMAIN stack'[u] :
          /\ answer'[stack'[u][i].id] = None
          /\ executed'[stack'[u][i].id] = IF stack'[u][i].pc = "pre" THEN 0 ELSE 1
    <3> SUFFICES ASSUME NEW u \in Threads, NEW i \in DOMAIN stack'[u]
                 PROVE  /\ answer'[stack'[u][i].id] = None
                        /\ executed'[stack'[u][i].id] = IF stack'[u][i].pc = "pre" THEN 0 ELSE 1
      OBVIOUS
    <3>1. i \in DOMAIN stack[u]
      BY <1>9
    <3>2. CASE stack'[u][i] = g
      BY <3>2, <1>3, <1>4, <1>8
    <3>3. CASE stack'[u][i] = stack[u][i] /\ stack[u][i].id # x
      <4>1. executed'[stack[u][i].id] = executed[stack[u][i].id]
        BY <3>1, <3>3, <2>3, <1>8
      <4>2. /\ answer[stack[u][i].id] = None
            /\ executed[stack[u][i].id] = IF stack[u][i].pc = "pre" THEN 0 ELSE 1
        BY <3>1, <1>1 DEF InFlight
      <4> QED
        BY <4>1, <4>2, <3>3
    <3> QED
      BY <3>1, <3>2, <3>3, <1>9
  <2> QED
    BY <2>2, <2>4 DEF InFlight
<1>13. OnePlace'
  BY <1>1, <1>9 DEF OnePlace
<1>14. ExecutedOnce'
  <2>1. x \notin lostPost /\ answer'[x] = None
    BY <1>1, <1>3 DEF ExecutedOnce
  <2>2. \A y \in Txns : answer'[y] = answer[y] /\ lostPost' = lostPost
    OBVIOUS
  <2>3. None \notin Answers /\ "REAL" \in Answers /\ "POST_OVERRIDE" \in Answers
    BY NativeAssumption DEF Answers
  <2>4. /\ executed'[x] = 2 <=> x \in lostPost'
        /\ answer'[x] \in {"REAL", "POST_OVERRIDE"} => executed'[x] >= 1
        /\ answer'[x] \in Answers \ {"REAL", "POST_OVERRIDE"} => executed'[x] = 0
    BY <2>1, <2>3, <1>8
  <2> QED
    BY <2>2, <2>4, <1>1, <1>8 DEF ExecutedOnce
<1>15. Settled
  BY <1>3, <1>8 DEF Settled
<1> QED
  BY <1>10, <1>11, <1>12, <1>13, <1>14, <1>15 DEF IInv

\* The pre hook has answered.
LEMMA PreReplyStep ==
    ASSUME IInv, NEW t \in Threads, PreReply(t)
    PROVE  IInv' /\ Settled
<1> DEFINE x == Last(stack[t]).id
<1>1. /\ Waiting(t, "pre") /\ stack[t] # <<>> /\ Last(stack[t]).pc = "pre"
      /\ UNCHANGED <<registry, targets, daemon, alive, mIn, scanned, queue, lostPost>>
  BY DEF PreReply, Waiting
<1>2. executed[x] = 0 /\ executed \in [Txns -> 0..2] /\ x \in Txns
  BY <1>1, InnermostIs DEF IInv, TypeOK
<1>3. "REAL" \in Answers /\ "PRE_OVERRIDE" \in Answers /\ 0 \in 0..2 /\ 1 \in 0..2
  BY DEF Answers
<1>4. CASE Forward(x) /\ Pop(t)
  <2>1. /\ answer' = [answer EXCEPT ![x] = "REAL"] /\ executed' = [executed EXCEPT ![x] = 1]
        /\ "REAL" \in {"REAL", "POST_OVERRIDE"} <=> 1 >= 1
        /\ lostPost' = IF 1 = 2 THEN lostPost \cup {x} ELSE lostPost
    BY <1>1, <1>2, <1>4 DEF Forward, Reply
  <2> HIDE DEF x
  <2>2. x = Last(stack[t]).id
    BY DEF x
  <2> QED
    BY <2>1, <2>2, <1>1, <1>3, <1>4, PopStep, Zenon
<1>5. CASE Reply(x, "PRE_OVERRIDE") /\ Pop(t) /\ UNCHANGED executed
  <2>1. /\ answer' = [answer EXCEPT ![x] = "PRE_OVERRIDE"] /\ executed' = [executed EXCEPT ![x] = 0]
        /\ "PRE_OVERRIDE" \in {"REAL", "POST_OVERRIDE"} <=> 0 >= 1
        /\ lostPost' = IF 0 = 2 THEN lostPost \cup {x} ELSE lostPost
    BY <1>1, <1>2, <1>5 DEF Reply
  <2> HIDE DEF x
  <2>2. x = Last(stack[t]).id
    BY DEF x
  <2> QED
    BY <2>1, <2>2, <1>1, <1>3, <1>5, PopStep, Zenon
<1>6. CASE /\ executed' = [executed EXCEPT ![x] = executed[x] + 1]
           /\ stack' = [stack EXCEPT ![t] = Append(Front(stack[t]), [Last(stack[t]) EXCEPT !.pc = "post"])]
           /\ UNCHANGED answer
  BY <1>1, <1>6, ContinueStep
<1> QED
  BY <1>4, <1>5, <1>6 DEF PreReply

\* The daemon could not be asked before the call.
LEMMA PreFailsStep ==
    ASSUME IInv, NEW t \in Threads, PreFails(t)
    PROVE  IInv' /\ Settled
<1> DEFINE x == Last(stack[t]).id
<1>1. /\ stack[t] # <<>> /\ Last(stack[t]).pc = "pre" /\ Pop(t)
      /\ executed' = [executed EXCEPT ![x] = executed[x] + 1]
      /\ answer' = [answer EXCEPT ![x] = "REAL"]
      /\ UNCHANGED <<registry, targets, daemon, alive, mIn, scanned, queue, lostPost>>
  BY DEF PreFails, Waiting, Forward, Reply
<1>2. executed[x] = 0
  BY <1>1, InnermostIs
<1>3. /\ "REAL" \in Answers /\ 1 \in 0..2
      /\ executed' = [executed EXCEPT ![x] = 1]
      /\ "REAL" \in {"REAL", "POST_OVERRIDE"} <=> 1 >= 1
      /\ lostPost' = IF 1 = 2 THEN lostPost \cup {x} ELSE lostPost
  BY <1>1, <1>2 DEF Answers
<1>4. x = Last(stack[t]).id
  OBVIOUS
<1> HIDE DEF x
<1> QED
  BY <1>1, <1>3, <1>4, PopStep, Zenon

\* The post hook has answered.
LEMMA PostReplyStep ==
    ASSUME IInv, NEW t \in Threads, PostReply(t)
    PROVE  IInv' /\ Settled
<1> DEFINE x == Last(stack[t]).id
<1>1. /\ stack[t] # <<>> /\ Last(stack[t]).pc = "post" /\ Pop(t)
      /\ UNCHANGED <<registry, targets, daemon, alive, mIn, scanned, queue, executed, lostPost>>
  BY DEF PostReply, Waiting
<1>2. PICK a \in {"REAL", "POST_OVERRIDE"} : answer' = [answer EXCEPT ![x] = a]
  BY DEF PostReply, Reply
<1>3. executed[x] = 1 /\ executed \in [Txns -> 0..2] /\ x \in Txns
  BY <1>1, InnermostIs DEF IInv, TypeOK
<1>4. /\ a \in Answers /\ 1 \in 0..2
      /\ executed' = [executed EXCEPT ![x] = 1]
      /\ a \in {"REAL", "POST_OVERRIDE"} <=> 1 >= 1
      /\ lostPost' = IF 1 = 2 THEN lostPost \cup {x} ELSE lostPost
  BY <1>1, <1>3 DEF Answers
<1>5. x = Last(stack[t]).id
  OBVIOUS
<1> HIDE DEF x
<1> QED
  BY <1>1, <1>2, <1>4, <1>5, PopStep, Zenon

\* The daemon could not be asked after the call: the call is made again.
LEMMA PostFailsStep ==
    ASSUME IInv, NEW t \in Threads, PostFails(t)
    PROVE  IInv' /\ Settled
<1> DEFINE x == Last(stack[t]).id
<1>1. /\ stack[t] # <<>> /\ Last(stack[t]).pc = "post" /\ Pop(t)
      /\ executed' = [executed EXCEPT ![x] = executed[x] + 1]
      /\ answer' = [answer EXCEPT ![x] = "REAL"]
      /\ lostPost' = lostPost \cup {x}
      /\ UNCHANGED <<registry, targets, daemon, alive, mIn, scanned, queue>>
  BY DEF PostFails, Waiting, Forward, Reply
<1>2. executed[x] = 1
  BY <1>1, InnermostIs
<1>3. /\ "REAL" \in Answers /\ 2 \in 0..2
      /\ executed' = [executed EXCEPT ![x] = 2]
      /\ "REAL" \in {"REAL", "POST_OVERRIDE"} <=> 2 >= 1
      /\ lostPost' = IF 2 = 2 THEN lostPost \cup {x} ELSE lostPost
  BY <1>1, <1>2 DEF Answers
<1>4. x = Last(stack[t]).id
  OBVIOUS
<1> HIDE DEF x
<1> QED
  BY <1>1, <1>3, <1>4, PopStep, Zenon

\* Every step keeps the inductive invariant and leaves answers alone.
LEMMA NextIInv == IInv /\ [Next]_vars => IInv' /\ Settled
<1> SUFFICES ASSUME IInv, [Next]_vars PROVE IInv' /\ Settled
  OBVIOUS
<1>1. ASSUME NEW t \in Threads, Serve(t) PROVE IInv' /\ Settled
  BY <1>1, ProcessStep, ExecuteRealStep, ExecuteStubStep, PreReplyStep, PreFailsStep,
     PostReplyStep, PostFailsStep DEF Serve
<1>2. ASSUME NEW t \in Threads, NEW b \in Batches, Read(t, b) PROVE IInv' /\ Settled
  BY <1>2, ReadStep
<1>3. ASSUME NEW target \in Targets, Register(target) \/ TargetGone(target) PROVE IInv' /\ Settled
  BY <1>3, RegisterStep, TargetGoneStep
<1>4. CASE DaemonStarts \/ DaemonDies
  BY <1>4, DaemonStep
<1>5. CASE UNCHANGED vars
  <2>1. TypeOK'
    BY <1>5 DEF IInv, TypeOK, vars
  <2> QED
    BY <2>1, <1>5, OutsideStep DEF vars
<1> QED
  BY <1>1, <1>2, <1>3, <1>4, <1>5 DEF Next

LEMMA Invariance == Spec => []IInv
  BY InitIInv, NextIInv, PTL DEF Spec

-----------------------------------------------------------------------------
(* Theorems *)

\* Every variable keeps its type: no thread runs ahead of what the hook has
\* looked at, and nothing is executed a third time.
THEOREM TypeCorrect == Spec => []TypeOK
<1>1. IInv => TypeOK
  BY DEF IInv
<1> QED
  BY <1>1, Invariance, PTL

\* The stub serves every transaction as the one it is
\* (binder_interceptor.cpp:95, 106-107, 175), for all buffers and nestings.
THEOREM QueueAlignedTheorem == Spec => []QueueAligned
<1>1. IInv => QueueAligned
  BY DEF IInv
<1> QED
  BY <1>1, Invariance, PTL

\* The real object executes a transaction twice only when the post hook was
\* lost (binder_interceptor.cpp:389-413), whenever daemons come and go.
THEOREM ExecutedOnceTheorem == Spec => []ExecutedOnce
<1>1. IInv => ExecutedOnce
  BY DEF IInv
<1> QED
  BY <1>1, Invariance, PTL

\* An answered transaction is neither executed nor answered again
\* (binder_interceptor.cpp:97-129, 330-430).
THEOREM AnsweredForGoodTheorem == Spec => AnsweredForGood
<1>1. IInv /\ [Next]_vars =>
        [\A x \in Txns : answer[x] # None => UNCHANGED <<answer[x], executed[x]>>]_vars
  BY NextIInv DEF Settled
<1> QED
  BY <1>1, Invariance, PTL DEF Spec, AnsweredForGood
=============================================================================
