------------------------- MODULE LivoxConnectProofs -------------------------
(***************************************************************************)
(* Proofs about the connection to a lidar, its start and its upgrade.      *)
(* LivoxConnect: its types, that a bit of set_bits is never orphaned, and  *)
(* that a lidar taken for configured has answered every option, for any    *)
(* configuration, any number of faults and of configurations under way.    *)
(* LivoxUpgrade: what an outcome means, for any firmware and any limits.       *)
(* LivoxStart: what a start starts and a stop ends, for any files, lidars, *)
(* starts and refusals.                                                    *)
(***************************************************************************)
EXTENDS LivoxConnect, LivoxUpgrade, LivoxStart,
        FiniteSetTheorems, SequenceTheorems, WellFoundedInduction, TLAPS

-----------------------------------------------------------------------------
(* The inductive invariant                                                 *)

\* What LidarInfoChangeCallback has to do when it starts.
Script ==
  <<Step("lock")>> \o [i \in 1..Len(Options) |-> [op |-> "set", kind |-> Options[i]]]
    \o <<Step("unlock"), Send("mode")>>

\* GenerateSeq finds a number.
Finite == IsFiniteSet(commands) /\ IsFiniteSet(net)

\* The lidar refuses no option.
RefusedOK == \A d \in net : d.what = "refused" => d.cmd.kind \in {"fw", "cfg"}

\* The driver's callback starts on an empty stack, and a thread that sets bits
\* holds the mutex until the last one is set.
Shape(t) ==
  LET s == todo[t] IN
  /\ \A i \in DOMAIN s : s[i].op \in {"change", "mark"} => Len(s) = 1
  /\ \A i \in DOMAIN s : s[i].op = "lock" => s = Script
  /\ holder # t => \A i \in DOMAIN s : s[i].op \in {"set", "unlock"} => s = Script
  /\ \A i, j \in DOMAIN s : i < j /\ s[i].op = "unlock" => s[j].op \notin {"set", "unlock"}

\* Everything a thread has to do.
Steps(t) == {todo[t][i] : i \in DOMAIN todo[t]}

\* An option that is acknowledged was answered.
Answered ==
  /\ \A d \in net : d.what # "request" /\ d.cmd.kind \in Option => d.cmd.kind \in answered
  /\ \A t \in Thread : \A e \in Steps(t) : e.op = "clear" => e.kind \in answered

\* No option has been asked for yet.
NotBegun ==
  /\ holder = "none" /\ setBits = {}
  /\ \A d \in net : d.cmd.kind \notin Option
  /\ \A c \in commands : c.kind \notin Option
  /\ \A t \in Thread : \A e \in Steps(t) :
       /\ e.op = "send" => e.kind \notin Option
       /\ e.op = "add" => e.cmd.kind \notin Option
       /\ e.op # "clear"

\* Every option is answered, waited for, or still to be set by the holder of
\* the mutex.
AllAsked ==
  \A k \in Option :
    \/ k \in answered
    \/ k \in setBits
    \/ holder \in Thread /\ [op |-> "set", kind |-> k] \in Steps(holder)

\* NoOrphanBit, and a step that still asks for option k.
AsksFor(e, k) ==
  \/ e.op \in {"send", "clear"} /\ e.kind = k
  \/ e.op = "add" /\ e.cmd.kind = k

NoOrphan ==
  \A k \in setBits :
    \/ crashed
    \/ \E c \in commands : c.kind = k
    \/ \E t \in Thread : \E e \in Steps(t) : AsksFor(e, k)

ConnectInv ==
  /\ ConnectTypeOK /\ Finite /\ RefusedOK
  /\ \A t \in Thread : Shape(t)
  /\ Answered
  /\ crashed \/ NotBegun \/ AllAsked
  /\ NoOrphan
  /\ SamplingMeansConfigured
-----------------------------------------------------------------------------
(* Sequences of steps                                                      *)

\* What Does leaves to do.
LEMMA DoesIndex ==
  ASSUME todo \in [Thread -> Seq(Op)], NEW t \in Thread, NEW steps \in Seq(Op), Does(t, steps)
  PROVE  LET n == IF todo[t] = <<>> THEN 0 ELSE Len(todo[t]) - 1 IN
         /\ todo' \in [Thread -> Seq(Op)]
         /\ \A u \in Thread \ {t} : todo'[u] = todo[u]
         /\ n \in Nat /\ n <= Len(todo[t]) /\ (n < Len(todo[t]) => Len(todo[t]) = n + 1)
         /\ Len(todo'[t]) = Len(steps) + n
         /\ \A i \in 1..Len(steps) : todo'[t][i] = steps[i]
         /\ \A i \in 1..n : todo'[t][Len(steps) + i] = todo[t][i + 1]
<1> DEFINE rest == IF todo[t] = <<>> THEN <<>> ELSE Tail(todo[t])
           n == IF todo[t] = <<>> THEN 0 ELSE Len(todo[t]) - 1
<1>1. todo[t] \in Seq(Op) /\ Len(todo[t]) \in Nat
  OBVIOUS
<1>2. rest \in Seq(Op) /\ Len(rest) = n /\ n \in Nat /\ n <= Len(todo[t])
      /\ (n < Len(todo[t]) => Len(todo[t]) = n + 1)
  BY <1>1
<1>3. \A i \in 1..n : rest[i] = todo[t][i + 1]
  BY <1>1
<1>4. todo' = [todo EXCEPT ![t] = steps \o rest]
  BY DEF Does
<1>5. todo'[t] = steps \o rest /\ \A u \in Thread \ {t} : todo'[u] = todo[u]
  BY <1>4
<1> HIDE DEF rest, n
<1>6. /\ steps \o rest \in Seq(Op)
      /\ Len(steps \o rest) = Len(steps) + n
      /\ \A i \in 1..Len(steps) + n : (steps \o rest)[i] =
           IF i <= Len(steps) THEN steps[i] ELSE rest[i - Len(steps)]
  BY <1>2, ConcatProperties
<1>7. todo' \in [Thread -> Seq(Op)]
  BY <1>4, <1>6
<1>8. Len(steps) \in Nat
  OBVIOUS
<1>9. \A i \in 1..Len(steps) : (steps \o rest)[i] = steps[i]
  BY <1>2, <1>6, <1>8
<1>10. \A i \in 1..n : (steps \o rest)[Len(steps) + i] = rest[i]
  BY <1>2, <1>6, <1>8
<1> QED
  BY <1>2, <1>3, <1>5, <1>6, <1>7, <1>9, <1>10 DEF n

\* r is q and then s without its first element; l, m: the lengths of q and s.
Shift(s, q, r, m, l, n) ==
  /\ m \in Nat /\ l \in Nat /\ n \in Nat
  /\ n <= m /\ (n < m => m = n + 1) /\ (m # 0 => n = m - 1)
  /\ \A i \in 1..l : r[i] = q[i]
  /\ \A i \in 1..n : r[l + i] = s[i + 1]

\* The same for the elements, whatever their places.
Shifts(s, q, r, m, l, n) ==
  /\ \A i \in 1..l : \E j \in 1..(l + n) : r[j] = q[i]
  /\ \A j \in 1..(l + n) : (\E i \in 1..l : r[j] = q[i]) \/ (\E i \in 1..m : r[j] = s[i])
  /\ \A i \in 1..m : i = 1 \/ (\E j \in 1..(l + n) : r[j] = s[i])

LEMMA Shifted ==
  ASSUME NEW s, NEW q, NEW r, NEW m, NEW l, NEW n, Shift(s, q, r, m, l, n)
  PROVE  Shifts(s, q, r, m, l, n)
<1> USE DEF Shift
<1>1. \A i \in 1..l : i \in 1..(l + n) /\ r[i] = q[i]
  OBVIOUS
<1>2. ASSUME NEW j \in 1..(l + n)
      PROVE  (\E i \in 1..l : r[j] = q[i]) \/ (\E i \in 1..m : r[j] = s[i])
  <2>1. CASE j <= l
    BY <2>1
  <2>2. CASE j > l
    <3>1. j - l \in 1..n /\ l + (j - l) = j
      BY <2>2
    <3>2. (j - l) + 1 \in 1..m /\ r[j] = s[(j - l) + 1]
      BY <3>1
    <3> QED
      BY <3>2
  <2> QED
    BY <2>1, <2>2
<1>3. ASSUME NEW i \in 1..m, i # 1 PROVE \E j \in 1..(l + n) : r[j] = s[i]
  <2>1. i - 1 \in 1..n /\ (i - 1) + 1 = i
    BY <1>3
  <2>2. l + (i - 1) \in 1..(l + n) /\ r[l + (i - 1)] = s[i]
    BY <2>1
  <2> QED
    BY <2>2
<1> QED
  BY <1>1, <1>2, <1>3 DEF Shifts

LEMMA DoesSteps ==
  ASSUME todo \in [Thread -> Seq(Op)], NEW t \in Thread, NEW steps \in Seq(Op), Does(t, steps)
  PROVE  /\ \A u \in Thread \ {t} : Steps(u)' = Steps(u)
         /\ \A i \in DOMAIN steps : steps[i] \in Steps(t)'
         /\ \A e \in Steps(t)' : (\E i \in DOMAIN steps : e = steps[i]) \/ e \in Steps(t)
         /\ \A e \in Steps(t) : e = Head(todo[t]) \/ e \in Steps(t)'
<1> DEFINE n == IF todo[t] = <<>> THEN 0 ELSE Len(todo[t]) - 1
           s == todo[t]
           r == todo'[t]
           m == Len(s)
           l == Len(steps)
<1>1. /\ todo' \in [Thread -> Seq(Op)]
      /\ \A u \in Thread \ {t} : todo'[u] = todo[u]
      /\ n \in Nat /\ n <= m /\ (n < m => m = n + 1)
      /\ Len(r) = l + n
      /\ \A i \in 1..l : r[i] = steps[i]
      /\ \A i \in 1..n : r[l + i] = s[i + 1]
  BY DoesIndex
<1>2. s \in Seq(Op) /\ r \in Seq(Op)
  BY <1>1
<1>3. /\ m \in Nat /\ DOMAIN s = 1..m
      /\ DOMAIN r = 1..Len(r)
      /\ l \in Nat /\ DOMAIN steps = 1..l
      /\ m # 0 => n = m - 1
      /\ m # 0 => Head(s) = s[1]
  BY <1>2
<1>4. DOMAIN r = 1..(l + n)
  BY <1>1, <1>3
<1>5. \A u \in Thread \ {t} : Steps(u)' = Steps(u)
  BY <1>1 DEF Steps
<1>6. Steps(t) = {s[i] : i \in 1..m} /\ Steps(t)' = {r[i] : i \in 1..(l + n)}
  BY <1>3, <1>4 DEF Steps
<1> HIDE DEF n, s, r, m, l
<1>7. /\ \A i \in 1..l : \E j \in 1..(l + n) : r[j] = steps[i]
      /\ \A j \in 1..(l + n) : (\E i \in 1..l : r[j] = steps[i]) \/ (\E i \in 1..m : r[j] = s[i])
      /\ \A i \in 1..m : i = 1 \/ (\E j \in 1..(l + n) : r[j] = s[i])
  <2>1. Shift(s, steps, r, m, l, n)
    BY <1>1, <1>3 DEF Shift
  <2>2. Shifts(s, steps, r, m, l, n)
    BY <2>1, Shifted
  <2> QED
    BY <2>2 DEF Shifts
<1>8. ASSUME NEW i \in DOMAIN steps PROVE steps[i] \in Steps(t)'
  BY <1>3, <1>6, <1>7
<1>9. ASSUME NEW e \in Steps(t)'
      PROVE  (\E i \in DOMAIN steps : e = steps[i]) \/ e \in Steps(t)
  <2>1. PICK j \in 1..(l + n) : e = r[j]
    BY <1>6
  <2>2. CASE \E i \in 1..l : r[j] = steps[i]
    BY <2>1, <2>2, <1>3
  <2>3. CASE \E i \in 1..m : r[j] = s[i]
    BY <2>1, <2>3, <1>6
  <2> QED
    BY <2>2, <2>3, <1>7
<1>10. ASSUME NEW e \in Steps(t), e # Head(s) PROVE e \in Steps(t)'
  <2>1. PICK i \in 1..m : e = s[i]
    BY <1>6
  <2>2. i # 1
    BY <2>1, <1>3, <1>10
  <2> QED
    BY <2>1, <2>2, <1>6, <1>7
<1> QED
  BY <1>5, <1>8, <1>9, <1>10 DEF s

\* The steps of the driver's callback.
LEMMA ScriptIs ==
  /\ Script \in Seq(Op)
  /\ Len(Options) \in Nat /\ Len(Options) # 0
  /\ DOMAIN Script = 1..(Len(Options) + 3)
  /\ Script[1] = Step("lock")
  /\ \A i \in 1..Len(Options) : Script[i + 1] = [op |-> "set", kind |-> Options[i]]
  /\ Script[Len(Options) + 2] = Step("unlock")
  /\ Script[Len(Options) + 3] = Send("mode")
<1> DEFINE sets == [i \in 1..Len(Options) |-> [op |-> "set", kind |-> Options[i]]]
           N == Len(Options)
<1>1. N \in Nat /\ N # 0 /\ DOMAIN Options = 1..N
  BY OptionsAssumption
<1>2. \A i \in 1..N : [op |-> "set", kind |-> Options[i]] \in Op
  BY <1>1 DEF Op, Option
<1>3. sets \in Seq(Op) /\ Len(sets) = N
  BY <1>1, <1>2
<1>4. \A i \in 1..N : sets[i] = [op |-> "set", kind |-> Options[i]]
  OBVIOUS
<1>5. Step("lock") \in Op /\ Step("unlock") \in Op /\ Send("mode") \in Op
  BY DEF Step, Send, Op, Kind
<1> HIDE DEF sets, N
<1>6. /\ <<Step("lock")>> \in Seq(Op) /\ Len(<<Step("lock")>>) = 1
      /\ <<Step("lock")>>[1] = Step("lock")
      /\ <<Step("unlock"), Send("mode")>> \in Seq(Op) /\ Len(<<Step("unlock"), Send("mode")>>) = 2
      /\ <<Step("unlock"), Send("mode")>>[1] = Step("unlock")
      /\ <<Step("unlock"), Send("mode")>>[2] = Send("mode")
  BY <1>5
<1> DEFINE a == <<Step("lock")>>
           c == <<Step("unlock"), Send("mode")>>
           b == a \o sets
<1>7. /\ a \in Seq(Op) /\ Len(a) = 1 /\ a[1] = Step("lock")
      /\ c \in Seq(Op) /\ Len(c) = 2 /\ c[1] = Step("unlock") /\ c[2] = Send("mode")
  BY <1>6
<1> HIDE DEF a, c
<1>8. /\ b \in Seq(Op) /\ Len(b) = 1 + N
      /\ \A i \in 1..(1 + N) : b[i] = IF i <= 1 THEN a[i] ELSE sets[i - 1]
  <2>1. /\ a \o sets \in Seq(Op) /\ Len(a \o sets) = Len(a) + Len(sets)
        /\ \A i \in 1..Len(a) + Len(sets) :
             (a \o sets)[i] = IF i <= Len(a) THEN a[i] ELSE sets[i - Len(a)]
    BY <1>3, <1>7, ConcatProperties, Zenon
  <2> QED
    BY <2>1, <1>3, <1>7
<1> HIDE DEF b
<1>9. /\ b \o c \in Seq(Op) /\ Len(b \o c) = (1 + N) + 2
      /\ \A i \in 1..((1 + N) + 2) : (b \o c)[i] = IF i <= 1 + N THEN b[i] ELSE c[i - (1 + N)]
  <2>1. /\ b \o c \in Seq(Op) /\ Len(b \o c) = Len(b) + Len(c)
        /\ \A i \in 1..Len(b) + Len(c) : (b \o c)[i] = IF i <= Len(b) THEN b[i] ELSE c[i - Len(b)]
    BY <1>7, <1>8, ConcatProperties, Zenon
  <2> QED
    BY <2>1, <1>7, <1>8
<1>10. Script = b \o c
  BY DEF Script, a, b, c, sets
<1>11. Script[1] = Step("lock")
  BY <1>1, <1>7, <1>8, <1>9, <1>10
<1>12. ASSUME NEW i \in 1..N PROVE Script[i + 1] = [op |-> "set", kind |-> Options[i]]
  <2>1. i + 1 \in 1..(1 + N) /\ i + 1 \in 1..((1 + N) + 2) /\ ~(i + 1 <= 1) /\ (i + 1) - 1 = i
    BY <1>1
  <2>2. Script[i + 1] = b[i + 1]
    BY <2>1, <1>9, <1>10, <1>1
  <2>3. b[i + 1] = sets[i]
    BY <2>1, <1>8
  <2> QED
    BY <2>2, <2>3, <1>4 DEF N
<1>13. Script[N + 2] = c[1] /\ Script[N + 3] = c[2]
  <2>1. /\ N + 2 \in 1..((1 + N) + 2) /\ ~(N + 2 <= 1 + N) /\ (N + 2) - (1 + N) = 1
        /\ N + 3 \in 1..((1 + N) + 2) /\ ~(N + 3 <= 1 + N) /\ (N + 3) - (1 + N) = 2
    BY <1>1
  <2> QED
    BY <2>1, <1>9, <1>10
<1>14. DOMAIN Script = 1..(N + 3)
  BY <1>1, <1>9, <1>10
<1> QED
  BY <1>1, <1>7, <1>9, <1>10, <1>11, <1>12, <1>13, <1>14 DEF N

\* A script is recognised by its first step, and sets no bit after it unlocks.
LEMMA ScriptOrder ==
  /\ Script # <<>> /\ Head(Script).op = "lock"
  /\ \A i \in DOMAIN Script : Script[i].op \notin {"change", "mark"}
  /\ \A i, j \in DOMAIN Script : i < j /\ Script[i].op = "unlock" => Script[j].op \notin {"set", "unlock"}
  /\ \A i \in DOMAIN Script : i # 1 => Script[i].op # "lock"
<1> DEFINE N == Len(Options)
<1>1. /\ Script \in Seq(Op) /\ N \in Nat /\ N # 0 /\ DOMAIN Script = 1..(N + 3)
      /\ Script[1].op = "lock"
      /\ \A i \in 1..N : Script[i + 1].op = "set"
      /\ Script[N + 2].op = "unlock" /\ Script[N + 3].op = "send"
  <2>1. Step("lock").op = "lock" /\ Step("unlock").op = "unlock" /\ Send("mode").op = "send"
    BY DEF Step, Send
  <2>2. ASSUME NEW i \in 1..N PROVE Script[i + 1].op = "set"
    <3>1. Script[i + 1] = [op |-> "set", kind |-> Options[i]]
      BY ScriptIs
    <3> QED
      BY <3>1
  <2>3. Script[1].op = "lock" /\ Script[N + 2].op = "unlock" /\ Script[N + 3].op = "send"
    BY <2>1, ScriptIs, Zenon
  <2>4. Script \in Seq(Op) /\ N \in Nat /\ N # 0 /\ DOMAIN Script = 1..(N + 3)
    BY ScriptIs, Zenon
  <2> QED
    BY <2>2, <2>3, <2>4
<1> HIDE DEF N
<1>2. Script # <<>> /\ Head(Script).op = "lock"
  BY <1>1
<1>3. \A i \in 2..(N + 1) : Script[i].op = "set"
  <2> SUFFICES ASSUME NEW i \in 2..(N + 1) PROVE Script[i].op = "set"
    OBVIOUS
  <2>1. i - 1 \in 1..N /\ (i - 1) + 1 = i
    BY <1>1
  <2> QED
    BY <2>1, <1>1
<1>4. \A i \in DOMAIN Script :
        i = 1 \/ i \in 2..(N + 1) \/ i = N + 2 \/ i = N + 3
  BY <1>1
<1>5. ASSUME NEW i \in DOMAIN Script, NEW j \in DOMAIN Script, i < j, Script[i].op = "unlock"
      PROVE  Script[j].op \notin {"set", "unlock"}
  <2>1. i = N + 2 \/ i = N + 3
    BY <1>1, <1>3, <1>4, <1>5
  <2>2. j = N + 3
    BY <2>1, <1>1, <1>5
  <2> QED
    BY <2>2, <1>1
<1>6. \A i \in DOMAIN Script : Script[i].op \notin {"change", "mark"} /\ (i # 1 => Script[i].op # "lock")
  BY <1>1, <1>3, <1>4
<1> QED
  BY <1>2, <1>5, <1>6

\* Steps that a callback may put first.
Quiet(steps, t) ==
  \A i \in DOMAIN steps :
    \/ steps[i].op \in {"send", "clear", "add", "put"}
    \/ steps[i].op \in {"change", "mark"} /\ Len(steps) = 1 /\ Len(todo[t]) <= 1

\* They keep the shape of the stack; so does the end of a critical section.
LEMMA QuietShape ==
  ASSUME todo \in [Thread -> Seq(Op)], NEW t \in Thread, NEW steps \in Seq(Op), Does(t, steps),
         Shape(t), Quiet(steps, t),
         todo[t] # <<>> => Head(todo[t]).op # "lock",
         \/ holder' = holder
         \/ todo[t] # <<>> /\ Head(todo[t]).op = "unlock" /\ steps = <<>>
  PROVE  Shape(t)'
<1> DEFINE n == IF todo[t] = <<>> THEN 0 ELSE Len(todo[t]) - 1
           s == todo[t]
           r == todo'[t]
           m == Len(s)
           l == Len(steps)
<1>1. /\ todo' \in [Thread -> Seq(Op)]
      /\ n \in Nat /\ n <= m /\ (n < m => m = n + 1)
      /\ Len(r) = l + n
      /\ \A i \in 1..l : r[i] = steps[i]
      /\ \A i \in 1..n : r[l + i] = s[i + 1]
  BY DoesIndex
<1>2. s \in Seq(Op) /\ r \in Seq(Op)
  BY <1>1
<1>3. /\ m \in Nat /\ DOMAIN s = 1..m
      /\ DOMAIN r = 1..Len(r)
      /\ l \in Nat /\ DOMAIN steps = 1..l
      /\ m # 0 => n = m - 1
      /\ s # <<>> <=> m # 0
      /\ m # 0 => Head(s) = s[1]
      /\ steps = <<>> => l = 0
  BY <1>2
<1>4. s # Script
  BY <1>2, <1>3, ScriptOrder
<1>5. /\ \A i \in 1..m : s[i].op \in {"change", "mark"} => m = 1
      /\ \A i \in 1..m : s[i].op # "lock"
      /\ holder # t => \A i \in 1..m : s[i].op \notin {"set", "unlock"}
      /\ \A i, j \in 1..m : i < j /\ s[i].op = "unlock" => s[j].op \notin {"set", "unlock"}
  BY <1>3, <1>4 DEF Shape
<1>6. /\ \A i \in 1..l : \/ steps[i].op \in {"send", "clear", "add", "put"}
                         \/ steps[i].op \in {"change", "mark"} /\ l = 1 /\ m <= 1
      /\ holder' = holder \/ (m # 0 /\ s[1].op = "unlock" /\ l = 0)
  BY <1>3 DEF Quiet
<1>7. Shape(t)' <=>
      /\ \A i \in 1..(l + n) : r[i].op \in {"change", "mark"} => l + n = 1
      /\ \A i \in 1..(l + n) : r[i].op = "lock" => r = Script
      /\ holder' # t => \A i \in 1..(l + n) : r[i].op \in {"set", "unlock"} => r = Script
      /\ \A i, j \in 1..(l + n) : i < j /\ r[i].op = "unlock" => r[j].op \notin {"set", "unlock"}
  BY <1>1, <1>3 DEF Shape, Script
<1> HIDE DEF n, s, r, m, l
<1>8. ASSUME NEW i \in 1..(l + n)
      PROVE  \/ i \in 1..l /\ r[i] = steps[i]
             \/ \E k \in 2..m : i = (l + k) - 1 /\ r[i] = s[k]
  <2>1. CASE i <= l
    BY <2>1, <1>1, <1>3
  <2>2. CASE i > l
    <3> DEFINE k == i - l
    <3>1. k \in 1..n /\ l + k = i
      BY <2>2, <1>1, <1>3
    <3> HIDE DEF k
    <3>2. k + 1 \in 2..m /\ i = (l + (k + 1)) - 1
      BY <3>1, <1>1, <1>3
    <3>3. r[i] = s[k + 1]
      BY <3>1, <1>1
    <3> QED
      BY <3>2, <3>3
  <2> QED
    BY <2>1, <2>2, <1>1, <1>3
<1>9. ASSUME NEW i \in 1..(l + n), r[i].op \in {"change", "mark"} PROVE l + n = 1
  <2>1. CASE i \in 1..l /\ r[i] = steps[i]
    <3>1. l = 1 /\ m <= 1
      BY <2>1, <1>6, <1>9
    <3> QED
      BY <3>1, <1>1, <1>3
  <2>2. ASSUME NEW k \in 2..m, r[i] = s[k] PROVE FALSE
    <3>1. k \in 1..m
      BY <1>3
    <3>2. m = 1
      BY <2>2, <3>1, <1>5, <1>9
    <3> QED
      BY <3>2
  <2> QED
    BY <2>1, <2>2, <1>8
<1>10. ASSUME NEW i \in 1..(l + n) PROVE r[i].op # "lock"
  <2>1. CASE i \in 1..l /\ r[i] = steps[i]
    BY <2>1, <1>6
  <2>2. ASSUME NEW k \in 2..m, r[i] = s[k] PROVE r[i].op # "lock"
    <3>1. k \in 1..m
      BY <1>3
    <3> QED
      BY <2>2, <3>1, <1>5
  <2> QED
    BY <2>1, <2>2, <1>8
<1>11. ASSUME holder' # t, NEW i \in 1..(l + n) PROVE r[i].op \notin {"set", "unlock"}
  <2>1. CASE i \in 1..l /\ r[i] = steps[i]
    BY <2>1, <1>6
  <2>2. ASSUME NEW k \in 2..m, r[i] = s[k] PROVE r[i].op \notin {"set", "unlock"}
    <3>1. k \in 1..m /\ 1 \in 1..m /\ 1 < k
      BY <1>3
    <3> QED
      BY <2>2, <3>1, <1>5, <1>6, <1>11
  <2> QED
    BY <2>1, <2>2, <1>8
<1>12. ASSUME NEW i \in 1..(l + n), NEW j \in 1..(l + n), i < j, r[i].op = "unlock"
       PROVE  r[j].op \notin {"set", "unlock"}
  <2>1. PICK k \in 2..m : i = (l + k) - 1 /\ r[i] = s[k]
    BY <1>6, <1>8, <1>12
  <2>2. j \notin 1..l
    BY <2>1, <1>3, <1>12
  <2>3. PICK h \in 2..m : j = (l + h) - 1 /\ r[j] = s[h]
    BY <2>2, <1>8
  <2>4. k \in 1..m /\ h \in 1..m /\ k < h
    BY <2>1, <2>3, <1>3, <1>12
  <2> QED
    BY <2>1, <2>3, <2>4, <1>5, <1>12
<1> QED
  BY <1>7, <1>9, <1>10, <1>11, <1>12

\* The start of the driver's callback, and that of its critical section.
LEMMA ScriptShape ==
  ASSUME todo \in [Thread -> Seq(Op)], NEW t \in Thread, todo'[t] = Script
  PROVE  Shape(t)'
  BY ScriptOrder DEF Shape, Script

LEMMA LockShape ==
  ASSUME todo \in [Thread -> Seq(Op)], NEW t \in Thread, todo[t] = Script, holder' = t,
         todo'[t] = Tail(Script)
  PROVE  Shape(t)'
<1> DEFINE N == Len(Script)
           r == Tail(Script)
<1>1. /\ Script \in Seq(Op) /\ Script # <<>> /\ N \in Nat /\ N # 0 /\ DOMAIN Script = 1..N
      /\ r \in Seq(Op) /\ Len(r) = N - 1 /\ DOMAIN r = 1..(N - 1)
      /\ \A i \in 1..(N - 1) : r[i] = Script[i + 1]
  BY ScriptIs, ScriptOrder
<1> HIDE DEF N, r
<1>2. \A i \in 1..(N - 1) : r[i].op \notin {"change", "mark", "lock"}
  <2> SUFFICES ASSUME NEW i \in 1..(N - 1) PROVE r[i].op \notin {"change", "mark", "lock"}
    OBVIOUS
  <2>1. i + 1 \in 1..N /\ i + 1 # 1 /\ r[i] = Script[i + 1]
    BY <1>1
  <2> QED
    BY <2>1, <1>1, ScriptOrder
<1>3. \A i, j \in 1..(N - 1) : i < j /\ r[i].op = "unlock" => r[j].op \notin {"set", "unlock"}
  <2> SUFFICES ASSUME NEW i \in 1..(N - 1), NEW j \in 1..(N - 1), i < j, r[i].op = "unlock"
               PROVE  r[j].op \notin {"set", "unlock"}
    OBVIOUS
  <2>1. /\ i + 1 \in 1..N /\ r[i] = Script[i + 1]
        /\ j + 1 \in 1..N /\ r[j] = Script[j + 1] /\ i + 1 < j + 1
    BY <1>1
  <2> QED
    BY <2>1, <1>1, ScriptOrder
<1>4. todo'[t] = r
  BY DEF r
<1> QED
  BY <1>1, <1>2, <1>3, <1>4 DEF Shape, Script
-----------------------------------------------------------------------------
(* GenerateSeq                                                             *)

LEMMA FiniteImage ==
  ASSUME NEW S, NEW T, NEW f \in [S -> T], \A y \in T : \E x \in S : f[x] = y, IsFiniteSet(S)
  PROVE  IsFiniteSet(T)
<1>1. f \in Surjection(S, T)
  BY DEF Surjection
<1> QED
  BY <1>1, FS_Surjection

\* Of the numbers up to one more than those in use, one is not in use.
LEMMA FreeNumber ==
  ASSUME NEW S, IsFiniteSet(S)
  PROVE  \E n \in 1..(Cardinality(S) + 1) : n \notin S
<1>1. Cardinality(S) \in Nat
  BY FS_CardinalityType
<1> DEFINE m == Cardinality(S)
<1> HIDE DEF m
<1>2. IsFiniteSet(1..(m + 1)) /\ Cardinality(1..(m + 1)) = m + 1
  BY <1>1, FS_Interval DEF m
<1>3. 1..(m + 1) \in SUBSET S => Cardinality(1..(m + 1)) <= m
  BY FS_Subset DEF m
<1>4. \E n \in 1..(m + 1) : n \notin S
  BY <1>1, <1>2, <1>3 DEF m
<1> QED
  BY <1>4 DEF m

LEMMA NewCmdIs ==
  ASSUME todo \in [Thread -> Seq(Op)], Finite, NEW k \in Kind
  PROVE  NewCmd(k) = [kind |-> k, seq |-> NewCmd(k).seq] /\ NewCmd(k).seq \in Nat
<1> DEFINE cmds == commands \cup {d.cmd : d \in net} \cup UNION {Held(t) : t \in Thread}
           C == {x \in cmds : x.kind = k}
           inUse == {c.seq : c \in C}
<1>1. IsFiniteSet({d.cmd : d \in net})
  <2> DEFINE f == [d \in net |-> d.cmd]
  <2>1. f \in [net -> {d.cmd : d \in net}] /\ \A y \in {d.cmd : d \in net} : \E x \in net : f[x] = y
    OBVIOUS
  <2> QED
    BY <2>1, FiniteImage DEF Finite
<1>2. ASSUME NEW t \in Thread PROVE IsFiniteSet(Held(t))
  <2> DEFINE D == {j \in DOMAIN todo[t] : todo[t][j].op \in {"add", "put"}}
             f == [j \in D |-> todo[t][j].cmd]
  <2>1. Len(todo[t]) \in Nat /\ DOMAIN todo[t] = 1..Len(todo[t])
    OBVIOUS
  <2>2. IsFiniteSet(1..Len(todo[t]))
    BY <2>1, FS_Interval
  <2>3. IsFiniteSet(D)
    BY <2>1, <2>2, FS_Subset
  <2>4. f \in [D -> Held(t)] /\ \A y \in Held(t) : \E x \in D : f[x] = y
    BY DEF Held
  <2> HIDE DEF D, f
  <2> QED
    BY <2>3, <2>4, FiniteImage
<1>3. UNION {Held(t) : t \in Thread} = (Held("detection") \cup Held("command")) \cup Held("data")
  BY DEF Thread
<1>4. IsFiniteSet(UNION {Held(t) : t \in Thread})
  <2>1. IsFiniteSet(Held("detection") \cup Held("command"))
    BY <1>2, FS_Union DEF Thread
  <2>2. IsFiniteSet(Held("data"))
    BY <1>2 DEF Thread
  <2>3. IsFiniteSet((Held("detection") \cup Held("command")) \cup Held("data"))
    BY <2>1, <2>2, FS_Union
  <2> QED
    BY <2>3, <1>3
<1>5. IsFiniteSet(cmds)
  <2>1. IsFiniteSet(commands \cup {d.cmd : d \in net})
    BY <1>1, FS_Union DEF Finite
  <2> QED
    BY <2>1, <1>4, FS_Union
<1> HIDE DEF cmds
<1>6. IsFiniteSet(C)
  BY <1>5, FS_Subset
<1> HIDE DEF C
<1>7. IsFiniteSet(inUse)
  <2> DEFINE f == [c \in C |-> c.seq]
  <2>1. f \in [C -> inUse] /\ \A y \in inUse : \E x \in C : f[x] = y
    OBVIOUS
  <2> HIDE DEF f, inUse
  <2> QED
    BY <2>1, <1>6, FiniteImage
<1> HIDE DEF inUse
<1>8. \E n \in 1..(Cardinality(inUse) + 1) : n \notin inUse
  BY <1>7, FreeNumber
<1> DEFINE free == CHOOSE n \in 1..(Cardinality(inUse) + 1) : n \notin inUse
<1>9. free \in 1..(Cardinality(inUse) + 1)
  BY <1>8
<1>10. free \in Nat
  BY <1>9, <1>7, FS_CardinalityType
<1> HIDE DEF free
<1>11. NewCmd(k) = [kind |-> k, seq |-> free]
  BY DEF NewCmd, free, inUse, C, cmds
<1> QED
  BY <1>10, <1>11
-----------------------------------------------------------------------------
(* What every step leaves in order                                         *)

LEMMA KindsDiffer == Option \subseteq {"type", "pattern", "blind", "dual"}
<1>1. Options \in Seq({"type", "pattern", "blind", "dual"})
  BY OptionsAssumption
<1> QED
  BY <1>1 DEF Option

\* A thread that does not move keeps the shape of its stack, unless it loses
\* the mutex.
LEMMA OthersShape ==
  ASSUME NEW u \in Thread, Shape(u), todo'[u] = todo[u], holder' = holder \/ holder # u
  PROVE  Shape(u)'
  BY DEF Shape, Script

\* A thread at the end of its critical section holds the mutex.
LEMMA HolderUnlocks ==
  ASSUME ConnectInv, NEW t \in Thread, todo[t] # <<>>, Head(todo[t]).op \in {"set", "unlock"}
  PROVE  holder = t
<1>1. todo[t] \in Seq(Op) /\ Shape(t)
  BY DEF ConnectInv, ConnectTypeOK
<1>2. 1 \in DOMAIN todo[t] /\ Head(todo[t]) = todo[t][1]
  BY <1>1
<1>3. todo[t] # Script
  BY ScriptOrder
<1> QED
  BY <1>1, <1>2, <1>3 DEF Shape

LEMMA TodoKeeps ==
  ASSUME ConnectInv, NEW t \in Thread, NEW steps \in Seq(Op), Does(t, steps), Quiet(steps, t),
         todo[t] # <<>> => Head(todo[t]).op # "lock",
         \/ holder' = holder
         \/ todo[t] # <<>> /\ Head(todo[t]).op = "unlock" /\ steps = <<>>,
         \A i \in DOMAIN steps : steps[i].op = "clear" => steps[i].kind \in answered,
         answered' = answered
  PROVE  /\ todo' \in [Thread -> Seq(Op)]
         /\ \A u \in Thread : Shape(u)'
         /\ \A u \in Thread : \A e \in Steps(u)' : e.op = "clear" => e.kind \in answered'
<1>1. /\ todo \in [Thread -> Seq(Op)]
      /\ \A u \in Thread : Shape(u)
      /\ \A u \in Thread : \A e \in Steps(u) : e.op = "clear" => e.kind \in answered
  BY DEF ConnectInv, ConnectTypeOK, Answered
<1>2. todo' \in [Thread -> Seq(Op)] /\ \A u \in Thread \ {t} : todo'[u] = todo[u]
  BY <1>1, DoesIndex
<1>3. Shape(t)'
  BY <1>1, QuietShape
<1>4. ASSUME NEW u \in Thread \ {t} PROVE Shape(u)'
  <2>1. holder' = holder \/ holder # u
    BY HolderUnlocks
  <2> QED
    BY <2>1, <1>1, <1>2, OthersShape
<1>5. /\ \A u \in Thread \ {t} : Steps(u)' = Steps(u)
      /\ \A e \in Steps(t)' : (\E i \in DOMAIN steps : e = steps[i]) \/ e \in Steps(t)
  BY <1>1, DoesSteps
<1>6. ASSUME NEW u \in Thread, NEW e \in Steps(u)', e.op = "clear" PROVE e.kind \in answered'
  <2>1. CASE u = t
    BY <2>1, <1>1, <1>5, <1>6
  <2>2. CASE u # t
    BY <2>2, <1>1, <1>5, <1>6
  <2> QED
    BY <2>1, <2>2
<1> QED
  BY <1>2, <1>3, <1>4, <1>6

\* A thread that does not set a bit leaves every option asked for.
LEMMA AskedKeeps ==
  ASSUME ConnectInv, NEW t \in Thread, NEW steps \in Seq(Op), Does(t, steps),
         todo[t] # <<>> => Head(todo[t]).op # "set",
         AllAsked, UNCHANGED <<setBits, holder, answered>>
  PROVE  AllAsked'
<1>1. todo \in [Thread -> Seq(Op)]
  BY DEF ConnectInv, ConnectTypeOK
<1>2. /\ \A u \in Thread \ {t} : Steps(u)' = Steps(u)
      /\ \A e \in Steps(t) : e = Head(todo[t]) \/ e \in Steps(t)'
  BY <1>1, DoesSteps
<1>3. ASSUME NEW k \in Option, holder \in Thread, [op |-> "set", kind |-> k] \in Steps(holder)
      PROVE  [op |-> "set", kind |-> k] \in Steps(holder)'
  <2>1. CASE holder # t
    BY <2>1, <1>2, <1>3
  <2>2. CASE holder = t
    <3>1. todo[t] # <<>>
      BY <2>2, <1>1, <1>3 DEF Steps
    <3> QED
      BY <3>1, <2>2, <1>2, <1>3
  <2> QED
    BY <2>1, <2>2
<1> QED
  BY <1>3 DEF AllAsked

\* Steps that ask for no option.
Neutral(steps) ==
  \A i \in DOMAIN steps :
    /\ steps[i].op = "send" => steps[i].kind \notin Option
    /\ steps[i].op = "add" => steps[i].cmd.kind \notin Option
    /\ steps[i].op # "clear"

LEMMA NotBegunKeeps ==
  ASSUME ConnectInv, NEW t \in Thread, NEW steps \in Seq(Op), Does(t, steps),
         NotBegun, Neutral(steps), UNCHANGED <<setBits, holder>>,
         \A d \in net' : d \in net \/ d.cmd.kind \notin Option,
         \A c \in commands' : c \in commands \/ c.kind \notin Option
  PROVE  NotBegun'
<1>1. todo \in [Thread -> Seq(Op)]
  BY DEF ConnectInv, ConnectTypeOK
<1>2. /\ \A u \in Thread \ {t} : Steps(u)' = Steps(u)
      /\ \A e \in Steps(t)' : (\E i \in DOMAIN steps : e = steps[i]) \/ e \in Steps(t)
  BY <1>1, DoesSteps
<1>3. ASSUME NEW u \in Thread, NEW e \in Steps(u)'
      PROVE  /\ e.op = "send" => e.kind \notin Option
             /\ e.op = "add" => e.cmd.kind \notin Option
             /\ e.op # "clear"
  <2>1. CASE u = t
    BY <2>1, <1>2, <1>3 DEF NotBegun, Neutral
  <2>2. CASE u # t
    BY <2>2, <1>2, <1>3 DEF NotBegun
  <2> QED
    BY <2>1, <2>2
<1>4. holder' = "none" /\ setBits' = {} /\ Option' = Option /\ Thread' = Thread
  BY DEF NotBegun, Option, Thread
<1>5. (\A d \in net' : d.cmd.kind \notin Option) /\ (\A c \in commands' : c.kind \notin Option)
  BY DEF NotBegun
<1> QED
  BY <1>3, <1>4, <1>5 DEF NotBegun

\* A bit whose request moves on is not orphaned.
LEMMA OrphanKeeps ==
  ASSUME ConnectInv, NEW t \in Thread, NEW steps \in Seq(Op), Does(t, steps),
         setBits' = setBits, crashed => crashed',
         \A k \in setBits : todo[t] # <<>> /\ AsksFor(Head(todo[t]), k) =>
           crashed' \/ (\E i \in DOMAIN steps : AsksFor(steps[i], k)) \/ (\E c \in commands' : c.kind = k),
         \A c \in commands : c.kind \in Option =>
           c \in commands' \/ (\E i \in DOMAIN steps : AsksFor(steps[i], c.kind))
  PROVE  NoOrphan'
<1>1. todo \in [Thread -> Seq(Op)] /\ setBits \subseteq Option
  BY DEF ConnectInv, ConnectTypeOK
<1>2. /\ \A u \in Thread \ {t} : Steps(u)' = Steps(u)
      /\ \A i \in DOMAIN steps : steps[i] \in Steps(t)'
      /\ \A e \in Steps(t) : e = Head(todo[t]) \/ e \in Steps(t)'
  BY <1>1, DoesSteps
<1> SUFFICES ASSUME NEW k \in setBits
             PROVE  \/ crashed'
                    \/ \E c \in commands' : c.kind = k
                    \/ \E u \in Thread : \E e \in Steps(u)' : AsksFor(e, k)
  BY DEF NoOrphan, AsksFor
<1>3. CASE crashed
  BY <1>3
<1>4. CASE \E i \in DOMAIN steps : AsksFor(steps[i], k)
  BY <1>2, <1>4
<1>5. ASSUME NEW c \in commands, c.kind = k
      PROVE  \/ \E x \in commands' : x.kind = k
             \/ \E u \in Thread : \E e \in Steps(u)' : AsksFor(e, k)
  <2>1. c \in commands' \/ (\E i \in DOMAIN steps : AsksFor(steps[i], k))
    BY <1>1, <1>5
  <2> QED
    BY <2>1, <1>2, <1>5
<1>6. ASSUME NEW u \in Thread, NEW e \in Steps(u), AsksFor(e, k)
      PROVE  \/ crashed'
             \/ \E x \in commands' : x.kind = k
             \/ \E v \in Thread : \E f \in Steps(v)' : AsksFor(f, k)
  <2>1. CASE u # t
    BY <2>1, <1>2, <1>6
  <2>2. CASE u = t /\ e # Head(todo[t])
    BY <2>2, <1>2, <1>6
  <2>3. CASE u = t /\ e = Head(todo[t])
    <3>1. todo[t] # <<>>
      BY <2>3, <1>1, <1>6 DEF Steps
    <3>2. crashed' \/ (\E i \in DOMAIN steps : AsksFor(steps[i], k)) \/ (\E c \in commands' : c.kind = k)
      BY <3>1, <2>3, <1>6
    <3> QED
      BY <3>2, <1>2
  <2> QED
    BY <2>1, <2>2, <2>3
<1> QED
  BY <1>3, <1>5, <1>6 DEF ConnectInv, NoOrphan
-----------------------------------------------------------------------------
(* The answers and timeouts of commands                                    *)

\* What a callback leaves to do, and what it changes.
CallbackDone(t, k, steps) ==
  /\ Does(t, steps) /\ Quiet(steps, t)
  /\ \A i \in DOMAIN steps : steps[i].op = "clear" => steps[i].kind \in answered
  /\ k \notin Option => Neutral(steps)
  /\ k \in Option => \E i \in DOMAIN steps : AsksFor(steps[i], k)
  /\ UNCHANGED <<known, updated, told, setBits, sampling, holder, crashed>>
  /\ mode' \in {"none", "app", "loader"} /\ fwFails' \in 0..(FwLimit + 1)
  /\ isSet' \in BOOLEAN /\ working' \in BOOLEAN

LEMMA CallbackIs ==
  ASSUME ConnectInv, NEW t \in Thread, Idle(t), NEW k \in Kind,
         NEW status \in {"ok", "refused", "timeout"},
         status = "refused" => k \in {"fw", "cfg"},
         status = "ok" /\ k \in Option => k \in answered,
         Callback(t, k, status)
  PROVE  \E steps \in Seq(Op) : CallbackDone(t, k, steps)
<1>1. todo[t] = <<>> /\ Len(todo[t]) = 0
  BY DEF Idle
<1>2. <<>> \in Seq(Op) /\ Quiet(<<>>, t) /\ Neutral(<<>>) /\ DOMAIN <<>> = {}
  BY DEF Quiet, Neutral
<1>3. ASSUME NEW j \in Kind
      PROVE  /\ <<Send(j)>> \in Seq(Op) /\ Quiet(<<Send(j)>>, t)
             /\ j \notin Option => Neutral(<<Send(j)>>)
             /\ \E i \in DOMAIN <<Send(j)>> : AsksFor(<<Send(j)>>[i], j)
             /\ \A i \in DOMAIN <<Send(j)>> : <<Send(j)>>[i].op # "clear"
  BY <1>3 DEF Quiet, Neutral, AsksFor, Send, Op
<1>4. /\ fwFails \in 0..(FwLimit + 1) /\ FwLimit \in Nat
      /\ mode \in {"none", "app", "loader"} /\ isSet \in BOOLEAN /\ working \in BOOLEAN
  BY ConnectLimits DEF ConnectInv, ConnectTypeOK
<1>5. CASE k = "fw"
  <2>1. QueryFwTypeCallback(t, status) /\ k \notin Option /\ "fw" \notin Option
    BY <1>5, KindsDiffer DEF Callback
  <2>2. UNCHANGED <<known, isSet, updated, told, setBits, sampling, working, holder, crashed>>
    BY <2>1 DEF QueryFwTypeCallback, driver
  <2>3. CASE Does(t, <<>>) /\ fwFails' = 0 /\ mode' \in {"app", "loader"}
    <3>1. CallbackDone(t, k, <<>>)
      BY <2>1, <2>2, <2>3, <1>2, <1>4 DEF CallbackDone
    <3> QED
      BY <3>1, <1>2
  <2>4. CASE Does(t, <<Send("fw")>>) /\ fwFails' = fwFails + 1 /\ mode' = mode /\ ~(fwFails > FwLimit)
    <3>1. fwFails' \in 0..(FwLimit + 1)
      BY <2>4, <1>4
    <3>2. "fw" \in Kind
      BY DEF Kind
    <3> QED
      BY <3>1, <3>2, <2>1, <2>2, <2>4, <1>3, <1>4 DEF CallbackDone
  <2> QED
    BY <2>1, <2>3, <2>4 DEF QueryFwTypeCallback
<1>6. CASE k = "cfg"
  <2>1. UpdateLidarCallback(t, status) /\ k \notin Option
    BY <1>6, KindsDiffer DEF Callback
  <2>2. UNCHANGED <<known, mode, fwFails, updated, told, setBits, sampling, working, holder, crashed>>
        /\ isSet' \in BOOLEAN
    BY <2>1 DEF UpdateLidarCallback, driver
  <2>3. /\ <<Step("change")>> \in Seq(Op) /\ Quiet(<<Step("change")>>, t)
        /\ Neutral(<<Step("change")>>)
        /\ \A i \in DOMAIN <<Step("change")>> : <<Step("change")>>[i].op # "clear"
    BY <1>1 DEF Quiet, Neutral, Step, Op
  <2>4. CASE status = "ok"
    <3>1. Does(t, <<Step("change")>>)
      BY <2>1, <2>4 DEF UpdateLidarCallback
    <3> QED
      BY <3>1, <2>1, <2>2, <2>3, <1>4 DEF CallbackDone
  <2>5. CASE status # "ok"
    <3>1. Does(t, <<>>)
      BY <2>1, <2>5 DEF UpdateLidarCallback
    <3> QED
      BY <3>1, <2>1, <2>2, <1>2, <1>4 DEF CallbackDone
  <2> QED
    BY <2>4, <2>5
<1>7. CASE k = "mode"
  <2>1. WorkModeChangedCallback(t, status) /\ k \notin Option /\ "mode" \in Kind
    BY <1>7, KindsDiffer DEF Callback, Kind
  <2>2. UNCHANGED <<known, mode, fwFails, isSet, updated, told, setBits, sampling, holder, crashed>>
        /\ working' \in BOOLEAN
    BY <2>1, <1>4 DEF WorkModeChangedCallback, device
  <2>3. Does(t, <<>>) \/ Does(t, <<Send("mode")>>)
    BY <2>1 DEF WorkModeChangedCallback
  <2> QED
    BY <2>1, <2>2, <2>3, <1>2, <1>3, <1>4, <1>7 DEF CallbackDone
<1>8. CASE k \in Option
  <2>1. OptionCallback(t, k, status) /\ status # "refused"
    BY <1>8, KindsDiffer DEF Callback
  <2>2. UNCHANGED <<known, mode, fwFails, isSet, updated, told, setBits, sampling, working, holder, crashed>>
    BY <2>1 DEF OptionCallback, device
  <2>3. CASE status = "ok"
    <3> DEFINE e == [op |-> "clear", kind |-> k]
    <3>1. Does(t, <<e>>)
      BY <2>1, <2>3 DEF OptionCallback
    <3>2. e \in Op /\ e.op = "clear" /\ e.kind = k /\ k \in answered
      BY <2>3, <1>8 DEF Op
    <3> HIDE DEF e
    <3>3. /\ <<e>> \in Seq(Op) /\ Quiet(<<e>>, t)
          /\ \A i \in DOMAIN <<e>> : <<e>>[i].op = "clear" => <<e>>[i].kind \in answered
          /\ \E i \in DOMAIN <<e>> : AsksFor(<<e>>[i], k)
      BY <3>2 DEF Quiet, AsksFor
    <3> QED
      BY <3>1, <3>3, <2>2, <1>4, <1>8 DEF CallbackDone
  <2>4. CASE status = "timeout"
    <3>1. Does(t, <<Send(k)>>)
      BY <2>1, <2>4 DEF OptionCallback
    <3> QED
      BY <3>1, <2>2, <1>3, <1>4, <1>8 DEF CallbackDone
  <2> QED
    BY <2>1, <2>3, <2>4
<1> QED
  BY <1>5, <1>6, <1>7, <1>8 DEF Kind
-----------------------------------------------------------------------------
(* The steps                                                               *)

\* Steps that leave the bits, the mutex and the answers as they are.
LEMMA Routine ==
  ASSUME ConnectInv, NEW t \in Thread, NEW steps \in Seq(Op), Does(t, steps), Quiet(steps, t),
         todo[t] # <<>> => Head(todo[t]).op # "lock",
         crashed' \/ (todo[t] # <<>> => Head(todo[t]).op # "set"),
         UNCHANGED <<setBits, holder, answered, sampling>>,
         \A i \in DOMAIN steps : steps[i].op = "clear" => steps[i].kind \in answered,
         crashed => crashed',
         \A d \in net' : d.what # "request" /\ d.cmd.kind \in Option => d.cmd.kind \in answered,
         NotBegun => crashed' \/ NotBegun',
         ConnectTypeOK', Finite', RefusedOK', NoOrphan'
  PROVE  ConnectInv'
<1>1. /\ \A u \in Thread : Shape(u)'
      /\ \A u \in Thread : \A e \in Steps(u)' : e.op = "clear" => e.kind \in answered'
  BY TodoKeeps, Zenon
<1>2. Answered'
  BY <1>1 DEF Answered, Option, Thread
<1>3. (crashed \/ NotBegun \/ AllAsked)'
  <2>1. CASE crashed' \/ NotBegun
    BY <2>1
  <2>2. CASE ~crashed' /\ AllAsked
    BY <2>2, AskedKeeps
  <2> QED
    BY <2>1, <2>2 DEF ConnectInv
<1>4. SamplingMeansConfigured'
  BY DEF ConnectInv, SamplingMeansConfigured, Option
<1> QED
  BY <1>1, <1>2, <1>3, <1>4 DEF ConnectInv, Thread

\* A command ends: its callback runs.
LEMMA CommandEnds ==
  ASSUME ConnectInv, NEW t \in Thread, Idle(t), NEW c \in commands,
         NEW status \in {"ok", "refused", "timeout"},
         status = "refused" => c.kind \in {"fw", "cfg"},
         status = "ok" /\ c.kind \in Option => c.kind \in answered,
         Callback(t, c.kind, status),
         commands' = commands \ {c}, net' \in SUBSET net,
         UNCHANGED <<answered, inLoader>>, faults' \in 0..MaxFaults
  PROVE  ConnectInv'
<1>1. c.kind \in Kind /\ commands \subseteq Cmd /\ net \subseteq Datagram
  BY DEF ConnectInv, ConnectTypeOK, Cmd
<1>2. PICK steps \in Seq(Op) : CallbackDone(t, c.kind, steps)
  BY <1>1, CallbackIs, Zenon
<1>3. /\ Does(t, steps) /\ Quiet(steps, t)
      /\ UNCHANGED <<setBits, holder, answered, sampling, crashed, known, updated, told>>
      /\ \A i \in DOMAIN steps : steps[i].op = "clear" => steps[i].kind \in answered
      /\ todo[t] = <<>>
  BY <1>2 DEF CallbackDone, Idle
<1>4. todo' \in [Thread -> Seq(Op)]
  BY <1>3, DoesIndex DEF ConnectInv, ConnectTypeOK
<1>5. ConnectTypeOK'
  BY <1>1, <1>2, <1>3, <1>4 DEF CallbackDone, ConnectInv, ConnectTypeOK, Option, Thread, Cmd, Kind, Datagram, Op
<1>6. Finite'
  <2>1. commands' \in SUBSET commands
    OBVIOUS
  <2> QED
    BY <2>1, FS_Subset DEF ConnectInv, Finite
<1>7. RefusedOK'
  BY DEF ConnectInv, RefusedOK
<1>8. \A d \in net' : d.what # "request" /\ d.cmd.kind \in Option => d.cmd.kind \in answered
  BY DEF ConnectInv, Answered
<1>9. ASSUME NotBegun PROVE NotBegun'
  <2>1. Neutral(steps)
    BY <1>2, <1>9 DEF CallbackDone, NotBegun
  <2> QED
    BY <2>1, <1>3, <1>9, NotBegunKeeps
<1>10. NoOrphan'
  <2>1. \A x \in commands : x.kind \in Option =>
          x \in commands' \/ (\E i \in DOMAIN steps : AsksFor(steps[i], x.kind))
    BY <1>2 DEF CallbackDone
  <2> QED
    BY <2>1, <1>3, OrphanKeeps
<1> QED
  BY <1>3, <1>5, <1>6, <1>7, <1>8, <1>9, <1>10, Routine

LEMMA HandlerKeeps == ASSUME ConnectInv, Handler PROVE ConnectInv'
<1>1. PICK d \in net :
        /\ d.what # "request"
        /\ net' = net \ {d}
        /\ commands' = commands \ {d.cmd}
        /\ IF d.cmd \in commands
           THEN Callback("command", d.cmd.kind, d.what)
           ELSE UNCHANGED <<device, driver, todo>>
        /\ IF Unregistered(d.cmd) THEN Fault ELSE UNCHANGED faults
  BY DEF Handler
<1>2. /\ Idle("command") /\ UNCHANGED <<inLoader, answered>> /\ "command" \in Thread
  BY DEF Handler, Thread
<1>3. faults' \in 0..MaxFaults
  BY <1>1, ConnectLimits DEF Fault, ConnectInv, ConnectTypeOK
<1>4. d.what \in {"ok", "refused"} /\ d.cmd.kind \in Kind
  BY <1>1 DEF ConnectInv, ConnectTypeOK, Datagram, Cmd
<1>5. CASE d.cmd \in commands
  <2>1. d.what = "refused" => d.cmd.kind \in {"fw", "cfg"}
    BY DEF ConnectInv, RefusedOK
  <2>2. d.what = "ok" /\ d.cmd.kind \in Option => d.cmd.kind \in answered
    BY DEF ConnectInv, Answered
  <2> QED
    BY <1>1, <1>2, <1>3, <1>4, <1>5, <2>1, <2>2, CommandEnds
<1>6. CASE d.cmd \notin commands
  <2>1. commands' = commands /\ UNCHANGED <<device, driver, todo, inLoader, answered>> /\ net' \in SUBSET net
    BY <1>1, <1>2, <1>6
  <2>2. ConnectTypeOK'
    BY <2>1, <1>3 DEF ConnectInv, ConnectTypeOK, device, driver, Option, Thread, Cmd, Kind, Datagram, Op
  <2>3. Finite'
    BY <2>1, FS_Subset DEF ConnectInv, Finite
  <2>4. RefusedOK' /\ Answered'
    BY <2>1 DEF ConnectInv, RefusedOK, Answered, Steps, Option, Thread
  <2>5. \A u \in Thread : Shape(u)'
    BY <2>1 DEF ConnectInv, Shape, Script, driver
  <2>6. (crashed \/ NotBegun \/ AllAsked)'
    BY <2>1 DEF ConnectInv, NotBegun, AllAsked, Steps, driver, Option, Thread
  <2>7. NoOrphan' /\ SamplingMeansConfigured'
    BY <2>1 DEF ConnectInv, NoOrphan, SamplingMeansConfigured, Steps, AsksFor, driver, Option, Thread
  <2> QED
    BY <2>2, <2>3, <2>4, <2>5, <2>6, <2>7 DEF ConnectInv, Thread
<1> QED
  BY <1>5, <1>6

LEMMA TimeoutKeeps == ASSUME ConnectInv, NEW t \in Thread, CommandsHandle(t) PROVE ConnectInv'
<1>1. PICK c \in commands :
        /\ IF UnderWay(c) THEN Fault ELSE UNCHANGED faults
        /\ commands' = commands \ {c}
        /\ Callback(t, c.kind, "timeout")
  BY DEF CommandsHandle
<1>2. Idle(t) /\ UNCHANGED <<inLoader, net, answered>>
  BY DEF CommandsHandle
<1>3. faults' \in 0..MaxFaults
  BY <1>1, ConnectLimits DEF Fault, ConnectInv, ConnectTypeOK
<1> QED
  BY <1>1, <1>2, <1>3, CommandEnds

\* The first step of a thread.
LEMMA FirstStep ==
  ASSUME ConnectInv, NEW t \in Thread, NEW name, Head1(t, name)
  PROVE  /\ todo[t] # <<>> /\ Head(todo[t]) \in Op /\ Head(todo[t]).op = name
         /\ Head(todo[t]) \in Steps(t) /\ ~crashed
         /\ name \in {"change", "mark"} => Len(todo[t]) = 1
<1>1. todo[t] \in Seq(Op) /\ todo[t] # <<>> /\ Head(todo[t]).op = name /\ ~crashed
  BY DEF Head1, Alive, ConnectInv, ConnectTypeOK
<1>2. 1 \in DOMAIN todo[t] /\ Head(todo[t]) = todo[t][1] /\ Head(todo[t]) \in Op
  BY <1>1
<1>3. name \in {"change", "mark"} => Len(todo[t]) = 1
  BY <1>1, <1>2 DEF ConnectInv, Shape
<1> QED
  BY <1>1, <1>2, <1>3 DEF Steps

LEMMA NothingLeft ==
  /\ <<>> \in Seq(Op) /\ Neutral(<<>>) /\ DOMAIN <<>> = {}
  /\ \A t \in Thread : Quiet(<<>>, t)
  BY DEF Neutral, Quiet

LEMMA AddCommandKeeps == ASSUME ConnectInv, NEW t \in Thread, AddCommand(t) PROVE ConnectInv'
<1> DEFINE c == Head(todo[t]).cmd
<1>1. /\ Head1(t, "add") /\ commands' = commands \cup {c} /\ Does(t, <<>>)
      /\ UNCHANGED <<inLoader, device, driver, net, answered, faults>>
  BY DEF AddCommand
<1>2. /\ todo[t] # <<>> /\ Head(todo[t]).op = "add" /\ Head(todo[t]) \in Op
      /\ Head(todo[t]) \in Steps(t)
  BY <1>1, FirstStep
<1>3. c \in Cmd
  BY <1>2 DEF Op
<1> HIDE DEF c
<1>4. /\ UNCHANGED <<setBits, holder, answered, sampling, crashed>>
      /\ UNCHANGED <<inLoader, known, mode, fwFails, isSet, updated, told, working, net, faults>>
  BY <1>1 DEF device, driver
<1>5. todo' \in [Thread -> Seq(Op)]
  BY <1>1, DoesIndex, NothingLeft DEF ConnectInv, ConnectTypeOK
<1>6. ConnectTypeOK'
  BY <1>1, <1>3, <1>4, <1>5 DEF ConnectInv, ConnectTypeOK, Option, Thread, Cmd, Kind, Datagram, Op
<1>7. Finite'
  BY <1>1, <1>4, FS_AddElement DEF ConnectInv, Finite
<1>8. /\ RefusedOK'
      /\ \A d \in net' : d.what # "request" /\ d.cmd.kind \in Option => d.cmd.kind \in answered
  BY <1>4 DEF ConnectInv, RefusedOK, Answered
<1>9. ASSUME NotBegun PROVE NotBegun'
  <2>1. c.kind \notin Option
    BY <1>2, <1>9 DEF NotBegun, c
  <2> QED
    BY <2>1, <1>1, <1>4, <1>9, NothingLeft, NotBegunKeeps
<1>10. NoOrphan'
  <2>1. \A k \in setBits : AsksFor(Head(todo[t]), k) => c.kind = k
    BY <1>2 DEF AsksFor, c
  <2> QED
    BY <2>1, <1>1, <1>4, NothingLeft, OrphanKeeps
<1> QED
  BY <1>1, <1>2, <1>4, <1>6, <1>7, <1>8, <1>9, <1>10, NothingLeft, Routine

LEMMA PutCfgKeeps == ASSUME ConnectInv, NEW t \in Thread, PutCfg(t) PROVE ConnectInv'
<1> DEFINE d == [cmd |-> Head(todo[t]).cmd, what |-> "request"]
<1>1. /\ Head1(t, "put") /\ Does(t, <<>>)
      /\ net' \in {net, net \cup {d}}
      /\ faults' \in {faults, faults + 1} /\ (faults' # faults => faults < MaxFaults)
      /\ UNCHANGED <<inLoader, device, driver, commands, answered>>
  BY DEF PutCfg, Fault
<1>2. /\ todo[t] # <<>> /\ Head(todo[t]).op = "put" /\ Head(todo[t]) \in Op
  BY <1>1, FirstStep
<1>3. d \in Datagram /\ d.cmd.kind = "cfg" /\ d.what = "request"
  BY <1>2 DEF Op, Datagram, Cmd, Kind
<1> HIDE DEF d
<1>4. /\ UNCHANGED <<setBits, holder, answered, sampling, crashed>>
      /\ UNCHANGED <<inLoader, known, mode, fwFails, isSet, updated, told, working, commands>>
  BY <1>1 DEF device, driver
<1>5. todo' \in [Thread -> Seq(Op)]
  BY <1>1, DoesIndex, NothingLeft DEF ConnectInv, ConnectTypeOK
<1>6. faults' \in 0..MaxFaults
  BY <1>1, ConnectLimits DEF ConnectInv, ConnectTypeOK
<1>7. ConnectTypeOK'
  BY <1>1, <1>3, <1>4, <1>5, <1>6 DEF ConnectInv, ConnectTypeOK, Option, Thread, Cmd, Kind, Datagram, Op
<1>8. Finite'
  BY <1>1, <1>4, FS_AddElement DEF ConnectInv, Finite
<1>9. /\ RefusedOK'
      /\ \A e \in net' : e.what # "request" /\ e.cmd.kind \in Option => e.cmd.kind \in answered
  BY <1>1, <1>3 DEF ConnectInv, RefusedOK, Answered
<1>10. ASSUME NotBegun PROVE NotBegun'
  BY <1>1, <1>3, <1>4, <1>10, NothingLeft, KindsDiffer, NotBegunKeeps
<1>11. NoOrphan'
  BY <1>1, <1>2, <1>4, NothingLeft, OrphanKeeps DEF AsksFor
<1> QED
  BY <1>1, <1>2, <1>4, <1>7, <1>8, <1>9, <1>10, <1>11, NothingLeft, Routine

LEMMA InfoChangeKeeps == ASSUME ConnectInv, NEW t \in Thread, InfoChange(t) PROVE ConnectInv'
<1>1. /\ Head1(t, "change") /\ Does(t, IF told THEN <<>> ELSE <<Step("mark")>>)
      /\ UNCHANGED <<setBits, holder, answered, sampling, crashed, commands, net, faults>>
      /\ UNCHANGED <<inLoader, known, mode, fwFails, isSet, told, working>> /\ updated' = TRUE
  BY DEF InfoChange, driver, wire
<1>2. todo[t] # <<>> /\ Head(todo[t]).op = "change" /\ Len(todo[t]) = 1
  BY <1>1, FirstStep
<1>3. PICK steps \in Seq(Op) :
        /\ Does(t, steps) /\ Quiet(steps, t) /\ Neutral(steps)
  <2>1. <<Step("mark")>> \in Seq(Op) /\ Quiet(<<Step("mark")>>, t) /\ Neutral(<<Step("mark")>>)
    BY <1>2 DEF Quiet, Neutral, Step, Op
  <2> QED
    BY <1>1, <2>1, NothingLeft
<1>4. todo' \in [Thread -> Seq(Op)]
  BY <1>3, DoesIndex DEF ConnectInv, ConnectTypeOK
<1>5. ConnectTypeOK'
  BY <1>1, <1>4 DEF ConnectInv, ConnectTypeOK, Option, Thread, Cmd, Kind, Datagram, Op
<1>6. Finite' /\ RefusedOK'
  BY <1>1 DEF ConnectInv, Finite, RefusedOK
<1>7. \A d \in net' : d.what # "request" /\ d.cmd.kind \in Option => d.cmd.kind \in answered
  BY <1>1 DEF ConnectInv, Answered
<1>8. NotBegun => NotBegun'
  BY <1>1, <1>3, NotBegunKeeps
<1>9. NoOrphan'
  BY <1>1, <1>2, <1>3, OrphanKeeps DEF AsksFor
<1> QED
  BY <1>1, <1>2, <1>3, <1>5, <1>6, <1>7, <1>8, <1>9, Routine DEF Neutral

LEMMA DetectionKeeps == ASSUME ConnectInv, DetectionData PROVE ConnectInv'
<1> DEFINE t == "detection"
           c == NewCmd("cfg")
<1>1. /\ t \in Thread /\ todo[t] = <<>> /\ Len(todo[t]) = 0
      /\ "fw" \in Kind /\ "cfg" \in Kind /\ "fw" \notin Option /\ "cfg" \notin Option
  BY KindsDiffer DEF DetectionData, Idle, Thread, Kind
<1>2. c = [kind |-> "cfg", seq |-> c.seq] /\ c.seq \in Nat
  BY <1>1, NewCmdIs DEF ConnectInv, ConnectTypeOK
<1>3. /\ UNCHANGED <<setBits, holder, answered, sampling, crashed, net, faults>>
      /\ UNCHANGED <<inLoader, mode, fwFails, isSet, updated, told, working>>
      /\ known' \in 0..2 /\ commands' \in {commands, commands \cup {c}}
  BY DEF DetectionData, driver, ConnectInv, ConnectTypeOK
<1> DEFINE e == [op |-> "put", cmd |-> c]
<1>4. Does(t, <<e>>) \/ Does(t, <<Send("fw")>>) \/ Does(t, <<Step("change")>>) \/ Does(t, <<>>)
  BY DEF DetectionData
<1>5. c \in Cmd /\ c.kind = "cfg" /\ e \in Op /\ e.op = "put"
  BY <1>1, <1>2 DEF Cmd, Op
<1> HIDE DEF e, c, t
<1>6. PICK steps \in Seq(Op) : Does(t, steps) /\ Quiet(steps, t) /\ Neutral(steps)
  <2>1. <<e>> \in Seq(Op) /\ Quiet(<<e>>, t) /\ Neutral(<<e>>)
    BY <1>5 DEF Quiet, Neutral
  <2>2. <<Send("fw")>> \in Seq(Op) /\ Quiet(<<Send("fw")>>, t) /\ Neutral(<<Send("fw")>>)
    BY <1>1 DEF Quiet, Neutral, Send, Op
  <2>3. <<Step("change")>> \in Seq(Op) /\ Quiet(<<Step("change")>>, t) /\ Neutral(<<Step("change")>>)
    BY <1>1 DEF Quiet, Neutral, Step, Op
  <2> QED
    BY <1>1, <1>4, <2>1, <2>2, <2>3, NothingLeft
<1>7. todo' \in [Thread -> Seq(Op)]
  BY <1>1, <1>6, DoesIndex DEF ConnectInv, ConnectTypeOK
<1>8. ConnectTypeOK'
  BY <1>3, <1>5, <1>7 DEF ConnectInv, ConnectTypeOK, Option, Thread, Cmd, Kind, Datagram, Op
<1>9. Finite' /\ RefusedOK'
  BY <1>3, FS_AddElement DEF ConnectInv, Finite, RefusedOK
<1>10. \A d \in net' : d.what # "request" /\ d.cmd.kind \in Option => d.cmd.kind \in answered
  BY <1>3 DEF ConnectInv, Answered
<1>11. NotBegun => NotBegun'
  BY <1>1, <1>3, <1>5, <1>6, NotBegunKeeps
<1>12. NoOrphan'
  BY <1>1, <1>3, <1>6, OrphanKeeps
<1> QED
  BY <1>1, <1>3, <1>6, <1>8, <1>9, <1>10, <1>11, <1>12, Routine DEF Neutral

\* Both ways of asking for something.
LEMMA Sends ==
  ASSUME ConnectInv, NEW t \in Thread, Head1(t, "send") \/ Head1(t, "set")
  PROVE  /\ todo[t] # <<>> /\ Head(todo[t]) \in Op /\ Head(todo[t]).op \in {"send", "set"}
         /\ Head(todo[t]) \in Steps(t) /\ ~crashed
         /\ Head(todo[t]).kind \in Kind
         /\ Head(todo[t]).op = "set" => /\ Head(todo[t]).kind \in Option
                                        /\ Head(todo[t]) = [op |-> "set", kind |-> Head(todo[t]).kind]
<1>1. /\ todo[t] # <<>> /\ Head(todo[t]) \in Op /\ Head(todo[t]).op \in {"send", "set"}
      /\ Head(todo[t]) \in Steps(t) /\ ~crashed
  BY FirstStep
<1> QED
  BY <1>1 DEF Op, Kind

LEMMA AddIs ==
  ASSUME ConnectInv, NEW k \in Kind
  PROVE  LET e == [op |-> "add", cmd |-> NewCmd(k)] IN
         e \in Op /\ NewCmd(k) \in Cmd /\ NewCmd(k).kind = k /\ e.op = "add" /\ e.cmd.kind = k
<1>1. NewCmd(k) = [kind |-> k, seq |-> NewCmd(k).seq] /\ NewCmd(k).seq \in Nat
  BY NewCmdIs DEF ConnectInv, ConnectTypeOK
<1>2. NewCmd(k) \in Cmd /\ NewCmd(k).kind = k
  BY <1>1 DEF Cmd
<1> QED
  BY <1>2 DEF Op

LEMMA SendFailsKeeps == ASSUME ConnectInv, NEW t \in Thread, SendFails(t) PROVE ConnectInv'
<1> DEFINE k == Head(todo[t]).kind
           c == NewCmd(k)
           e == [op |-> "add", cmd |-> c]
           rest == Tail(todo[t])
<1>1. /\ todo[t] # <<>> /\ Head(todo[t]).op \in {"send", "set"} /\ ~crashed /\ k \in Kind
      /\ Head(todo[t]).op = "set" => k \in Option
      /\ todo \in [Thread -> Seq(Op)]
  BY Sends DEF SendFails, ConnectInv, ConnectTypeOK
<1>2. rest \in Seq(Op) /\ <<>> \o rest = rest
  BY <1>1, ConcatEmptySeq
<1>3. e \in Op /\ e.op = "add" /\ e.cmd.kind = k
  BY <1>1, AddIs
<1>4. /\ UNCHANGED <<setBits, holder, answered, sampling, commands, net>>
      /\ UNCHANGED <<inLoader, known, isSet, updated, told, working>>
      /\ faults' \in 0..MaxFaults
  BY ConnectLimits DEF SendFails, Fault, ConnectInv, ConnectTypeOK
<1>5. /\ fwFails \in 0..(FwLimit + 1) /\ FwLimit \in Nat /\ mode \in {"none", "app", "loader"}
  BY ConnectLimits DEF ConnectInv, ConnectTypeOK
<1>6. PICK steps \in Seq(Op) :
        /\ Does(t, steps) /\ Quiet(steps, t)
        /\ k \in Option => crashed' = TRUE
        /\ k \notin Option => crashed' = crashed /\ Neutral(steps)
        /\ fwFails' \in 0..(FwLimit + 1) /\ mode' \in {"none", "app", "loader"}
        /\ \A i \in DOMAIN steps : steps[i].op # "clear"
  <2>1. CASE k \in Option
    <3>1. todo' = [todo EXCEPT ![t] = rest] /\ crashed' = TRUE /\ UNCHANGED <<fwFails, mode>>
      BY <2>1 DEF SendFails
    <3>2. Does(t, <<>>)
      BY <3>1, <1>1, <1>2 DEF Does
    <3> QED
      BY <3>1, <3>2, <2>1, <1>5, NothingLeft
  <2>2. CASE k \notin Option /\ k = "fw" /\ fwFails > FwLimit
    <3>1. /\ todo' = [todo EXCEPT ![t] = <<e>> \o rest] /\ UNCHANGED crashed
          /\ fwFails' = 0 /\ mode' = "app"
      BY <2>2 DEF SendFails
    <3>2. Does(t, <<e>>)
      BY <3>1, <1>1 DEF Does
    <3> HIDE DEF e, k
    <3>3. <<e>> \in Seq(Op) /\ Quiet(<<e>>, t) /\ Neutral(<<e>>)
      BY <1>3, <2>2 DEF Quiet, Neutral
    <3>4. \A i \in DOMAIN <<e>> : <<e>>[i].op # "clear"
      BY <3>3 DEF Neutral
    <3>5. fwFails' \in 0..(FwLimit + 1) /\ mode' \in {"none", "app", "loader"} /\ crashed' = crashed
      BY <3>1, <1>5
    <3> QED
      BY <3>2, <3>3, <3>4, <3>5, <2>2
  <2>3. CASE k \notin Option /\ ~(k = "fw" /\ fwFails > FwLimit)
    <3>1. /\ todo' = [todo EXCEPT ![t] = <<Send(k), e>> \o rest] /\ UNCHANGED crashed
          /\ fwFails' = (IF k = "fw" THEN fwFails + 1 ELSE fwFails) /\ mode' = mode
      BY <2>3 DEF SendFails
    <3>2. Does(t, <<Send(k), e>>)
      BY <3>1, <1>1 DEF Does
    <3>3. fwFails' \in 0..(FwLimit + 1)
      BY <3>1, <2>3, <1>5
    <3> HIDE DEF e, k
    <3>4. Send(k) \in Op /\ Send(k).op = "send" /\ Send(k).kind = k
      BY <1>1 DEF Send, Op
    <3>5. <<Send(k), e>> \in Seq(Op) /\ Quiet(<<Send(k), e>>, t) /\ Neutral(<<Send(k), e>>)
      BY <1>3, <2>3, <3>4 DEF Quiet, Neutral
    <3> QED
      BY <3>1, <3>2, <3>3, <3>5, <2>3, <1>5 DEF Neutral
  <2> QED
    BY <2>1, <2>2, <2>3
<1>7. todo' \in [Thread -> Seq(Op)]
  BY <1>1, <1>6, DoesIndex
<1>8. crashed' \in BOOLEAN /\ (crashed => crashed')
  <2>1. crashed \in BOOLEAN
    BY DEF ConnectInv, ConnectTypeOK
  <2> QED
    BY <2>1, <1>1, <1>6
<1>9. ConnectTypeOK'
  BY <1>4, <1>6, <1>7, <1>8 DEF ConnectInv, ConnectTypeOK, Option, Thread, Cmd, Kind, Datagram, Op
<1>10. Finite' /\ RefusedOK'
  BY <1>4 DEF ConnectInv, Finite, RefusedOK
<1>11. \A d \in net' : d.what # "request" /\ d.cmd.kind \in Option => d.cmd.kind \in answered
  BY <1>4 DEF ConnectInv, Answered
<1>12. ASSUME NotBegun PROVE crashed' \/ NotBegun'
  <2>1. CASE k \in Option
    BY <2>1, <1>6
  <2>2. CASE k \notin Option
    BY <2>2, <1>4, <1>6, <1>12, NotBegunKeeps
  <2> QED
    BY <2>1, <2>2
<1>13. NoOrphan'
  <2>1. \A b \in setBits : AsksFor(Head(todo[t]), b) => crashed'
    BY <1>1, <1>6 DEF AsksFor, ConnectInv, ConnectTypeOK
  <2> QED
    BY <2>1, <1>4, <1>6, <1>8, OrphanKeeps
<1>14. crashed' \/ Head(todo[t]).op # "set"
  BY <1>1, <1>6
<1> QED
  BY <1>1, <1>4, <1>6, <1>8, <1>9, <1>10, <1>11, <1>12, <1>13, <1>14, Routine

\* An option or another command is sent; with an option the bit may be set.
LEMMA SendOkKeeps == ASSUME ConnectInv, NEW t \in Thread, SendOk(t) PROVE ConnectInv'
<1> DEFINE k == Head(todo[t]).kind
           c == NewCmd(k)
           e == [op |-> "add", cmd |-> c]
           d == [cmd |-> c, what |-> "request"]
<1>1. /\ todo[t] # <<>> /\ Head(todo[t]).op \in {"send", "set"} /\ ~crashed /\ k \in Kind
      /\ Head(todo[t]) \in Steps(t)
      /\ Head(todo[t]).op = "set" => k \in Option /\ Head(todo[t]) = [op |-> "set", kind |-> k]
      /\ todo \in [Thread -> Seq(Op)]
  BY Sends DEF SendOk, ConnectInv, ConnectTypeOK
<1>2. /\ Does(t, <<e>>) /\ net' = net \cup {d}
      /\ setBits' = IF Head(todo[t]).op = "set" THEN setBits \cup {k} ELSE setBits
      /\ UNCHANGED <<holder, answered, sampling, crashed, commands, faults>>
      /\ UNCHANGED <<inLoader, known, mode, fwFails, isSet, updated, told, working>>
  BY <1>1 DEF SendOk, Head1, Alive, device
<1>3. e \in Op /\ e.op = "add" /\ e.cmd.kind = k /\ c \in Cmd
  BY <1>1, AddIs
<1>4. d \in Datagram /\ d.what = "request" /\ d.cmd.kind = k
  BY <1>3 DEF Datagram
<1> HIDE DEF e, d, c, k
<1>5. /\ <<e>> \in Seq(Op) /\ Quiet(<<e>>, t)
      /\ \A i \in DOMAIN <<e>> : <<e>>[i].op # "clear"
      /\ DOMAIN <<e>> = {1} /\ <<e>>[1] = e
  BY <1>3 DEF Quiet
<1>6. todo' \in [Thread -> Seq(Op)]
  BY <1>1, <1>2, <1>5, DoesIndex
<1>7. setBits \subseteq setBits' /\ setBits' \subseteq Option
  BY <1>1, <1>2 DEF ConnectInv, ConnectTypeOK
<1>8. ConnectTypeOK'
  BY <1>2, <1>4, <1>6, <1>7 DEF ConnectInv, ConnectTypeOK, Option, Thread, Cmd, Kind, Datagram, Op
<1>9. Finite'
  BY <1>2, FS_AddElement DEF ConnectInv, Finite
<1>10. /\ RefusedOK'
       /\ \A x \in net' : x.what # "request" /\ x.cmd.kind \in Option => x.cmd.kind \in answered'
  BY <1>2, <1>4 DEF ConnectInv, RefusedOK, Answered
<1>11. /\ \A u \in Thread : Shape(u)'
       /\ \A u \in Thread : \A x \in Steps(u)' : x.op = "clear" => x.kind \in answered'
  BY <1>1, <1>2, <1>5, TodoKeeps
<1>12. /\ \A u \in Thread \ {t} : Steps(u)' = Steps(u)
       /\ e \in Steps(t)'
       /\ \A x \in Steps(t) : x = Head(todo[t]) \/ x \in Steps(t)'
  BY <1>1, <1>2, <1>5, DoesSteps
<1>13. (crashed \/ NotBegun \/ AllAsked)'
  <2>1. CASE Head(todo[t]).op = "set"
    <3>1. holder = t
      BY <2>1, <1>1, HolderUnlocks
    <3>2. AllAsked
      BY <3>1, <1>1 DEF ConnectInv, NotBegun, Thread
    <3>3. ASSUME NEW b \in Option, b \notin answered, b \notin setBits, b # k
          PROVE  [op |-> "set", kind |-> b] \in Steps(t)'
      <4>1. [op |-> "set", kind |-> b] \in Steps(t)
        BY <3>1, <3>2, <3>3 DEF AllAsked
      <4>2. [op |-> "set", kind |-> b] # [op |-> "set", kind |-> k]
        BY <3>3
      <4> QED
        BY <4>1, <4>2, <2>1, <1>1, <1>12
    <3> QED
      BY <3>1, <3>2, <3>3, <2>1, <1>2 DEF AllAsked, Option, Thread
  <2>2. CASE Head(todo[t]).op = "send" /\ AllAsked
    BY <2>2, <1>1, <1>2, <1>5, AskedKeeps
  <2>3. CASE Head(todo[t]).op = "send" /\ NotBegun
    <3>1. k \notin Option
      BY <2>3, <1>1 DEF NotBegun, k
    <3>2. Neutral(<<e>>)
      BY <3>1, <1>3, <1>5 DEF Neutral
    <3> QED
      BY <3>1, <3>2, <2>3, <1>2, <1>4, <1>5, NotBegunKeeps
  <2> QED
    BY <2>1, <2>2, <2>3, <1>1 DEF ConnectInv
<1>14. NoOrphan'
  <2> SUFFICES ASSUME NEW b \in setBits'
               PROVE  \/ crashed'
                      \/ \E x \in commands' : x.kind = b
                      \/ \E u \in Thread : \E x \in Steps(u)' : AsksFor(x, b)
    BY DEF NoOrphan, AsksFor, Thread
  <2>1. CASE b = k
    BY <2>1, <1>3, <1>12 DEF AsksFor
  <2>2. CASE b # k
    <3>1. b \in setBits
      BY <2>2, <1>2
    <3>2. ASSUME NEW u \in Thread, NEW x \in Steps(u), AsksFor(x, b) PROVE x \in Steps(u)'
      <4>1. x # Head(todo[t])
        BY <3>2, <2>2, <1>1 DEF AsksFor, k
      <4> QED
        BY <4>1, <1>12
    <3> QED
      BY <3>1, <3>2, <1>1, <1>2 DEF ConnectInv, NoOrphan
  <2> QED
    BY <2>1, <2>2
<1>15. SamplingMeansConfigured'
  BY <1>2 DEF ConnectInv, SamplingMeansConfigured, Option
<1> QED
  BY <1>8, <1>9, <1>10, <1>11, <1>13, <1>14, <1>15 DEF ConnectInv, Answered, Thread, Option

\* The driver's callback begins; it asks for nothing yet.
LEMMA MarkToldKeeps == ASSUME ConnectInv, NEW t \in Thread, MarkTold(t) PROVE ConnectInv'
<1>1. /\ Head1(t, "mark") /\ Does(t, Script) /\ told' = TRUE
      /\ UNCHANGED <<setBits, holder, answered, sampling, crashed, commands, net, faults>>
      /\ UNCHANGED <<inLoader, known, mode, fwFails, isSet, updated, working>>
  BY DEF MarkTold, driver, wire, Script
<1>2. todo[t] # <<>> /\ Head(todo[t]).op = "mark" /\ Len(todo[t]) = 1
  BY <1>1, FirstStep
<1>3. /\ todo \in [Thread -> Seq(Op)]
      /\ \A u \in Thread : Shape(u)
  BY DEF ConnectInv, ConnectTypeOK
<1>4. Script \in Seq(Op)
  BY ScriptIs
<1>5. /\ todo' \in [Thread -> Seq(Op)]
      /\ \A u \in Thread \ {t} : todo'[u] = todo[u]
      /\ todo'[t] = Script
  <2>1. Tail(todo[t]) = <<>>
    <3>1. todo[t] \in Seq(Op)
      BY <1>3
    <3>2. Tail(todo[t]) \in Seq(Op) /\ Len(Tail(todo[t])) = 0
      BY <3>1, <1>2, HeadTailProperties
    <3> QED
      BY <3>2, EmptySeq
  <2>2. Script \o <<>> = Script
    BY <1>4, ConcatEmptySeq
  <2>3. todo' = [todo EXCEPT ![t] = Script]
    BY <2>1, <2>2, <1>1, <1>2 DEF Does
  <2> QED
    BY <2>3, <1>3, <1>4
<1>6. ConnectTypeOK'
  BY <1>1, <1>5 DEF ConnectInv, ConnectTypeOK, Option, Thread, Cmd, Kind, Datagram, Op
<1>7. Finite' /\ RefusedOK'
  BY <1>1 DEF ConnectInv, Finite, RefusedOK
<1>8. ASSUME NEW u \in Thread PROVE Shape(u)'
  <2>1. CASE u = t
    BY <2>1, <1>3, <1>5, ScriptShape
  <2>2. CASE u # t
    BY <2>2, <1>1, <1>3, <1>5, OthersShape
  <2> QED
    BY <2>1, <2>2
<1>9. Neutral(Script) /\ DOMAIN Script = 1..Len(Script)
  <2>1. ASSUME NEW i \in DOMAIN Script
        PROVE  Script[i] = Send("mode") \/ Script[i].op \in {"lock", "set", "unlock"}
    <3> DEFINE N == Len(Options)
    <3>1. N \in Nat /\ i \in 1..(N + 3)
      BY ScriptIs
    <3>2. CASE i = 1 \/ i = N + 2 \/ i = N + 3
      BY <3>2, ScriptIs DEF Step
    <3>3. CASE i \in 2..(N + 1)
      <4> DEFINE j == i - 1
      <4>1. j \in 1..N /\ j + 1 = i
        BY <3>1, <3>3
      <4> HIDE DEF j
      <4>2. Script[j + 1] = [op |-> "set", kind |-> Options[j]]
        BY <4>1, ScriptIs
      <4> QED
        BY <4>1, <4>2
    <3> QED
      BY <3>1, <3>2, <3>3
  <2>2. Send("mode").op = "send" /\ Send("mode").kind = "mode" /\ "mode" \notin Option
    BY KindsDiffer DEF Send
  <2> QED
    BY <2>1, <2>2, <1>4 DEF Neutral
<1>10. /\ \A u \in Thread \ {t} : Steps(u)' = Steps(u)
       /\ \A e \in Steps(t)' : (\E i \in DOMAIN Script : e = Script[i]) \/ e \in Steps(t)
  BY <1>1, <1>3, <1>4, DoesSteps
<1>11. Answered'
  <2>1. ASSUME NEW u \in Thread, NEW e \in Steps(u)', e.op = "clear" PROVE e.kind \in answered
    <3>1. e \in Steps(u)
      BY <2>1, <1>9, <1>10 DEF Neutral
    <3> QED
      BY <3>1, <2>1 DEF ConnectInv, Answered
  <2> QED
    BY <2>1, <1>1 DEF ConnectInv, Answered, Option, Thread
<1>12. (crashed \/ NotBegun \/ AllAsked)'
  <2>1. CASE crashed
    BY <2>1, <1>1
  <2>2. CASE NotBegun
    BY <2>2, <1>1, <1>4, <1>9, NotBegunKeeps
  <2>3. CASE AllAsked
    BY <2>3, <1>1, <1>2, <1>4, AskedKeeps
  <2> QED
    BY <2>1, <2>2, <2>3 DEF ConnectInv
<1>13. NoOrphan'
  BY <1>1, <1>2, <1>4, OrphanKeeps DEF AsksFor
<1>14. SamplingMeansConfigured'
  BY <1>1 DEF ConnectInv, SamplingMeansConfigured, Option
<1> QED
  BY <1>6, <1>7, <1>8, <1>11, <1>12, <1>13, <1>14 DEF ConnectInv, Thread

LEMMA LockKeeps == ASSUME ConnectInv, NEW t \in Thread, Lock(t) PROVE ConnectInv'
<1>1. /\ Head1(t, "lock") /\ holder = "none" /\ holder' = t /\ Does(t, <<>>)
      /\ UNCHANGED <<setBits, answered, sampling, crashed, commands, net, faults>>
      /\ UNCHANGED <<inLoader, known, mode, fwFails, isSet, updated, told, working>>
  BY DEF Lock, device, wire
<1>2. todo[t] # <<>> /\ Head(todo[t]).op = "lock"
  BY <1>1, FirstStep
<1>3. /\ todo \in [Thread -> Seq(Op)]
      /\ \A u \in Thread : Shape(u)
  BY DEF ConnectInv, ConnectTypeOK
<1>4. todo[t] = Script
  <2>1. 1 \in DOMAIN todo[t] /\ Head(todo[t]) = todo[t][1]
    BY <1>2, <1>3
  <2> QED
    BY <2>1, <1>2, <1>3 DEF Shape
<1>5. /\ todo' \in [Thread -> Seq(Op)]
      /\ \A u \in Thread \ {t} : todo'[u] = todo[u]
      /\ todo'[t] = Tail(Script)
  <2>1. Tail(Script) \in Seq(Op) /\ <<>> \o Tail(Script) = Tail(Script)
    BY ScriptIs, ScriptOrder, ConcatEmptySeq
  <2>2. todo' = [todo EXCEPT ![t] = Tail(Script)]
    BY <2>1, <1>1, <1>2, <1>4 DEF Does
  <2> QED
    BY <2>1, <2>2, <1>3
<1>6. ConnectTypeOK'
  BY <1>1, <1>5 DEF ConnectInv, ConnectTypeOK, Option, Thread, Cmd, Kind, Datagram, Op
<1>7. Finite' /\ RefusedOK'
  BY <1>1 DEF ConnectInv, Finite, RefusedOK
<1>8. ASSUME NEW u \in Thread PROVE Shape(u)'
  <2>1. CASE u = t
    BY <2>1, <1>1, <1>3, <1>4, <1>5, LockShape
  <2>2. CASE u # t
    BY <2>2, <1>1, <1>3, <1>5, OthersShape DEF Thread
  <2> QED
    BY <2>1, <2>2
<1>9. /\ \A u \in Thread \ {t} : Steps(u)' = Steps(u)
      /\ \A e \in Steps(t)' : e \in Steps(t)
      /\ \A e \in Steps(t) : e = Head(todo[t]) \/ e \in Steps(t)'
  BY <1>1, <1>3, NothingLeft, DoesSteps
<1>10. Answered'
  <2>1. ASSUME NEW u \in Thread, NEW e \in Steps(u)' PROVE e \in Steps(u)
    BY <1>9
  <2> QED
    BY <2>1, <1>1 DEF ConnectInv, Answered, Option, Thread
<1>11. AllAsked'
  <2>1. ASSUME NEW k \in Option PROVE [op |-> "set", kind |-> k] \in Steps(t)'
    <3>1. PICK i \in DOMAIN Options : Options[i] = k
      BY DEF Option
    <3>2. i \in 1..Len(Options) /\ i + 1 \in DOMAIN Script
      BY ScriptIs, OptionsAssumption
    <3>3. Script[i + 1] = [op |-> "set", kind |-> k]
      BY <3>1, <3>2, ScriptIs
    <3>4. [op |-> "set", kind |-> k] \in Steps(t)
      BY <3>2, <3>3, <1>4 DEF Steps
    <3>5. [op |-> "set", kind |-> k] # Head(todo[t])
      BY <1>2
    <3> QED
      BY <3>4, <3>5, <1>9
  <2> QED
    BY <2>1, <1>1 DEF AllAsked, Option, Thread
<1>12. NoOrphan'
  BY <1>1, <1>2, NothingLeft, OrphanKeeps DEF AsksFor
<1>13. SamplingMeansConfigured'
  BY <1>1 DEF ConnectInv, SamplingMeansConfigured, Option
<1> QED
  BY <1>6, <1>7, <1>8, <1>10, <1>11, <1>12, <1>13 DEF ConnectInv, Thread

LEMMA UnlockKeeps == ASSUME ConnectInv, NEW t \in Thread, Unlock(t) PROVE ConnectInv'
<1>1. /\ Head1(t, "unlock") /\ holder' = "none" /\ Does(t, <<>>)
      /\ UNCHANGED <<setBits, answered, sampling, crashed, commands, net, faults>>
      /\ UNCHANGED <<inLoader, known, mode, fwFails, isSet, updated, told, working>>
  BY DEF Unlock, device, wire
<1>2. todo[t] # <<>> /\ Head(todo[t]).op = "unlock"
  BY <1>1, FirstStep
<1>3. todo \in [Thread -> Seq(Op)] /\ Shape(t)
  BY DEF ConnectInv, ConnectTypeOK
<1>4. holder = t
  BY <1>2, HolderUnlocks
<1>5. /\ todo' \in [Thread -> Seq(Op)]
      /\ \A u \in Thread : Shape(u)'
      /\ \A u \in Thread : \A e \in Steps(u)' : e.op = "clear" => e.kind \in answered'
  BY <1>1, <1>2, NothingLeft, TodoKeeps
<1>6. ConnectTypeOK'
  BY <1>1, <1>5 DEF ConnectInv, ConnectTypeOK, Option, Thread, Cmd, Kind, Datagram, Op
<1>7. Finite' /\ RefusedOK' /\ Answered'
  BY <1>1, <1>5 DEF ConnectInv, Finite, RefusedOK, Answered, Option, Thread
<1>8. \A e \in Steps(t) : e.op # "set"
  <2>1. 1 \in DOMAIN todo[t] /\ todo[t][1].op = "unlock" /\ DOMAIN todo[t] \subseteq Nat \ {0}
    BY <1>2, <1>3
  <2>2. \A i \in DOMAIN todo[t] : i = 1 \/ 1 < i
    BY <2>1
  <2> QED
    BY <2>1, <2>2, <1>3 DEF Shape, Steps
<1>9. crashed \/ AllAsked
  BY <1>1, <1>4 DEF ConnectInv, NotBegun, Thread
<1>10. AllAsked => AllAsked'
  <2>1. ASSUME AllAsked, NEW k \in Option PROVE k \in answered \/ k \in setBits
    <3>1. [op |-> "set", kind |-> k] \notin Steps(t)
      BY <1>8
    <3> QED
      BY <3>1, <2>1, <1>4 DEF AllAsked
  <2> QED
    BY <2>1, <1>1 DEF AllAsked, Option, Thread
<1>11. NoOrphan'
  BY <1>1, <1>2, NothingLeft, OrphanKeeps DEF AsksFor
<1>12. SamplingMeansConfigured'
  BY <1>1 DEF ConnectInv, SamplingMeansConfigured, Option
<1> QED
  BY <1>1, <1>5, <1>6, <1>7, <1>9, <1>10, <1>11, <1>12 DEF ConnectInv, Thread

LEMMA ClearBitKeeps == ASSUME ConnectInv, NEW t \in Thread, ClearBit(t) PROVE ConnectInv'
<1> DEFINE k == Head(todo[t]).kind
<1>1. /\ Head1(t, "clear") /\ holder = "none" /\ Does(t, <<>>)
      /\ setBits' = setBits \ {k} /\ sampling' = (sampling \/ setBits' = {})
      /\ UNCHANGED <<holder, answered, crashed, commands, net, faults>>
      /\ UNCHANGED <<inLoader, known, mode, fwFails, isSet, updated, told, working>>
  BY DEF ClearBit, device, wire
<1>2. /\ todo[t] # <<>> /\ Head(todo[t]).op = "clear" /\ Head(todo[t]) \in Steps(t) /\ ~crashed
  BY <1>1, FirstStep
<1>3. k \in answered /\ ~NotBegun
  BY <1>2 DEF ConnectInv, Answered, NotBegun
<1>4. AllAsked
  BY <1>2, <1>3 DEF ConnectInv
<1>5. todo \in [Thread -> Seq(Op)]
  BY DEF ConnectInv, ConnectTypeOK
<1>6. /\ todo' \in [Thread -> Seq(Op)]
      /\ \A u \in Thread : Shape(u)'
      /\ \A u \in Thread : \A e \in Steps(u)' : e.op = "clear" => e.kind \in answered'
  BY <1>1, <1>2, NothingLeft, TodoKeeps
<1> HIDE DEF k
<1>7. \A b \in Option : b \in answered \/ b \in setBits'
  BY <1>1, <1>3, <1>4 DEF AllAsked, Thread
<1>8. ConnectTypeOK'
  BY <1>1, <1>6 DEF ConnectInv, ConnectTypeOK, Option, Thread, Cmd, Kind, Datagram, Op
<1>9. Finite' /\ RefusedOK' /\ Answered'
  BY <1>1, <1>6 DEF ConnectInv, Finite, RefusedOK, Answered, Option, Thread
<1>10. AllAsked'
  BY <1>1, <1>7 DEF AllAsked, Option, Thread
<1>11. SamplingMeansConfigured'
  BY <1>1, <1>7 DEF ConnectInv, ConnectTypeOK, SamplingMeansConfigured, Option
<1>12. NoOrphan'
  <2> SUFFICES ASSUME NEW b \in setBits'
               PROVE  \/ crashed'
                      \/ \E x \in commands' : x.kind = b
                      \/ \E u \in Thread : \E x \in Steps(u)' : AsksFor(x, b)
    BY DEF NoOrphan, AsksFor, Thread
  <2>1. b \in setBits /\ b # k
    BY <1>1
  <2>2. /\ \A u \in Thread \ {t} : Steps(u)' = Steps(u)
        /\ \A x \in Steps(t) : x = Head(todo[t]) \/ x \in Steps(t)'
    BY <1>1, <1>5, NothingLeft, DoesSteps
  <2>3. ASSUME NEW u \in Thread, NEW x \in Steps(u), AsksFor(x, b) PROVE x \in Steps(u)'
    <3>1. x # Head(todo[t])
      BY <2>1, <2>3, <1>2 DEF AsksFor, k
    <3> QED
      BY <3>1, <2>2
  <2> QED
    BY <2>1, <2>3, <1>1, <1>2 DEF ConnectInv, NoOrphan
<1> QED
  BY <1>6, <1>8, <1>9, <1>10, <1>11, <1>12 DEF ConnectInv, Thread

\* The lidar and the network touch no bit and no stack.
LEMMA NetKeeps ==
  ASSUME ConnectInv,
         UNCHANGED <<inLoader, device, driver, commands, todo>>,
         net' \subseteq Datagram, IsFiniteSet(net'), faults' \in 0..MaxFaults,
         answered \subseteq answered', answered' \subseteq Option, RefusedOK',
         \A d \in net' : d.what # "request" /\ d.cmd.kind \in Option => d.cmd.kind \in answered',
         NotBegun => \A d \in net' : d.cmd.kind \notin Option
  PROVE  ConnectInv'
<1>1. /\ UNCHANGED <<inLoader, known, mode, fwFails, isSet, updated, told>>
      /\ UNCHANGED <<setBits, sampling, working, holder, crashed, commands, todo>>
  BY DEF device, driver
<1>2. ConnectTypeOK'
  BY <1>1 DEF ConnectInv, ConnectTypeOK, Option, Thread, Cmd, Kind, Datagram, Op
<1>3. Finite' /\ (\A u \in Thread : Shape(u)')
  BY <1>1 DEF ConnectInv, Finite, Shape, Script
<1>4. Answered'
  BY <1>1 DEF ConnectInv, Answered, Steps, Option, Thread
<1>5. (crashed \/ NotBegun \/ AllAsked)'
  <2>1. NotBegun => NotBegun'
    BY <1>1 DEF NotBegun, Steps, Option, Thread
  <2>2. AllAsked => AllAsked'
    BY <1>1 DEF AllAsked, Steps, Option, Thread
  <2> QED
    BY <2>1, <2>2, <1>1 DEF ConnectInv
<1>6. NoOrphan'
  BY <1>1 DEF ConnectInv, NoOrphan, AsksFor, Steps, Thread
<1>7. SamplingMeansConfigured'
  BY <1>1 DEF ConnectInv, SamplingMeansConfigured, Option
<1> QED
  BY <1>2, <1>3, <1>4, <1>5, <1>6, <1>7 DEF ConnectInv, Thread

LEMMA LidarKeeps == ASSUME ConnectInv, LidarAnswers PROVE ConnectInv'
<1>1. PICK d \in net :
        /\ d.what = "request"
        /\ answered' = answered \cup ({d.cmd.kind} \cap Option)
        /\ \/ net' = (net \ {d}) \cup {[d EXCEPT !.what = "ok"]} /\ UNCHANGED faults
           \/ /\ d.cmd.kind \in {"fw", "cfg"}
              /\ net' = (net \ {d}) \cup {[d EXCEPT !.what = "refused"]}
              /\ Fault
  BY DEF LidarAnswers
<1>2. UNCHANGED <<inLoader, device, driver, commands, todo>>
  BY DEF LidarAnswers
<1>3. PICK what \in {"ok", "refused"} :
        /\ net' = (net \ {d}) \cup {[d EXCEPT !.what = what]}
        /\ what = "refused" => d.cmd.kind \in {"fw", "cfg"}
        /\ UNCHANGED faults \/ Fault
  BY <1>1
<1> DEFINE a == [d EXCEPT !.what = what]
<1>4. net \subseteq Datagram /\ answered \subseteq Option /\ faults \in 0..MaxFaults
  BY DEF ConnectInv, ConnectTypeOK
<1>5. a \in Datagram /\ a.cmd = d.cmd /\ a.what = what
  BY <1>4 DEF Datagram
<1>6. faults' \in 0..MaxFaults
  BY <1>3, <1>4, ConnectLimits DEF Fault
<1>7. net' = (net \ {d}) \cup {a}
  BY <1>3
<1> HIDE DEF a
<1>8. IsFiniteSet(net') /\ net' \subseteq Datagram
  <2>1. IsFiniteSet(net \ {d})
    BY FS_RemoveElement DEF ConnectInv, Finite
  <2> QED
    BY <2>1, <1>4, <1>5, <1>7, FS_AddElement
<1>9. RefusedOK'
  BY <1>3, <1>5, <1>7 DEF ConnectInv, RefusedOK
<1>10. /\ answered \subseteq answered' /\ answered' \subseteq Option
       /\ d.cmd.kind \in Option => d.cmd.kind \in answered'
  BY <1>1, <1>4
<1>11. \A x \in net' : x.what # "request" /\ x.cmd.kind \in Option => x.cmd.kind \in answered'
  BY <1>5, <1>7, <1>10 DEF ConnectInv, Answered
<1>12. NotBegun => \A x \in net' : x.cmd.kind \notin Option
  BY <1>5, <1>7 DEF NotBegun
<1> QED
  BY <1>2, <1>6, <1>8, <1>9, <1>10, <1>11, <1>12, NetKeeps

LEMMA LoseKeeps == ASSUME ConnectInv, Lose PROVE ConnectInv'
<1>1. /\ net' \in SUBSET net /\ Fault
      /\ UNCHANGED <<inLoader, device, driver, commands, answered, todo>>
  BY DEF Lose
<1>2. net \subseteq Datagram /\ answered \subseteq Option /\ faults' \in 0..MaxFaults
  BY <1>1, ConnectLimits DEF ConnectInv, ConnectTypeOK, Fault
<1>3. IsFiniteSet(net')
  BY <1>1, FS_Subset DEF ConnectInv, Finite
<1>4. /\ RefusedOK'
      /\ \A d \in net' : d.what # "request" /\ d.cmd.kind \in Option => d.cmd.kind \in answered'
      /\ NotBegun => \A d \in net' : d.cmd.kind \notin Option
  BY <1>1 DEF ConnectInv, RefusedOK, Answered, NotBegun
<1> QED
  BY <1>1, <1>2, <1>3, <1>4, NetKeeps
-----------------------------------------------------------------------------
LEMMA ConnectInitInv == ConnectInit => ConnectInv
<1> SUFFICES ASSUME ConnectInit PROVE ConnectInv
  OBVIOUS
<1>1. \A t \in Thread : todo[t] = <<>> /\ Len(todo[t]) = 0 /\ DOMAIN todo[t] = {} /\ Steps(t) = {}
  BY DEF ConnectInit, Steps
<1>2. ConnectTypeOK
  <2>1. FwLimit \in Nat /\ MaxFaults \in Nat
    BY ConnectLimits
  <2>2. fwFails \in 0..(FwLimit + 1) /\ faults \in 0..MaxFaults /\ known \in 0..2
    BY <2>1 DEF ConnectInit
  <2>3. todo \in [Thread -> Seq(Op)]
    BY DEF ConnectInit
  <2> QED
    BY <2>2, <2>3 DEF ConnectInit, ConnectTypeOK
<1>3. Finite /\ RefusedOK /\ Answered
  BY <1>1, FS_EmptySet DEF ConnectInit, Finite, RefusedOK, Answered
<1>4. \A t \in Thread : Shape(t)
  BY <1>1 DEF Shape
<1>5. NotBegun /\ NoOrphan /\ SamplingMeansConfigured
  BY <1>1 DEF ConnectInit, NotBegun, NoOrphan, SamplingMeansConfigured
<1> QED
  BY <1>2, <1>3, <1>4, <1>5 DEF ConnectInv

LEMMA ConnectNextInv == ConnectInv /\ [ConnectNext]_connectVars => ConnectInv'
<1> SUFFICES ASSUME ConnectInv, [ConnectNext]_connectVars PROVE ConnectInv'
  OBVIOUS
<1>1. CASE DetectionData \/ Handler
  BY <1>1, DetectionKeeps, HandlerKeeps
<1>2. ASSUME NEW t \in Thread, ThreadStep(t) PROVE ConnectInv'
  BY <1>2, SendOkKeeps, AddCommandKeeps, PutCfgKeeps, InfoChangeKeeps, MarkToldKeeps, LockKeeps,
     UnlockKeeps, ClearBitKeeps DEF ThreadStep
<1>3. ASSUME NEW t \in Thread, SendFails(t) \/ CommandsHandle(t) PROVE ConnectInv'
  BY <1>3, SendFailsKeeps, TimeoutKeeps
<1>4. CASE LidarAnswers \/ Lose
  BY <1>4, LidarKeeps, LoseKeeps
<1>5. CASE UNCHANGED connectVars
  <2>1. UNCHANGED <<inLoader, device, driver, commands, todo, net, answered, faults>>
    BY <1>5 DEF connectVars, wire
  <2> QED
    BY <2>1, NetKeeps DEF ConnectInv, ConnectTypeOK, Finite, RefusedOK, Answered, NotBegun
<1> QED
  BY <1>1, <1>2, <1>3, <1>4, <1>5 DEF ConnectNext
-----------------------------------------------------------------------------
\* The invariant holds in every reachable state.
THEOREM ConnectInvariance == ConnectSpec => []ConnectInv
  BY ConnectInitInv, ConnectNextInv, PTL DEF ConnectSpec

\* Type correctness of the search, the commands and the driver's bits; that a
\* sequence number is a number is GenerateSeq finding one that is not in use.
THEOREM ConnectTypes == ConnectSpec => []ConnectTypeOK
<1>1. ConnectInv => ConnectTypeOK
  BY DEF ConnectInv
<1> QED
  BY <1>1, ConnectInvariance, PTL

\* A lidar that is sampling has answered every configured option
\* (LidarInfoChangeCallback holds config_mutex_ while it sets the bits).
THEOREM SamplingIsConfigured == ConnectSpec => []SamplingMeansConfigured
<1>1. ConnectInv => SamplingMeansConfigured
  BY DEF ConnectInv
<1> QED
  BY <1>1, ConnectInvariance, PTL

\* For a bit of set_bits there is always a request, an answer or a retry under
\* way (the option callbacks of livox_lidar_callback.cpp).
THEOREM BitsAreWaitedFor == ConnectSpec => []NoOrphanBit
<1>1. ConnectInv => NoOrphanBit
  <2> SUFFICES ASSUME NoOrphan, NEW k \in setBits, NEW t \in Thread, NEW e \in Steps(t), AsksFor(e, k)
               PROVE  \E i \in DOMAIN todo[t] :
                        \/ todo[t][i].op \in {"send", "clear"} /\ todo[t][i].kind = k
                        \/ todo[t][i].op = "add" /\ todo[t][i].cmd.kind = k
    BY DEF ConnectInv, NoOrphan, NoOrphanBit
  <2> QED
    BY DEF Steps, AsksFor
<1> QED
  BY <1>1, ConnectInvariance, PTL

\* Both facts about the bits of livox_lidar_callback.cpp.
THEOREM BitsStayTrue == ConnectSpec => []BitsAreTrue
  BY SamplingIsConfigured, BitsAreWaitedFor, PTL DEF BitsAreTrue

-----------------------------------------------------------------------------
(* The upgrade of the firmware: as long as every command could be sent, one *)
(* at most waits, and it belongs to the state the upgrader is in.           *)

\* What is known while the command c waits.
Waits(c) ==
  /\ c.ends = "answer" /\ fsm_state = c.event + 1
  /\ c.event = Request => read_offset = 0
  /\ c.event = Xfer =>
       c.piece = read_offset /\ read_offset < Pieces /\ received = 0..(read_offset - 1)
  /\ c.event > Xfer => received = 0..(Pieces - 1)

OneChain ==
  /\ \A c, d \in waiting : c = d
  /\ \A c \in waiting : Waits(c)
  /\ thread # "ran" => waiting = {} /\ fsm_state = StateIdle
  /\ fsm_state = StateErr => waiting = {}
  /\ fsm_state = StateIdle => waiting = {}
  /\ fsm_state = StateIdle /\ thread = "ran" => received = 0..(Pieces - 1)

CallerWaits ==
  /\ caller \in {"start", "rejected", "open"} => thread = "none"
  /\ caller = "polling" => thread # "none"
  /\ caller = "error" /\ ~forked => fsm_state = StateErr
  /\ caller = "success" /\ ~forked => fsm_state = StateIdle /\ thread = "ran"

UpgradeInv ==
  /\ UpgradeTypeOK
  /\ IsFiniteSet(waiting)
  /\ forked \/ OneChain
  /\ CallerWaits

\* A command that is posted is one more command.
LEMMA Posted ==
  ASSUME NEW event \in Request..Complete, NEW piece \in 0..Pieces, NEW rest,
         rest \subseteq UpgradeCmd, IsFiniteSet(rest), Post(event, piece, rest), forked \in BOOLEAN
  PROVE  /\ waiting' \subseteq UpgradeCmd /\ IsFiniteSet(waiting') /\ forked' \in BOOLEAN
         /\ ~forked' => ~forked /\ \E c \in UpgradeCmd :
              /\ waiting' = rest \cup {c}
              /\ c.event = event /\ c.piece = piece /\ c.ends = "answer"
<1>1. PICK ends \in {"answer", "twice"} : Post(event, piece, rest)!(ends)
  BY DEF Post
<1> DEFINE used == {c.seq : c \in rest}
           seq == CHOOSE n \in 1..(Cardinality(used) + 1) : n \notin used
           cmd == [event |-> event, piece |-> piece, ends |-> ends, seq |-> seq]
<1>2. IsFiniteSet(used)
  <2> DEFINE f == [c \in rest |-> c.seq]
  <2>1. f \in [rest -> used] /\ \A y \in used : \E x \in rest : f[x] = y
    OBVIOUS
  <2> HIDE DEF f, used
  <2> QED BY <2>1, FiniteImage
<1>3. seq \in 1..(Cardinality(used) + 1)
  <2> HIDE DEF used
  <2> QED BY <1>2, FreeNumber
<1>4. seq \in Nat
  BY <1>2, <1>3, FS_CardinalityType
<1> HIDE DEF seq
<1>5. cmd \in UpgradeCmd
  BY <1>4 DEF UpgradeCmd
<1>6. waiting' = rest \cup {cmd} /\ forked' = (forked \/ ends = "twice")
  BY <1>1 DEF seq
<1>7. IsFiniteSet(rest \cup {cmd})
  <2> HIDE DEF cmd
  <2> QED BY FS_AddElement
<1> QED BY <1>5, <1>6, <1>7

\* The events that occur.
UpgradeEvent == (Request..Complete) \cup {Reinit, Err}

LEMMA HandlerTypes ==
  ASSUME UpgradeTypeOK, NEW event \in UpgradeEvent, NEW offset \in Nat, NEW rest,
         rest \subseteq UpgradeCmd, IsFiniteSet(rest), FsmEventHandler(event, offset, rest)
  PROVE  /\ fsm_state' \in {StateErr} \cup StateIdle..StateComplete
         /\ read_offset' \in Nat
         /\ waiting' \subseteq UpgradeCmd /\ IsFiniteSet(waiting')
         /\ forked' \in BOOLEAN /\ (~forked' => ~forked)
<1> USE DEF UpgradeTypeOK, Request, Xfer, Complete, Reinit, Err, StateErr, StateIdle, StateComplete,
            UpgradeEvent
<1>1. CASE event = Err
  BY <1>1 DEF FsmEventHandler
<1>2. CASE event # Err /\ ~InTable(event)
  BY <1>2 DEF FsmEventHandler
<1>3. CASE event = Reinit /\ InTable(event)
  BY <1>3 DEF FsmEventHandler
<1>4. CASE event \in Request..Complete /\ InTable(event)
  <2>1. /\ fsm_state' = event + 1
        /\ read_offset' = IF event = Request THEN 0 ELSE offset
        /\ IF event = Xfer /\ offset >= Pieces
           THEN waiting' = rest /\ UNCHANGED forked
           ELSE Post(event, IF event = Xfer THEN offset ELSE 0, rest)
    BY <1>4 DEF FsmEventHandler
  <2>2. CASE event = Xfer /\ offset >= Pieces
    BY <2>1, <2>2
  <2>3. CASE ~(event = Xfer /\ offset >= Pieces)
    <3>1. Post(event, IF event = Xfer THEN offset ELSE 0, rest)
      BY <2>1, <2>3
    <3>2. (IF event = Xfer THEN offset ELSE 0) \in 0..Pieces
      BY <2>3, UpgradeAssumption
    <3>3. waiting' \subseteq UpgradeCmd /\ IsFiniteSet(waiting') /\ forked' \in BOOLEAN
          /\ (~forked' => ~forked)
      BY <3>1, <3>2, <1>4, Posted
    <3> QED BY <2>1, <3>3, <1>4
  <2> QED BY <2>2, <2>3
<1> QED BY <1>1, <1>2, <1>3, <1>4

\* An event of the state the upgrader is in, when no other command waits, keeps
\* the chain one, if what was received fits the offset.
LEMMA ChainGoesOn ==
  ASSUME UpgradeTypeOK, ~forked, NEW event \in UpgradeEvent, NEW offset \in Nat,
         FsmEventHandler(event, offset, {}), thread' = "ran",
         event # Err => InTable(event),
         event = Xfer => received' = 0..(offset - 1) /\ offset <= Pieces,
         event \notin {Request, Xfer, Err} => received' = 0..(Pieces - 1)
  PROVE  forked' \/ OneChain'
<1> USE DEF UpgradeTypeOK, Request, Xfer, Complete, Reinit, Err, StateErr, StateIdle, StateComplete,
            UpgradeEvent, OneChain, Waits
<1>1. CASE event = Err
  BY <1>1 DEF FsmEventHandler
<1>2. CASE event = Reinit
  BY <1>2 DEF FsmEventHandler
<1>3. CASE event \in Request..Complete
  <2>1. /\ fsm_state' = event + 1
        /\ read_offset' = IF event = Request THEN 0 ELSE offset
        /\ IF event = Xfer /\ offset >= Pieces
           THEN waiting' = {} /\ UNCHANGED forked
           ELSE Post(event, IF event = Xfer THEN offset ELSE 0, {})
    BY <1>3 DEF FsmEventHandler
  <2>2. CASE event = Xfer /\ offset >= Pieces
    BY <2>1, <2>2
  <2>3. CASE ~(event = Xfer /\ offset >= Pieces)
    <3>1. Post(event, IF event = Xfer THEN offset ELSE 0, {})
      BY <2>1, <2>3
    <3>2. (IF event = Xfer THEN offset ELSE 0) \in 0..Pieces
      BY <2>3, UpgradeAssumption
    <3> DEFINE piece == IF event = Xfer THEN offset ELSE 0
    <3>3. ~forked' => \E c \in UpgradeCmd :
              waiting' = {} \cup {c} /\ c.event = event /\ c.piece = piece /\ c.ends = "answer"
      <4> HIDE DEF piece
      <4>1. IsFiniteSet({})
        BY FS_EmptySet
      <4>2. Post(event, piece, {}) /\ piece \in 0..Pieces
        BY <3>1, <3>2 DEF piece
      <4> QED BY <4>1, <4>2, <1>3, Posted
    <3>4. CASE ~forked'
      <4>1. PICK c \in UpgradeCmd :
              waiting' = {c} /\ c.event = event /\ c.piece = piece /\ c.ends = "answer"
        BY <3>3, <3>4
      <4>2. event = Xfer => offset < Pieces
        BY <2>3, UpgradeAssumption
      <4> QED BY <2>1, <4>1, <4>2, <1>3
    <3> QED BY <3>4, <3>2, <3>1
  <2> QED BY <2>2, <2>3
<1> QED BY <1>1, <1>2, <1>3

-----------------------------------------------------------------------------
(* The steps                                                               *)

LEMMA SucceedsKeeps ==
  ASSUME UpgradeInv, NEW c \in waiting, Succeeds(c), UNCHANGED <<caller, thread>>
  PROVE  UpgradeInv'
<1> USE DEF UpgradeTypeOK
<1> DEFINE offset == OffsetAfter(c.event, TRUE)
           event == NextEvent(c.event, offset)
<1>0. c \in UpgradeCmd /\ IsFiniteSet(waiting \ {c}) /\ waiting \ {c} \subseteq UpgradeCmd
  BY FS_Subset DEF UpgradeInv
<1>1. c.event \in Request..Complete /\ c.piece \in 0..Pieces
  BY <1>0 DEF UpgradeCmd
<1>2. offset \in Nat /\ event \in UpgradeEvent
  BY <1>1 DEF OffsetAfter, NextEvent, UpgradeInv, UpgradeEvent, Request, Xfer, CompleteXfer,
              Complete, Reinit, Err
<1>3. FsmEventHandler(event, offset, waiting \ {c}) /\ try_count' = 0
  BY DEF Succeeds
<1>4. received' = CASE c.event = Request -> {}
                    [] c.event = Xfer -> received \cup {c.piece}
                    [] OTHER -> received
  BY DEF Succeeds
<1>5. received' \subseteq 0..Pieces
  BY <1>1, <1>4 DEF UpgradeInv
<1> HIDE DEF offset, event
<1>6. /\ fsm_state' \in {StateErr} \cup StateIdle..StateComplete
      /\ read_offset' \in Nat /\ waiting' \subseteq UpgradeCmd /\ IsFiniteSet(waiting')
      /\ forked' \in BOOLEAN /\ (~forked' => ~forked)
  BY <1>0, <1>2, <1>3, HandlerTypes DEF UpgradeInv
<1>7. ASSUME ~forked PROVE forked' \/ OneChain'
  <2>1. waiting \ {c} = {} /\ thread' = "ran" /\ Waits(c)
    BY <1>7 DEF UpgradeInv, OneChain
  <2>2. event # Err /\ InTable(event)
    BY <1>1, <2>1 DEF event, offset, OffsetAfter, NextEvent, Waits, InTable, Request, Xfer, CompleteXfer,
                 Complete, Reinit, Err, StateComplete
  <2>3. CASE c.event = Request
    <3>1. event = Xfer /\ offset = 0 /\ received' = {}
      BY <2>1, <2>3, <1>4 DEF event, offset, OffsetAfter, NextEvent, Waits, Request, Xfer
    <3>2. FsmEventHandler(event, offset, {})
      BY <2>1, <1>3
    <3>3. received' = 0..(offset - 1) /\ offset <= Pieces
      BY <3>1, UpgradeAssumption
    <3>4. event = Xfer /\ UpgradeTypeOK
      BY <3>1 DEF UpgradeInv
    <3> QED BY <3>2, <3>3, <3>4, <2>1, <2>2, <1>2, <1>7, ChainGoesOn
  <2>4. CASE c.event = Xfer
    <3>1. offset = read_offset + 1 /\ offset <= Pieces /\ received' = 0..(offset - 1)
      <4>1. offset = read_offset + 1
        BY <2>4 DEF offset, OffsetAfter
      <4>2. received' = 0..(read_offset - 1) \cup {read_offset}
        BY <1>4, <2>1, <2>4 DEF Waits, Request, Xfer
      <4> QED BY <4>1, <4>2, <2>1, <2>4, UpgradeAssumption DEF UpgradeInv, Waits
    <3>2. event = Xfer \/ (event = CompleteXfer /\ offset = Pieces)
      BY <2>4, <3>1, <1>2, UpgradeAssumption DEF event, NextEvent
    <3> QED BY <3>1, <3>2, <2>1, <2>2, <1>2, <1>3, <1>7, ChainGoesOn
            DEF UpgradeInv, CompleteXfer, Xfer
  <2>5. CASE c.event \notin {Request, Xfer}
    <3>1. received' = 0..(Pieces - 1)
      BY <2>5, <2>1, <1>1, <1>4 DEF Waits, Request, Xfer, Complete
    <3>2. event # Xfer
      BY <2>5, <1>1 DEF event, NextEvent, Request, Xfer, Complete
    <3> QED BY <3>1, <3>2, <2>1, <2>2, <1>2, <1>3, <1>7, ChainGoesOn DEF UpgradeInv
  <2> QED BY <2>3, <2>4, <2>5
<1>8. CallerWaits'
  <2>1. ~forked => thread = "ran" /\ fsm_state \notin {StateErr, StateIdle}
    BY <1>1 DEF UpgradeInv, OneChain, Waits, StateErr, StateIdle, Request, Complete
  <2> QED BY <1>6, <2>1 DEF UpgradeInv, CallerWaits
<1> QED BY <1>3, <1>5, <1>6, <1>7, <1>8 DEF UpgradeInv

LEMMA AnswersKeep ==
  ASSUME UpgradeInv, NEW c \in waiting, Answers(c), UNCHANGED <<caller, thread>>
  PROVE  UpgradeInv'
<1> USE DEF UpgradeTypeOK
<1>0. c \in UpgradeCmd /\ IsFiniteSet(waiting \ {c}) /\ waiting \ {c} \subseteq UpgradeCmd
  BY FS_Subset DEF UpgradeInv
<1>1. c.event \in Request..Complete
  BY <1>0 DEF UpgradeCmd
<1>2. try_count' = 0 /\ UNCHANGED received
  BY DEF Answers
<1>3. PICK event \in {c.event, Err} :
        /\ event = Err \/ event \in {Request, GetProgress}
        /\ FsmEventHandler(event, read_offset, waiting \ {c})
  BY DEF Answers
<1>4. event \in UpgradeEvent /\ read_offset \in Nat
  BY <1>1, <1>3 DEF UpgradeEvent, UpgradeInv
<1>6. /\ fsm_state' \in {StateErr} \cup StateIdle..StateComplete
      /\ read_offset' \in Nat /\ waiting' \subseteq UpgradeCmd /\ IsFiniteSet(waiting')
      /\ forked' \in BOOLEAN /\ (~forked' => ~forked)
  BY <1>0, <1>3, <1>4, HandlerTypes DEF UpgradeInv
<1>7. ASSUME ~forked PROVE forked' \/ OneChain'
  <2>1. waiting \ {c} = {} /\ thread' = "ran" /\ Waits(c)
    BY <1>7 DEF UpgradeInv, OneChain
  <2>2. event # Err => InTable(event)
    BY <1>1, <1>3, <2>1 DEF Waits, InTable, Request, Complete, Reinit, Err
  <2>3. event # Xfer
    BY <1>3 DEF Request, Xfer, GetProgress, Err
  <2>4. event \notin {Request, Xfer, Err} => received' = 0..(Pieces - 1)
    BY <1>2, <1>3, <2>1 DEF Waits, Request, Xfer, GetProgress, Err
  <2> QED
    BY <1>7, <1>4, <1>3, <2>1, <2>2, <2>3, <2>4, ChainGoesOn DEF UpgradeInv
<1>8. CallerWaits'
  <2>1. ~forked => thread = "ran" /\ fsm_state \notin {StateErr, StateIdle}
    BY <1>1 DEF UpgradeInv, OneChain, Waits, StateErr, StateIdle, Request, Complete
  <2> QED BY <1>6, <2>1 DEF UpgradeInv, CallerWaits
<1> QED BY <1>2, <1>6, <1>7, <1>8 DEF UpgradeInv

LEMMA FailsKeeps ==
  ASSUME UpgradeInv, NEW c \in waiting, Fails(c), UNCHANGED <<caller, thread>>
  PROVE  UpgradeInv'
<1> USE DEF UpgradeTypeOK
<1> DEFINE again == IF c.ends = "twice" THEN {[c EXCEPT !.ends = "timeout"]} ELSE {}
           rest == (waiting \ {c}) \cup again
           offset == OffsetAfter(c.event, FALSE)
<1>0. c \in UpgradeCmd /\ again \subseteq UpgradeCmd
  BY DEF UpgradeInv, UpgradeCmd
<1>1. c.event \in Request..Complete /\ offset = read_offset
  BY <1>0 DEF UpgradeCmd, OffsetAfter
<1>2. IsFiniteSet(rest) /\ rest \subseteq UpgradeCmd
  <2>1. IsFiniteSet(again)
    BY FS_EmptySet, FS_Singleton
  <2>2. IsFiniteSet(waiting \ {c})
    BY FS_Subset DEF UpgradeInv
  <2> HIDE DEF again
  <2> QED BY <2>1, <2>2, <1>0, FS_Union DEF UpgradeInv
<1>3. /\ try_count' \in Nat /\ UNCHANGED received
      /\ \E event \in {c.event, GivesUp(c.event)} : FsmEventHandler(event, read_offset, rest)
  <2>1. UNCHANGED received
    BY DEF Fails
  <2>2. \/ try_count' = try_count + 1 /\ FsmEventHandler(c.event, offset, rest)
        \/ try_count' = 0 /\ FsmEventHandler(GivesUp(c.event), offset, rest)
    BY DEF Fails
  <2>3. try_count' \in Nat
    <3>1. try_count \in Nat
      BY DEF UpgradeInv
    <3>2. try_count' = try_count + 1 \/ try_count' = 0
      BY <2>2
    <3> QED BY <3>1, <3>2
  <2>4. FsmEventHandler(c.event, read_offset, rest) \/ FsmEventHandler(GivesUp(c.event), read_offset, rest)
    BY <2>2, <1>1
  <2> HIDE DEF rest
  <2> QED BY <2>1, <2>3, <2>4
<1>4. PICK event \in {c.event, GivesUp(c.event)} : FsmEventHandler(event, read_offset, rest)
  BY <1>3
<1>5. event \in UpgradeEvent /\ read_offset \in Nat
  BY <1>1, <1>4 DEF UpgradeEvent, UpgradeInv, GivesUp
<1> HIDE DEF rest
<1>6. /\ fsm_state' \in {StateErr} \cup StateIdle..StateComplete
      /\ read_offset' \in Nat /\ waiting' \subseteq UpgradeCmd /\ IsFiniteSet(waiting')
      /\ forked' \in BOOLEAN /\ (~forked' => ~forked)
  BY <1>2, <1>4, <1>5, HandlerTypes DEF UpgradeInv
<1>7. ASSUME ~forked PROVE forked' \/ OneChain'
  <2>1. rest = {} /\ thread' = "ran" /\ Waits(c)
    BY <1>7 DEF UpgradeInv, OneChain, Waits, rest
  <2>2. event # Err => InTable(event)
    BY <1>1, <1>4, <2>1 DEF Waits, InTable, GivesUp, Request, Complete, Reinit, Err, StateComplete
  <2>3. event = Xfer => received' = 0..(read_offset - 1) /\ read_offset <= Pieces
    BY <1>3, <1>4, <2>1, UpgradeAssumption DEF UpgradeInv, Waits, GivesUp, Xfer, Reinit, Err
  <2>4. event \notin {Request, Xfer, Err} => received' = 0..(Pieces - 1)
    BY <1>1, <1>3, <1>4, <2>1 DEF Waits, GivesUp, Request, Xfer, Complete, Reinit, Err
  <2> QED
    BY <1>7, <1>5, <1>4, <2>1, <2>2, <2>3, <2>4, ChainGoesOn DEF UpgradeInv
<1>8. CallerWaits'
  <2>1. ~forked => thread = "ran" /\ fsm_state \notin {StateErr, StateIdle}
    BY <1>1 DEF UpgradeInv, OneChain, Waits, StateErr, StateIdle, Request, Complete
  <2> QED BY <1>6, <2>1 DEF UpgradeInv, CallerWaits
<1> QED BY <1>3, <1>6, <1>7, <1>8 DEF UpgradeInv

LEMMA UpgradeThreadKeeps ==
  ASSUME UpgradeInv, UpgradeThread
  PROVE  UpgradeInv'
<1> USE DEF UpgradeTypeOK
<1>1. /\ thread = "ready" /\ thread' = "ran"
      /\ FsmEventHandler(Request, read_offset, waiting)
      /\ UNCHANGED <<caller, try_count, received>>
  BY DEF UpgradeThread
<1>2. Request \in UpgradeEvent /\ read_offset \in Nat
  BY DEF UpgradeInv, UpgradeEvent, Request, Complete
<1>3. /\ fsm_state' \in {StateErr} \cup StateIdle..StateComplete
      /\ read_offset' \in Nat /\ waiting' \subseteq UpgradeCmd /\ IsFiniteSet(waiting')
      /\ forked' \in BOOLEAN /\ (~forked' => ~forked)
  BY <1>1, <1>2, HandlerTypes DEF UpgradeInv
<1>4. ASSUME ~forked PROVE forked' \/ OneChain'
  <2>1. waiting = {} /\ fsm_state = StateIdle
    BY <1>1, <1>4 DEF UpgradeInv, OneChain
  <2>2. InTable(Request) /\ Request \notin {Xfer, Err}
    BY <2>1 DEF InTable, Request, Xfer, Err, Reinit, StateIdle
  <2> QED BY <1>1, <1>2, <1>4, <2>1, <2>2, ChainGoesOn DEF UpgradeInv
<1>5. CallerWaits'
  <2>1. ~forked => fsm_state = StateIdle
    BY <1>1 DEF UpgradeInv, OneChain
  <2>2. caller \notin {"start", "rejected", "open"}
    BY <1>1 DEF UpgradeInv, CallerWaits
  <2>3. forked \/ caller \notin {"error", "success"}
    BY <1>1, <2>1 DEF UpgradeInv, CallerWaits, StateIdle, StateErr
  <2> QED BY <1>1, <1>3, <2>2, <2>3 DEF UpgradeInv, CallerWaits
<1> QED BY <1>1, <1>3, <1>4, <1>5 DEF UpgradeInv

LEMMA CallerKeeps ==
  ASSUME UpgradeInv, OpenFirmware \/ StartUpgradeLivoxLidar \/ PollOutcome \/ Join
  PROVE  UpgradeInv'
<1> USE DEF UpgradeTypeOK, UpgradeInv, CallerGoes, fsmVars
<1>0. UNCHANGED <<try_count, fsm_state, read_offset, waiting, received, forked>>
  BY DEF OpenFirmware, StartUpgradeLivoxLidar, PollOutcome, Join
<1>1. CASE OpenFirmware
  BY <1>0, <1>1 DEF OpenFirmware, CallerWaits, OneChain, Waits
<1>2. CASE StartUpgradeLivoxLidar
  BY <1>0, <1>2 DEF StartUpgradeLivoxLidar, CallerWaits, OneChain, Waits
<1>3. CASE PollOutcome
  <2>1. CASE fsm_state = StateErr /\ CallerGoes("polling", "error")
    BY <1>0, <1>3, <2>1 DEF PollOutcome, CallerWaits, OneChain, Waits
  <2>2. CASE fsm_state = StateIdle /\ CallerGoes("polling", IF thread = "ready" THEN "early" ELSE "success")
    BY <1>0, <1>3, <2>2 DEF PollOutcome, CallerWaits, OneChain, Waits
  <2> QED BY <1>3, <2>1, <2>2 DEF PollOutcome
<1>4. CASE Join
  BY <1>0, <1>4 DEF Join, CallerWaits, OneChain, Waits
<1> QED BY <1>1, <1>2, <1>3, <1>4

\* The types of the upgrade, and its one chain.
THEOREM UpgradeInvariance == UpgradeSpec => []UpgradeInv
<1>1. UpgradeInit => UpgradeInv
  <2> SUFFICES ASSUME UpgradeInit PROVE UpgradeInv
    OBVIOUS
  <2> USE DEF UpgradeInit, StateIdle, StateComplete, StateErr
  <2>1. UpgradeTypeOK
    <3>1. 0 \in 0..5 /\ {} \subseteq UpgradeCmd /\ {} \subseteq 0..Pieces
      OBVIOUS
    <3>2. fsm_state \in {StateErr} \cup StateIdle..StateComplete
          /\ read_offset \in Nat /\ try_count \in Nat
      BY <3>1
    <3>3. forked \in BOOLEAN /\ waiting \subseteq UpgradeCmd /\ received \subseteq 0..Pieces
      BY <3>1
    <3> QED BY <3>2, <3>3 DEF UpgradeTypeOK
  <2>2. IsFiniteSet(waiting)
    BY FS_EmptySet
  <2>3. OneChain /\ CallerWaits
    BY DEF OneChain, CallerWaits
  <2> QED BY <2>1, <2>2, <2>3 DEF UpgradeInv
<1>2. UpgradeInv /\ [UpgradeNext]_upgradeVars => UpgradeInv'
  <2> SUFFICES ASSUME UpgradeInv, [UpgradeNext]_upgradeVars PROVE UpgradeInv'
    OBVIOUS
  <2>1. CASE OpenFirmware \/ StartUpgradeLivoxLidar \/ PollOutcome \/ Join
    BY <2>1, CallerKeeps
  <2>2. CASE UpgradeThread
    BY <2>2, UpgradeThreadKeeps
  <2>3. CASE UpgradeCallback
    BY <2>3, SucceedsKeeps, AnswersKeep, FailsKeeps DEF UpgradeCallback
  <2>4. CASE UNCHANGED upgradeVars
    BY <2>4 DEF upgradeVars, fsmVars, UpgradeInv, UpgradeTypeOK, OneChain, Waits, CallerWaits
  <2> QED BY <2>1, <2>2, <2>3, <2>4 DEF UpgradeNext
<1> QED BY <1>1, <1>2, PTL DEF UpgradeSpec

\* The state machine stays in its states, and no piece is behind the last one.
THEOREM UpgradeTypes == UpgradeSpec => []UpgradeTypeOK
<1>1. UpgradeInv => UpgradeTypeOK
  BY DEF UpgradeInv
<1> QED BY <1>1, UpgradeInvariance, PTL

\* For any firmware and any limits: after the destructor found an
\* outcome no callback follows, and success means that every piece was
\* acknowledged (as long as every command could be sent).
THEOREM OutcomeStaysFinal == UpgradeSpec => []OutcomeIsFinal
<1>1. UpgradeInv => OutcomeIsFinal
  BY DEF UpgradeInv, OutcomeIsFinal, OneChain, CallerWaits
<1> QED BY <1>1, UpgradeInvariance, PTL

-----------------------------------------------------------------------------
(* The start and the stop of the SDK: who holds which socket               *)

\* What a thread has yet to look after.
Job ==
  [use : {"search", "search broadcast"}]
  \cup [use : DataUses \cup CommandUses \cup {"broadcast"}, cfg : Entry]

StartTypes ==
  /\ StartTypeOK
  /\ toOpen \in [{"app", "found"} -> Seq(Job)]

\* The ports of a Mid-360 are those it has.
Fixed(cfg) == cfg.type = "MID360" => cfg.lidarPort = Mid360Port

ConfigInv ==
  /\ \A ip \in DOMAIN byIp : Fixed(byIp[ip])
  /\ \A t \in DOMAIN byType : Fixed(byType[t])

\* What the application's thread has left to do, where it is.
PhaseInv ==
  /\ phase # "opening" => toOpen["app"] = <<>>
  /\ phase \in {"opening", "storing"} => ~sdkOn
  /\ phase = "joining" => sdkOn

SearchInv ==
  /\ ~stopped /\ phase # "joining" => stop = FALSE
  /\ ~stopped /\ search = "ended" => phase = "joining"

Off == ~sdkOn /\ phase = "idle"

\* Somebody answers for every open socket.
OwnerInv ==
  /\ open \subseteq kept \cup {detecting.broadcast, detecting.host} \cup strays
  /\ phase = "joining" => kept \subseteq strays
  /\ Off => {detecting.broadcast, detecting.host} \subseteq strays \cup {0}
  /\ Off /\ ~failed =>
       /\ kept \subseteq strays /\ DOMAIN channel = {}
       /\ detecting.broadcast = 0 /\ detecting.host = 0
       /\ ~broken => toOpen["found"] = <<>>

\* The search's sockets are the first ones of a start, and those they replace
\* are known to be strays.
FirstJobs ==
  /\ \A i \in DOMAIN toOpen["found"] : toOpen["found"][i].use \notin {"search", "search broadcast"}
  /\ \A i \in DOMAIN toOpen["app"] :
       /\ toOpen["app"][i].use = "search broadcast" =>
            i = 1 /\ detecting.broadcast \in strays \cup {0}
       /\ toOpen["app"][i].use = "search" =>
            /\ i = 1 \/ (i = 2 /\ toOpen["app"][1].use = "search broadcast")
            /\ detecting.host \in strays \cup {0}

\* The channels are open, and if no start failed, listened to.
ChannelInv ==
  phase # "joining" =>
    /\ \A k \in DOMAIN channel : channel[k] \in open /\ (failed \/ channel[k] \in heard)
    /\ \A k \in DOMAIN command : command[k] \in open

Ready(w) == KeyOf(w) \in DOMAIN channel /\ (w.use \in CommandUses => KeyOf(w) \in DOMAIN command)

IsTodo(w) == \E who \in {"app", "found"} : \E n \in DOMAIN toOpen[who] : toOpen[who][n] = w

\* Every port asked for is ready or will be.
CoverInv ==
  (sdkOn \/ phase \in {"opening", "storing"}) /\ phase # "joining" /\ (~gap \/ toOpen["found"] # <<>>) =>
    \A i \in DOMAIN customs, use \in DataUses \cup CommandUses :
      LET w == [use |-> use, cfg |-> customs[i]]
      IN IsNeeded(w) => Ready(w) \/ IsTodo(w)

StartInv ==
  /\ StartTypes /\ ConfigInv /\ PhaseInv /\ SearchInv
  /\ OwnerInv /\ FirstJobs /\ ChannelInv /\ CoverInv
-----------------------------------------------------------------------------
LEMMA CheckedType ==
  ASSUME NEW cfgs \in Seq(Entry)
  PROVE  /\ Checked(cfgs) \in Seq(Entry) /\ Len(Checked(cfgs)) = Len(cfgs)
         /\ \A i \in DOMAIN cfgs : /\ Checked(cfgs)[i] \in Entry /\ Fixed(Checked(cfgs)[i])
                                   /\ Checked(cfgs)[i].type = cfgs[i].type
<1>1. Mid360Port \in [PortNames -> Nat]
  BY DEF Mid360Port, PortNames
<1>2. ASSUME NEW e \in Entry
      PROVE  [e EXCEPT !.lidarPort = Mid360Port] \in Entry
  BY <1>1 DEF Entry
<1>3. \A i \in DOMAIN cfgs : cfgs[i] \in Entry
  OBVIOUS
<1>4. \A i \in DOMAIN cfgs : Checked(cfgs)[i] \in Entry
  BY <1>2, <1>3 DEF Checked
<1>5. \A i \in DOMAIN cfgs : Fixed(Checked(cfgs)[i]) /\ Checked(cfgs)[i].type = cfgs[i].type
  BY <1>3 DEF Checked, Fixed, Entry
<1>6. Checked(cfgs) \in Seq(Entry) /\ Len(Checked(cfgs)) = Len(cfgs)
  <2>1. DOMAIN Checked(cfgs) = 1..Len(cfgs) /\ Len(cfgs) \in Nat
    BY DEF Checked
  <2>2. Checked(cfgs) = [i \in 1..Len(cfgs) |-> Checked(cfgs)[i]]
    BY <2>1 DEF Checked
  <2>3. \A i \in 1..Len(cfgs) : Checked(cfgs)[i] \in Entry
    BY <1>4, <2>1
  <2>4. [i \in 1..Len(cfgs) |-> Checked(cfgs)[i]] \in Seq(Entry)
    BY <2>1, <2>3
  <2> QED BY <2>1, <2>2, <2>4
<1> QED BY <1>4, <1>5, <1>6

\* Every lidar of a list gets every socket, and none is for the search.
LEMMA WantedCovers ==
  ASSUME NEW cfgs \in Seq(Entry)
  PROVE  /\ Wanted(cfgs) \in Seq(Job)
         /\ \A n \in DOMAIN Wanted(cfgs) : Wanted(cfgs)[n].use \notin {"search", "search broadcast"}
         /\ \A i \in DOMAIN cfgs, use \in DataUses \cup CommandUses :
              \E n \in DOMAIN Wanted(cfgs) : Wanted(cfgs)[n] = [use |-> use, cfg |-> cfgs[i]]
<1> DEFINE N == 7 * Len(cfgs)
           W(n) == [use |-> Uses[((n - 1) % 7) + 1], cfg |-> cfgs[(n + 6) \div 7]]
<1>1. N \in Nat /\ Wanted(cfgs) = [n \in 1..N |-> W(n)]
  BY DEF Wanted
<1>2. \A n \in 1..N : ((n - 1) % 7) + 1 \in 1..7 /\ (n + 6) \div 7 \in 1..Len(cfgs)
  BY <1>1
<1>3. \A j \in 1..7 : Uses[j] \in DataUses \cup CommandUses \cup {"broadcast"}
  BY DEF Uses, DataUses, CommandUses
<1>4. ASSUME NEW n \in 1..N
      PROVE  W(n) \in Job
  <2>1. cfgs[(n + 6) \div 7] \in Entry
    BY <1>2
  <2>2. Uses[((n - 1) % 7) + 1] \in DataUses \cup CommandUses \cup {"broadcast"}
    BY <1>2, <1>3
  <2> QED BY <2>1, <2>2 DEF Job
<1>5. Wanted(cfgs) \in Seq(Job)
  BY <1>1, <1>4
<1>6. \A n \in 1..N : W(n).use \notin {"search", "search broadcast"}
  BY <1>2, <1>3 DEF DataUses, CommandUses
<1>7. ASSUME NEW i \in DOMAIN cfgs, NEW use \in DataUses \cup CommandUses
      PROVE  \E n \in 1..N : W(n) = [use |-> use, cfg |-> cfgs[i]]
  <2>1. PICK j \in 1..7 : Uses[j] = use
    BY DEF Uses, DataUses, CommandUses
  <2>2. i \in 1..Len(cfgs) /\ Len(cfgs) \in Nat
    OBVIOUS
  <2>0. 7 * (i - 1) + j \in 1..N
    BY <2>2
  <2>9. PICK n \in 1..N : n = 7 * (i - 1) + j
    BY <2>0
  <2>3. n - 1 = 7 * (i - 1) + (j - 1) /\ n + 6 = 7 * i + (j - 1)
    BY <2>2, <2>9
  <2>4. \A a \in Nat, b \in 0..6 : (7 * a + b) % 7 = b /\ (7 * a + b) \div 7 = a
    OBVIOUS
  <2>5. i - 1 \in Nat /\ i \in Nat /\ j - 1 \in 0..6 /\ j \in Int
    BY <2>2
  <2>6. (n - 1) % 7 = j - 1 /\ (n + 6) \div 7 = i
    BY <2>3, <2>4, <2>5
  <2>7. ((n - 1) % 7) + 1 = j
    BY <2>5, <2>6
  <2>8. W(n) = [use |-> use, cfg |-> cfgs[i]]
    BY <2>1, <2>6, <2>7
  <2> HIDE DEF W, N
  <2> QED BY <2>8, <2>9
<1>8. DOMAIN Wanted(cfgs) = 1..N /\ \A n \in 1..N : Wanted(cfgs)[n] = W(n)
  BY <1>1
<1> HIDE DEF W, N
<1> QED BY <1>5, <1>6, <1>7, <1>8

\* The map of types keeps the last entry of each.
LEMMA LastOfType ==
  ASSUME NEW s \in Seq(Entry), NEW t, \E i \in DOMAIN s : s[i].type = t
  PROVE  \E i \in DOMAIN s : s[i].type = t /\ \A j \in DOMAIN s : j > i => s[j].type # t
<1> DEFINE Left == {Len(s) - i : i \in {k \in DOMAIN s : s[k].type = t}}
<1>1. Len(s) \in Nat /\ DOMAIN s = 1..Len(s)
  OBVIOUS
<1>2. Left \subseteq Nat /\ Left # {}
  BY <1>1
<1>3. PICK m \in Left : \A n \in Left : ~(<<n, m>> \in OpToRel(<, Nat))
  BY <1>2, NatLessThanWellFounded, WFMin
<1>4. PICK i \in DOMAIN s : s[i].type = t /\ m = Len(s) - i
  OBVIOUS
<1>5. ASSUME NEW j \in DOMAIN s, j > i, s[j].type = t
      PROVE  FALSE
  <2>1. Len(s) - j \in Left /\ Len(s) - j < m
    BY <1>1, <1>4, <1>5
  <2> QED BY <1>2, <1>3, <2>1 DEF OpToRel
<1> QED BY <1>4, <1>5

LEMMA TailType ==
  ASSUME NEW s \in Seq(Job), s # <<>>
  PROVE  /\ Tail(s) \in Seq(Job) /\ Head(s) \in Job /\ Head(s) = s[1] /\ 1 \in DOMAIN s
         /\ DOMAIN Tail(s) = 1..(Len(s) - 1) /\ Len(s) \in Nat \ {0}
         /\ \A i \in DOMAIN Tail(s) : i + 1 \in DOMAIN s /\ Tail(s)[i] = s[i + 1] /\ i + 1 # 1 /\ (i + 1 = 2 => i = 1)
         /\ \A n \in DOMAIN s : s[n] = Head(s) \/ \E i \in DOMAIN Tail(s) : Tail(s)[i] = s[n]
<1>1. Tail(s) \in Seq(Job) /\ Head(s) \in Job /\ Head(s) = s[1] /\ 1 \in DOMAIN s
      /\ DOMAIN Tail(s) = 1..(Len(s) - 1) /\ Len(s) \in Nat \ {0}
      /\ \A i \in DOMAIN Tail(s) : i + 1 \in DOMAIN s /\ Tail(s)[i] = s[i + 1] /\ i + 1 # 1 /\ (i + 1 = 2 => i = 1)
  OBVIOUS
<1>2. ASSUME NEW n \in DOMAIN s, s[n] # Head(s)
      PROVE  \E i \in DOMAIN Tail(s) : Tail(s)[i] = s[n]
  <2>1. n \in 1..Len(s) /\ n # 1
    BY <1>1, <1>2
  <2>2. n - 1 \in DOMAIN Tail(s) /\ Tail(s)[n - 1] = s[n]
    BY <1>1, <2>1
  <2> QED BY <2>2
<1> QED BY <1>1, <1>2
-----------------------------------------------------------------------------
(* Types *)

Who == {"app", "found"}

LEMMA InitInv == StartInit => StartInv
<1> SUFFICES ASSUME StartInit PROVE StartInv
  OBVIOUS
<1>1. sdkOn = FALSE /\ phase = "idle" /\ search = "none" /\ stop = FALSE /\ broken = FALSE
      /\ failed = FALSE /\ stopped = FALSE /\ gap = FALSE
  BY DEF StartInit
<1>2. customs = <<>> /\ DOMAIN byIp = {} /\ DOMAIN byType = {} /\ DOMAIN channel = {} /\ DOMAIN command = {}
  <2>1. customs = <<>> /\ byIp = <<>> /\ byType = <<>> /\ channel = <<>> /\ command = <<>>
    BY DEF StartInit
  <2>2. DOMAIN <<>> = {}
    OBVIOUS
  <2> QED BY <2>1, <2>2
<1>3. detecting.broadcast = 0 /\ detecting.host = 0 /\ kept = {} /\ opened = 0 /\ open = {} /\ heard = {}
      /\ strays = {} /\ begun = 0 /\ refusals = 0
  BY DEF StartInit
<1>4. toOpen = [who \in Who |-> <<>>] /\ toOpen["app"] = <<>> /\ toOpen["found"] = <<>>
  BY DEF StartInit, Who
<1>5. toOpen \in [{"app", "found"} -> Seq(Job)]
  <2>1. <<>> \in Seq(Job)
    OBVIOUS
  <2> QED BY <1>4, <2>1 DEF Who
<1>6. framework \in [master : BOOLEAN, logs : BOOLEAN] /\ cleaner = FALSE
  BY DEF StartInit
<1>7. begun \in 0..MaxStarts /\ refusals \in 0..MaxRefusals
  BY <1>3, StartAssumption
<1>8. customs \in Seq(Entry)
  BY <1>2
<1>9. DOMAIN toOpen = {"app", "found"}
  BY <1>5
<1>10. StartTypes
  <2>1. {sdkOn, stop, broken, failed, stopped, gap, cleaner} \subseteq BOOLEAN /\ framework \in [master : BOOLEAN, logs : BOOLEAN]
    BY <1>1, <1>6
  <2>2. StartTypeOK
    BY <1>1, <1>2, <1>3, <1>7, <1>8, <1>9, <2>1 DEF StartTypeOK
  <2> QED BY <1>5, <2>2 DEF StartTypes
<1>11. ConfigInv /\ PhaseInv /\ SearchInv
  BY <1>1, <1>2, <1>4 DEF ConfigInv, PhaseInv, SearchInv
<1>13. FirstJobs
  <2>1. DOMAIN toOpen["app"] = {} /\ DOMAIN toOpen["found"] = {}
    BY <1>4
  <2> QED BY <2>1 DEF FirstJobs
<1>12. OwnerInv /\ ChannelInv /\ CoverInv
  BY <1>1, <1>2, <1>3, <1>4 DEF OwnerInv, ChannelInv, CoverInv, Off
<1> QED BY <1>10, <1>11, <1>12, <1>13 DEF StartInv

\* The lists that are gone through.
LEMMA PopType ==
  ASSUME StartTypes, NEW who \in Who, toOpen[who] # <<>>
  PROVE  /\ Head(toOpen[who]) \in Job
         /\ [toOpen EXCEPT ![who] = Tail(@)] \in [Who -> Seq(Job)]
         /\ [toOpen EXCEPT ![who] = <<>>] \in [Who -> Seq(Job)]
<1>1. toOpen[who] \in Seq(Job) /\ toOpen \in [Who -> Seq(Job)]
  BY DEF StartTypes, Who
<1>2. Tail(toOpen[who]) \in Seq(Job) /\ Head(toOpen[who]) \in Job
  BY <1>1, TailType
<1> QED BY <1>1, <1>2

\* The maps after a start.
LEMMA MapTypes ==
  ASSUME StartTypes, NEW f \in StartFiles
  PROVE  /\ \A ip \in DOMAIN AddressesWith(f.customs) :
              AddressesWith(f.customs)[ip] \in Entry
              /\ ((\A x \in DOMAIN byIp : Fixed(byIp[x])) => Fixed(AddressesWith(f.customs)[ip]))
         /\ \A t \in DOMAIN TypesWith(f.lidars) :
              TypesWith(f.lidars)[t] \in Entry /\ TypesWith(f.lidars)[t].type = t
              /\ ((\A x \in DOMAIN byType : Fixed(byType[x])) => Fixed(TypesWith(f.lidars)[t]))
<1>1. PICK ls, cs \in Seq(Entry) : ls = f.lidars /\ cs = f.customs
  BY StartAssumption
<1>2. /\ \A ip \in DOMAIN byIp : byIp[ip] \in Entry
      /\ \A t \in DOMAIN byType : byType[t] \in Entry /\ byType[t].type = t
  BY DEF StartTypes, StartTypeOK
<1>3. ASSUME NEW ip \in DOMAIN AddressesWith(cs)
      PROVE  AddressesWith(cs)[ip] \in Entry
             /\ ((\A x \in DOMAIN byIp : Fixed(byIp[x])) => Fixed(AddressesWith(cs)[ip]))
  <2>1. CASE ip \in {cs[i].lidar : i \in DOMAIN cs}
    <3>1. PICK i \in DOMAIN cs : cs[i].lidar = ip /\ AddressesWith(cs)[ip] = Checked(cs)[i]
      BY <2>1 DEF AddressesWith
    <3> QED BY <3>1, CheckedType
  <2>2. CASE ip \notin {cs[i].lidar : i \in DOMAIN cs}
    <3>1. ip \in DOMAIN byIp /\ AddressesWith(cs)[ip] = byIp[ip]
      BY <2>2 DEF AddressesWith
    <3> QED BY <3>1, <1>2
  <2> QED BY <2>1, <2>2
<1>4. ASSUME NEW t \in DOMAIN TypesWith(ls)
      PROVE  TypesWith(ls)[t] \in Entry /\ TypesWith(ls)[t].type = t
             /\ ((\A x \in DOMAIN byType : Fixed(byType[x])) => Fixed(TypesWith(ls)[t]))
  <2>1. CASE t \in {ls[i].type : i \in DOMAIN ls}
    <3>1. \E i \in DOMAIN ls : ls[i].type = t /\ \A j \in DOMAIN ls : j > i => ls[j].type # t
      BY <2>1, LastOfType
    <3>2. PICK i \in DOMAIN ls : ls[i].type = t /\ TypesWith(ls)[t] = Checked(ls)[i]
      BY <2>1, <3>1 DEF TypesWith
    <3> QED BY <3>2, CheckedType
  <2>2. CASE t \notin {ls[i].type : i \in DOMAIN ls}
    <3>1. t \in DOMAIN byType /\ TypesWith(ls)[t] = byType[t]
      BY <2>2 DEF TypesWith
    <3> QED BY <3>1, <1>2
  <2> QED BY <2>1, <2>2
<1> QED BY <1>1, <1>3, <1>4

\* What a start does, piece by piece.
LEMMA StartSteps ==
  ASSUME NEW f, SdkStart(f)
  PROVE  /\ customs' = Checked(f.customs) /\ hostIp' = HostOf(IF f.lidars # <<>> THEN f.lidars[1] ELSE f.customs[1])
         /\ ~broken /\ ~sdkOn /\ phase = "idle" /\ begun < MaxStarts /\ begun' = begun + 1
         /\ framework' \in [master : BOOLEAN, logs : BOOLEAN] /\ cleaner' \in BOOLEAN
         /\ broken' \in BOOLEAN /\ (toOpen["found"] # <<>> => broken') /\ gap' = FALSE
         /\ (byIp' = AddressesWith(f.customs) /\ byType' = TypesWith(f.lidars)) \/ (byIp' = byIp /\ byType' = byType)
         /\ \/ phase' = "idle" /\ failed' = TRUE /\ toOpen' = toOpen
               /\ strays' = strays \cup ({detecting.broadcast, detecting.host} \ {0})
            \/ phase' = "opening" /\ failed' = failed /\ strays' = strays
               /\ toOpen' = [toOpen EXCEPT !["app"] = SearchJobs \o Wanted(Checked(f.customs))]
         /\ heard' = heard \/ heard' = {}
         /\ refusals' = refusals \/ (refusals < MaxRefusals /\ refusals' = refusals + 1)
         /\ UNCHANGED <<sdkOn, detecting, channel, command, kept, opened, open, search, stop, stopped>>
<1>1. framework' \in [master : BOOLEAN, logs : BOOLEAN]
  <2>1. framework' = [master |-> f.master # "false", logs |-> f.log \in {"on", "no path"}]
    BY DEF SdkStart
  <2>2. (f.master # "false") \in BOOLEAN /\ (f.log \in {"on", "no path"}) \in BOOLEAN
    OBVIOUS
  <2> QED BY <2>1, <2>2, Zenon
<1>7. cleaner' \in BOOLEAN /\ broken' \in BOOLEAN /\ (toOpen["found"] # <<>> => broken')
  <2>1. /\ cleaner' = (cleaner \/ f.log = "on")
        /\ broken' = (toOpen["found"] # <<>> \/ (cleaner /\ f.log = "on"))
    BY DEF SdkStart
  <2>2. (cleaner \/ f.log = "on") \in BOOLEAN
        /\ (toOpen["found"] # <<>> \/ (cleaner /\ f.log = "on")) \in BOOLEAN
    BY Zenon
  <2> QED BY <2>1, <2>2, Zenon
<1>2. (byIp' = AddressesWith(f.customs) /\ byType' = TypesWith(f.lidars)) \/ (byIp' = byIp /\ byType' = byType)
  BY DEF SdkStart
<1>3. \/ phase' = "idle" /\ failed' = TRUE /\ toOpen' = toOpen
         /\ strays' = strays \cup ({detecting.broadcast, detecting.host} \ {0})
      \/ phase' = "opening" /\ failed' = failed /\ strays' = strays
         /\ toOpen' = [toOpen EXCEPT !["app"] = SearchJobs \o Wanted(Checked(f.customs))]
  BY DEF SdkStart, StartFails
<1>4. (heard' = heard \/ heard' = {}) /\ (refusals' = refusals \/ (refusals < MaxRefusals /\ refusals' = refusals + 1))
  BY DEF SdkStart, StartFails, Refusal
<1>5. UNCHANGED <<sdkOn, detecting, channel, command, kept, opened, open, search, stop, stopped>>
  BY DEF SdkStart
<1>6. customs' = Checked(f.customs) /\ hostIp' = HostOf(IF f.lidars # <<>> THEN f.lidars[1] ELSE f.customs[1])
      /\ ~broken /\ ~sdkOn /\ phase = "idle" /\ begun < MaxStarts /\ begun' = begun + 1
      /\ gap' = FALSE
  BY DEF SdkStart
<1> QED BY <1>1, <1>2, <1>3, <1>4, <1>5, <1>6, <1>7

LEMMA ConcatType ==
  ASSUME NEW s \in Seq(Job), NEW t \in Seq(Job)
  PROVE  /\ s \o t \in Seq(Job) /\ DOMAIN (s \o t) = 1..(Len(s) + Len(t))
         /\ DOMAIN s = 1..Len(s) /\ DOMAIN t = 1..Len(t) /\ Len(s) \in Nat /\ Len(t) \in Nat
         /\ \A i \in DOMAIN (s \o t) : (s \o t)[i] = IF i <= Len(s) THEN s[i] ELSE t[i - Len(s)]
OBVIOUS

\* The jobs of a start: the search's are its first two.
LEMMA StartJobs ==
  ASSUME NEW cfgs \in Seq(Entry)
  PROVE  LET jobs == SearchJobs \o Wanted(cfgs)
         IN /\ jobs \in Seq(Job)
            /\ \A i \in DOMAIN jobs :
                 /\ jobs[i].use = "search broadcast" => i = 1
                 /\ jobs[i].use = "search" => i = 2 /\ jobs[1].use = "search broadcast"
            /\ \A n \in DOMAIN Wanted(cfgs) : \E i \in DOMAIN jobs : jobs[i] = Wanted(cfgs)[n]
<1>0. PICK W, jobs : W = Wanted(cfgs) /\ jobs = SearchJobs \o W
  OBVIOUS
<1>1. W \in Seq(Job) /\ \A n \in DOMAIN W : W[n].use \notin {"search", "search broadcast"}
  BY <1>0, WantedCovers
<1>2. SearchJobs \in Seq(Job) /\ Len(SearchJobs) = 2
      /\ SearchJobs[1].use = "search broadcast" /\ SearchJobs[2].use = "search"
  <2>1. PICK a, b \in Job : a = [use |-> "search broadcast"] /\ b = [use |-> "search"]
    BY DEF Job
  <2>2. SearchJobs = <<a, b>>
    BY <2>1 DEF SearchJobs
  <2>3. a.use = "search broadcast" /\ b.use = "search"
    BY <2>1
  <2>4. SearchJobs[1] = a /\ SearchJobs[2] = b /\ Len(SearchJobs) = 2
    BY <2>2
  <2>5. SearchJobs \in Seq(Job)
    BY <2>2
  <2> QED BY <2>3, <2>4, <2>5
<1>3. jobs \in Seq(Job) /\ DOMAIN jobs = 1..(2 + Len(W)) /\ Len(W) \in Nat /\ DOMAIN W = 1..Len(W)
      /\ \A i \in DOMAIN jobs : jobs[i] = IF i <= 2 THEN SearchJobs[i] ELSE W[i - 2]
  <2>0. PICK two \in Seq(Job) : two = SearchJobs
    BY <1>2
  <2>1. /\ two \o W \in Seq(Job) /\ DOMAIN (two \o W) = 1..(Len(two) + Len(W))
        /\ Len(W) \in Nat /\ DOMAIN W = 1..Len(W)
        /\ \A i \in DOMAIN (two \o W) :
             (two \o W)[i] = IF i <= Len(two) THEN two[i] ELSE W[i - Len(two)]
    BY <1>1, ConcatType
  <2> QED BY <1>0, <1>2, <2>0, <2>1
<1>4. ASSUME NEW i \in DOMAIN jobs
      PROVE  /\ jobs[i].use = "search broadcast" => i = 1
             /\ jobs[i].use = "search" => i = 2 /\ jobs[1].use = "search broadcast"
  <2>1. CASE i > 2
    <3>1. i - 2 \in DOMAIN W /\ jobs[i] = W[i - 2]
      BY <1>3, <2>1
    <3> QED BY <1>1, <3>1
  <2>2. CASE i <= 2
    <3>1. i \in {1, 2} /\ jobs[i] = SearchJobs[i] /\ jobs[1] = SearchJobs[1]
      BY <1>3, <2>2
    <3> QED BY <1>2, <3>1
  <2>3. i \in 1..(2 + Len(W))
    BY <1>3
  <2>4. i > 2 \/ i <= 2
    BY <1>3, <2>3
  <2> QED BY <2>1, <2>2, <2>4
<1>5. ASSUME NEW n \in DOMAIN W
      PROVE  \E i \in DOMAIN jobs : jobs[i] = W[n]
  <2>1. n \in 1..Len(W)
    BY <1>3
  <2>2. n + 2 \in DOMAIN jobs /\ jobs[n + 2] = W[n]
    BY <1>3, <2>1
  <2> QED BY <2>2
<1> QED BY <1>0, <1>3, <1>4, <1>5
-----------------------------------------------------------------------------
(* The steps *)

\* What a port needs does not depend on where the search is sent from.
LEMMA Kept ==
  ASSUME NEW w, w.use \in DataUses \cup CommandUses
  PROVE  /\ KeyOf(w) = <<HostOf(w.cfg), PortOf(w)>> /\ KeyOf(w)' = KeyOf(w)
         /\ framework' = framework => IsNeeded(w)' = IsNeeded(w)
<1>1. w.use # "search" /\ w.use # "search broadcast" /\ w.use # "broadcast"
  BY DEF DataUses, CommandUses
<1>2. KeyOf(w) = <<HostOf(w.cfg), PortOf(w)>>
  BY <1>1 DEF KeyOf
<1>4. KeyOf(w)' = KeyOf(w)
  <2>1. PortOf(w)' = PortOf(w) /\ HostOf(w.cfg)' = HostOf(w.cfg)
    OBVIOUS
  <2>2. KeyOf(w)' = <<HostOf(w.cfg)', PortOf(w)'>>
    BY <1>1 DEF KeyOf
  <2> QED BY <1>2, <2>1, <2>2
<1>3. framework' = framework => IsNeeded(w)' = IsNeeded(w)
  BY <1>1 DEF IsNeeded, HostOf, PortOf
<1> QED BY <1>2, <1>3, <1>4

\* A step of a thread over its list, whatever it does for the job in front.
LEMMA PopSteps ==
  ASSUME StartInv, ~broken, NEW who \in Who, Pass(who) \/ OpenSocket(who)
  PROVE  /\ toOpen[who] # <<>> /\ toOpen' = [toOpen EXCEPT ![who] = Tail(@)]
         /\ toOpen'[who] = Tail(toOpen[who]) /\ \A o \in Who \ {who} : toOpen'[o] = toOpen[o]
         /\ gap' = (gap /\ ~(who = "found" /\ toOpen'[who] = <<>>))
         /\ UNCHANGED <<sdkOn, phase, configs, search, stop, broken, failed, stopped, begun, refusals>>
         /\ who = "app" => phase = "opening" /\ ~sdkOn
<1>1. toOpen[who] # <<>> /\ toOpen' = [toOpen EXCEPT ![who] = Tail(@)]
      /\ gap' = (gap /\ ~(who = "found" /\ toOpen'[who] = <<>>))
      /\ UNCHANGED <<sdkOn, phase, configs, search, stop, broken, failed, stopped, begun, refusals>>
  <2>1. CASE Pass(who)
    BY <2>1 DEF Pass
  <2>2. CASE OpenSocket(who)
    BY <2>2 DEF OpenSocket
  <2> QED BY <2>1, <2>2
<1>2. toOpen'[who] = Tail(toOpen[who]) /\ \A o \in Who \ {who} : toOpen'[o] = toOpen[o]
  BY <1>1 DEF StartInv, StartTypes, Who
<1>3. who = "app" => phase = "opening" /\ ~sdkOn
  BY <1>1 DEF StartInv, PhaseInv
<1> QED BY <1>1, <1>2, <1>3

\* What is in front of the list is left out or already there.
LEMMA PassSteps ==
  ASSUME StartInv, NEW who \in Who, Pass(who)
  PROVE  /\ UNCHANGED <<detecting, channel, kept, opened, open, heard, strays>>
         /\ DOMAIN command \subseteq DOMAIN command'
         /\ \A k \in DOMAIN command' :
              (command'[k] = command[k] /\ k \in DOMAIN command)
              \/ (k \in DOMAIN channel /\ command'[k] = channel[k])
         /\ IsNeeded(Head(toOpen[who])) => IsKnown(Head(toOpen[who]))
         /\ IsNeeded(Head(toOpen[who])) /\ Head(toOpen[who]).use \in CommandUses =>
              KeyOf(Head(toOpen[who])) \in DOMAIN command'
<1> DEFINE w == Head(toOpen[who])
<1>1. UNCHANGED <<detecting, channel, kept, opened, open, heard, strays>>
  BY DEF Pass
<1>2. IsNeeded(w) => IsKnown(w)
  BY DEF Pass
<1>3. CASE IsNeeded(w) /\ w.use \in CommandUses /\ KeyOf(w) \notin DOMAIN command
  <2>1. command' = Set(command, KeyOf(w), channel[KeyOf(w)])
    BY <1>3 DEF Pass
  <2>2. KeyOf(w) \in DOMAIN channel
    BY <1>2, <1>3 DEF IsKnown
  <2>3. DOMAIN command' = DOMAIN command \cup {KeyOf(w)} /\ command'[KeyOf(w)] = channel[KeyOf(w)]
        /\ \A k \in DOMAIN command : k # KeyOf(w) => command'[k] = command[k]
    BY <2>1 DEF Set
  <2> HIDE DEF w
  <2>4. KeyOf(w) \in DOMAIN command' /\ DOMAIN command \subseteq DOMAIN command'
    BY <2>3
  <2>5. ASSUME NEW k \in DOMAIN command'
        PROVE  (command'[k] = command[k] /\ k \in DOMAIN command)
               \/ (k \in DOMAIN channel /\ command'[k] = channel[k])
    BY <2>2, <2>3, <2>5
  <2> QED BY <1>1, <1>2, <2>4, <2>5 DEF w
<1>4. CASE ~(IsNeeded(w) /\ w.use \in CommandUses /\ KeyOf(w) \notin DOMAIN command)
  <2>1. command' = command
    BY <1>4 DEF Pass
  <2> QED BY <1>1, <1>2, <1>4, <2>1
<1> QED BY <1>3, <1>4

\* A new socket is open and listened to.
LEMMA OpenSteps ==
  ASSUME StartInv, NEW who \in Who, OpenSocket(who)
  PROVE  LET w == Head(toOpen[who])
             s == opened + 1
         IN /\ opened' = s /\ open' = open \cup {s} /\ heard' = heard \cup {s}
            /\ detecting'.broadcast = (IF w.use = "search broadcast" THEN s ELSE detecting.broadcast)
            /\ detecting'.host = (IF w.use = "search" THEN s ELSE detecting.host)
            /\ kept' = (IF w.use \in {"search", "search broadcast"} THEN kept ELSE kept \cup {s})
            /\ strays' = (IF phase = "joining" THEN strays \cup {s} ELSE strays)
            /\ DOMAIN channel \subseteq DOMAIN channel' /\ DOMAIN command \subseteq DOMAIN command'
            /\ \A k \in DOMAIN channel' :
                 channel'[k] = s \/ (k \in DOMAIN channel /\ channel'[k] = channel[k])
            /\ \A k \in DOMAIN command' :
                 command'[k] = s \/ (k \in DOMAIN command /\ command'[k] = command[k])
            /\ w.use \in DataUses \cup CommandUses => KeyOf(w) \in DOMAIN channel'
            /\ w.use \in CommandUses => KeyOf(w) \in DOMAIN command'
<1> DEFINE w == Head(toOpen[who])
           s == opened + 1
<1>1. opened' = s /\ open' = open \cup {s} /\ heard' = heard \cup {s}
      /\ kept' = (IF w.use \in {"search", "search broadcast"} THEN kept ELSE kept \cup {s})
      /\ strays' = (IF phase = "joining" THEN strays \cup {s} ELSE strays)
  BY DEF OpenSocket
<1>2. detecting'.broadcast = (IF w.use = "search broadcast" THEN s ELSE detecting.broadcast)
      /\ detecting'.host = (IF w.use = "search" THEN s ELSE detecting.host)
  BY DEF OpenSocket
<1>3. channel' = channel \/ channel' = Set(channel, KeyOf(w), s)
  BY DEF OpenSocket
<1>4. command' = command \/ command' = Set(command, KeyOf(w), s)
  BY DEF OpenSocket
<1>5. w.use \in DataUses \cup CommandUses => channel' = Set(channel, KeyOf(w), s)
  BY DEF OpenSocket, DataUses, CommandUses
<1>6. w.use \in CommandUses => command' = Set(command, KeyOf(w), s)
  BY DEF OpenSocket
<1>7. ASSUME NEW f, NEW g, g = f \/ g = Set(f, KeyOf(w), s)
      PROVE  DOMAIN f \subseteq DOMAIN g /\ \A k \in DOMAIN g : g[k] = s \/ (k \in DOMAIN f /\ g[k] = f[k])
  BY <1>7 DEF Set
<1>8. \A f : KeyOf(w) \in DOMAIN Set(f, KeyOf(w), s)
  BY DEF Set
<1> HIDE DEF w, s
<1>9. DOMAIN channel \subseteq DOMAIN channel'
      /\ \A k \in DOMAIN channel' : channel'[k] = s \/ (k \in DOMAIN channel /\ channel'[k] = channel[k])
  BY <1>3, <1>7
<1>10. DOMAIN command \subseteq DOMAIN command'
       /\ \A k \in DOMAIN command' : command'[k] = s \/ (k \in DOMAIN command /\ command'[k] = command[k])
  BY <1>4, <1>7
<1>11. w.use \in DataUses \cup CommandUses => KeyOf(w) \in DOMAIN channel'
  BY <1>5, <1>8
<1>12. w.use \in CommandUses => KeyOf(w) \in DOMAIN command'
  BY <1>6, <1>8
<1> QED BY <1>1, <1>2, <1>9, <1>10, <1>11, <1>12 DEF w, s
-----------------------------------------------------------------------------
(* The types are kept *)

LEMMA PopKeepsTypes ==
  ASSUME StartInv, ~broken, NEW who \in Who, Pass(who) \/ OpenSocket(who)
  PROVE  StartTypes'
<1>1. PICK o \in Nat : o = opened
  BY DEF StartInv, StartTypes, StartTypeOK
<1>2. StartTypes /\ StartTypeOK
  BY DEF StartInv, StartTypes
<1>3. toOpen' \in [{"app", "found"} -> Seq(Job)] /\ DOMAIN toOpen' = {"app", "found"}
  BY <1>2, PopSteps, PopType DEF Who
<1>4. (gap /\ ~(who = "found" /\ toOpen'[who] = <<>>)) \in BOOLEAN
  OBVIOUS
<1>5. gap' \in BOOLEAN
  BY <1>4, PopSteps, Zenon
<1>6. UNCHANGED <<sdkOn, phase, configs, search, stop, broken, failed, stopped, begun, refusals>>
  BY PopSteps
<1>7. {sdkOn', stop', broken', failed', stopped', gap', cleaner'} \subseteq BOOLEAN
      /\ framework' \in [master : BOOLEAN, logs : BOOLEAN]
  BY <1>2, <1>5, <1>6 DEF StartTypeOK, configs
<1>8. CASE Pass(who)
  <2>1. UNCHANGED <<detecting, channel, kept, opened, open, heard, strays>>
        /\ \A k \in DOMAIN command' :
             (command'[k] = command[k] /\ k \in DOMAIN command)
             \/ (k \in DOMAIN channel /\ command'[k] = channel[k])
    BY <1>8, PassSteps
  <2>2. \A k \in DOMAIN command' : command'[k] \in 1..opened
    BY <1>2, <2>1 DEF StartTypeOK
  <2>3. StartTypeOK'
    BY <1>2, <1>3, <1>6, <1>7, <2>1, <2>2 DEF StartTypeOK, configs
  <2> QED BY <1>3, <2>3 DEF StartTypes
<1>9. CASE OpenSocket(who)
  <2>1. PICK s \in Nat : s = o + 1
    BY <1>1
  <2>2. 1..o \subseteq 1..s /\ s \in 1..s /\ 0..o \subseteq 0..s /\ s \in 0..s
    BY <2>1
  <2>3. opened' = s /\ open' = open \cup {s} /\ heard' = heard \cup {s}
        /\ kept' \subseteq kept \cup {s} /\ strays' \subseteq strays \cup {s}
        /\ detecting'.broadcast \in {s, detecting.broadcast} /\ detecting'.host \in {s, detecting.host}
    BY <1>1, <1>9, <2>1, OpenSteps
  <2>4. \A k \in DOMAIN channel' : channel'[k] = s \/ (k \in DOMAIN channel /\ channel'[k] = channel[k])
    BY <1>1, <1>9, <2>1, OpenSteps
  <2>5. \A k \in DOMAIN command' : command'[k] = s \/ (k \in DOMAIN command /\ command'[k] = command[k])
    BY <1>1, <1>9, <2>1, OpenSteps
  <2>6. open \cup heard \cup kept \cup strays \subseteq 1..o /\ {detecting.broadcast, detecting.host} \subseteq 0..o
        /\ (\A k \in DOMAIN channel : channel[k] \in 1..o) /\ \A k \in DOMAIN command : command[k] \in 1..o
    BY <1>1, <1>2 DEF StartTypeOK
  <2>7. open' \cup heard' \cup kept' \cup strays' \subseteq 1..s
        /\ {detecting'.broadcast, detecting'.host} \subseteq 0..s
    BY <2>2, <2>3, <2>6, Zenon
  <2>8. (\A k \in DOMAIN channel' : channel'[k] \in 1..s) /\ \A k \in DOMAIN command' : command'[k] \in 1..s
    BY <2>2, <2>4, <2>5, <2>6, Zenon
  <2>9. StartTypeOK'
    BY <1>2, <1>3, <1>6, <1>7, <2>3, <2>7, <2>8 DEF StartTypeOK, configs
  <2> QED BY <1>3, <2>9 DEF StartTypes
<1> QED BY <1>8, <1>9

LEMMA RefusedKeepsTypes ==
  ASSUME StartInv, NEW who \in Who, SocketRefused(who)
  PROVE  StartTypes'
<1>2. StartTypes /\ StartTypeOK
  BY DEF StartInv, StartTypes
<1>1. UNCHANGED <<sdkOn, configs, channel, command, kept, opened, open, heard, search, stop, broken,
                 stopped, begun>>
      /\ toOpen[who] # <<>> /\ toOpen' = [toOpen EXCEPT ![who] = <<>>]
      /\ refusals < MaxRefusals /\ refusals' = refusals + 1
  BY DEF SocketRefused, Refusal
<1>3. toOpen' \in [{"app", "found"} -> Seq(Job)] /\ DOMAIN toOpen' = {"app", "found"}
  BY <1>1, <1>2, PopType DEF Who
<1>4. gap' \in BOOLEAN /\ failed' \in BOOLEAN /\ phase' \in {"idle", "opening", "storing", "joining"}
      /\ strays' \subseteq strays \cup ({detecting.broadcast, detecting.host} \ {0})
  BY <1>2 DEF SocketRefused, StartFails, StartTypeOK
<1>5. {sdkOn', stop', broken', failed', stopped', gap', cleaner'} \subseteq BOOLEAN
      /\ framework' \in [master : BOOLEAN, logs : BOOLEAN]
  BY <1>1, <1>2, <1>4 DEF StartTypeOK, configs
<1>6. detecting'.broadcast \in {0, detecting.broadcast} /\ detecting'.host \in {0, detecting.host}
  BY DEF SocketRefused
<1>7. opened \in Nat /\ {detecting.broadcast, detecting.host} \subseteq 0..opened
      /\ open \cup heard \cup kept \cup strays \subseteq 1..opened
  BY <1>2 DEF StartTypeOK
<1>8. open' \cup heard' \cup kept' \cup strays' \subseteq 1..opened'
      /\ {detecting'.broadcast, detecting'.host} \subseteq 0..opened'
  BY <1>1, <1>4, <1>6, <1>7
<1>9. refusals' \in 0..MaxRefusals /\ begun' \in 0..MaxStarts
  BY <1>1, <1>2, StartAssumption DEF StartTypeOK
<1>10. StartTypeOK'
  BY <1>1, <1>2, <1>3, <1>4, <1>5, <1>8, <1>9 DEF StartTypeOK, configs
<1> QED BY <1>3, <1>10 DEF StartTypes

LEMMA StartKeepsTypes ==
  ASSUME StartInv, NEW f \in StartFiles, SdkStart(f)
  PROVE  StartTypes'
<1>1. StartTypes /\ StartTypeOK
  BY DEF StartInv, StartTypes
<1>2. PICK cs \in Seq(Entry) : cs = f.customs
  BY StartAssumption
<1>3. customs' \in Seq(Entry) /\ customs' = Checked(cs)
  BY <1>2, StartSteps, CheckedType
<1>4. /\ \A ip \in DOMAIN byIp' : byIp'[ip] \in Entry
      /\ \A t \in DOMAIN byType' : byType'[t] \in Entry /\ byType'[t].type = t
  <2>1. /\ \A ip \in DOMAIN byIp : byIp[ip] \in Entry
        /\ \A t \in DOMAIN byType : byType[t] \in Entry /\ byType[t].type = t
    BY <1>1 DEF StartTypeOK
  <2>2. /\ \A ip \in DOMAIN AddressesWith(f.customs) : AddressesWith(f.customs)[ip] \in Entry
        /\ \A t \in DOMAIN TypesWith(f.lidars) :
             TypesWith(f.lidars)[t] \in Entry /\ TypesWith(f.lidars)[t].type = t
    BY <1>1, MapTypes
  <2>3. (byIp' = AddressesWith(f.customs) /\ byType' = TypesWith(f.lidars)) \/ (byIp' = byIp /\ byType' = byType)
    BY StartSteps
  <2> QED BY <2>1, <2>2, <2>3
<1>5. toOpen' \in [{"app", "found"} -> Seq(Job)]
  <2>1. PICK jobs \in Seq(Job) : jobs = SearchJobs \o Wanted(Checked(cs))
    BY <1>2, <1>3, StartJobs
  <2>2. toOpen' = toOpen \/ toOpen' = [toOpen EXCEPT !["app"] = jobs]
    BY <1>2, <2>1, StartSteps
  <2> QED BY <1>1, <2>1, <2>2 DEF StartTypes
<1>6. phase' \in {"idle", "opening"} /\ failed' \in {TRUE, failed}
      /\ strays' \subseteq strays \cup ({detecting.broadcast, detecting.host} \ {0})
      /\ heard' \subseteq heard /\ gap' = FALSE
      /\ UNCHANGED <<sdkOn, detecting, channel, command, kept, opened, open, search, stop, stopped>>
  BY StartSteps
<1>8. broken' \in BOOLEAN
  BY StartSteps
<1>9. framework' \in [master : BOOLEAN, logs : BOOLEAN] /\ cleaner' \in BOOLEAN
  BY StartSteps
<1>10. {sdkOn', stop', broken', failed', stopped', gap', cleaner'} \subseteq BOOLEAN
      /\ framework' \in [master : BOOLEAN, logs : BOOLEAN]
  BY <1>1, <1>6, <1>8, <1>9 DEF StartTypeOK
<1>11. opened \in Nat /\ {detecting.broadcast, detecting.host} \subseteq 0..opened
      /\ open \cup heard \cup kept \cup strays \subseteq 1..opened
  BY <1>1 DEF StartTypeOK
<1>12. open' \cup heard' \cup kept' \cup strays' \subseteq 1..opened'
  BY <1>6, <1>11
<1>13. refusals' \in 0..MaxRefusals /\ begun' \in 0..MaxStarts
  <2>1. (refusals' = refusals \/ (refusals < MaxRefusals /\ refusals' = refusals + 1))
        /\ begun < MaxStarts /\ begun' = begun + 1
    BY StartSteps
  <2> QED BY <1>1, <2>1, StartAssumption DEF StartTypeOK
<1>14. StartTypeOK'
  BY <1>1, <1>3, <1>4, <1>5, <1>6, <1>10, <1>12, <1>13 DEF StartTypeOK
<1> QED BY <1>5, <1>14 DEF StartTypes

LEMMA FoundSteps ==
  ASSUME StartInv, NEW l \in Answering, LidarFound(l)
  PROVE  \E cfg \in Entry :
           /\ cfg = [byType[l.type] EXCEPT !.lidar = l.ip] /\ l.type \in DOMAIN byType
           /\ cfg.type = l.type /\ (Fixed(byType[l.type]) => Fixed(cfg))
           /\ byIp' = Set(byIp, l.ip, cfg) /\ byType' = [byType EXCEPT ![l.type] = cfg]
           /\ customs' = Append(customs, cfg) /\ customs' \in Seq(Entry)
           /\ toOpen' = [toOpen EXCEPT !["found"] = Wanted(customs')] /\ Wanted(customs') \in Seq(Job)
           /\ toOpen' \in [{"app", "found"} -> Seq(Job)]
           /\ toOpen["found"] = <<>> /\ {detecting.broadcast, detecting.host} \cap open # {}
           /\ broken' \in BOOLEAN
           /\ UNCHANGED <<sdkOn, phase, framework, cleaner, hostIp, sockets, search, stop, history>>
<1>1. StartTypes /\ StartTypeOK
  BY DEF StartInv, StartTypes
<1>2. l.type \in DOMAIN byType /\ toOpen["found"] = <<>>
  BY DEF LidarFound
<1>3. PICK old \in Entry : old = byType[l.type] /\ old.type = l.type
  BY <1>1, <1>2 DEF StartTypeOK
<1>4. l.ip \in STRING
  BY StartAssumption
<1>5. PICK cfg \in Entry : cfg = [old EXCEPT !.lidar = l.ip] /\ cfg.type = old.type /\ cfg.lidarPort = old.lidarPort
  <2>1. [old EXCEPT !.lidar = l.ip] \in Entry
    BY <1>4 DEF Entry
  <2>2. [old EXCEPT !.lidar = l.ip].type = old.type /\ [old EXCEPT !.lidar = l.ip].lidarPort = old.lidarPort
    BY DEF Entry
  <2> QED BY <2>1, <2>2
<1>6. Fixed(old) => Fixed(cfg)
  BY <1>5 DEF Fixed
<1>7. byIp' = Set(byIp, l.ip, cfg) /\ byType' = [byType EXCEPT ![l.type] = cfg]
      /\ customs' = Append(customs, cfg) /\ toOpen' = [toOpen EXCEPT !["found"] = Wanted(customs')]
  BY <1>3, <1>5 DEF LidarFound
<1>8. customs' \in Seq(Entry)
  BY <1>1, <1>5, <1>7 DEF StartTypeOK
<1>9. Wanted(customs') \in Seq(Job)
  <2>1. PICK cs \in Seq(Entry) : cs = customs'
    BY <1>8
  <2> QED BY <2>1, WantedCovers
<1>10. toOpen' \in [{"app", "found"} -> Seq(Job)]
  BY <1>1, <1>7, <1>9 DEF StartTypes
<1>11. {detecting.broadcast, detecting.host} \cap open # {} /\ broken' \in BOOLEAN
       /\ UNCHANGED <<sdkOn, phase, framework, cleaner, hostIp, sockets, search, stop, history>>
  BY DEF LidarFound
<1> QED BY <1>2, <1>3, <1>5, <1>6, <1>7, <1>8, <1>9, <1>10, <1>11

LEMMA FoundKeepsTypes ==
  ASSUME StartInv, NEW l \in Answering, LidarFound(l)
  PROVE  StartTypes'
<1>1. StartTypes /\ StartTypeOK
  BY DEF StartInv, StartTypes
<1>2. PICK cfg \in Entry :
           /\ l.type \in DOMAIN byType /\ cfg.type = l.type
           /\ byIp' = Set(byIp, l.ip, cfg) /\ byType' = [byType EXCEPT ![l.type] = cfg]
           /\ customs' \in Seq(Entry) /\ toOpen' \in [{"app", "found"} -> Seq(Job)]
           /\ broken' \in BOOLEAN
           /\ UNCHANGED <<sdkOn, phase, framework, cleaner, hostIp, sockets, search, stop, history>>
  BY FoundSteps
<1>3. \A ip \in DOMAIN byIp' : byIp'[ip] \in Entry
  BY <1>1, <1>2 DEF StartTypeOK, Set
<1>4. \A t \in DOMAIN byType' : byType'[t] \in Entry /\ byType'[t].type = t
  BY <1>1, <1>2 DEF StartTypeOK
<1>5. {sdkOn', stop', broken', failed', stopped', gap', cleaner'} \subseteq BOOLEAN
      /\ framework' \in [master : BOOLEAN, logs : BOOLEAN]
  BY <1>1, <1>2 DEF StartTypeOK, history
<1>6. StartTypeOK'
  BY <1>1, <1>2, <1>3, <1>4, <1>5 DEF StartTypeOK, history, sockets
<1> QED BY <1>2, <1>6 DEF StartTypes

\* The steps of the application's thread and of the search that open nothing.
LEMMA OthersKeepTypes ==
  ASSUME StartInv, StartSearch \/ StoreStop \/ Detection \/ SdkStop \/ SdkStopped
  PROVE  StartTypes'
<1>1. StartTypes /\ StartTypeOK
  BY DEF StartInv, StartTypes
<1>2. CASE StartSearch
  BY <1>1, <1>2 DEF StartSearch, StartTypes, StartTypeOK, configs, sockets, history
<1>3. CASE StoreStop
  BY <1>1, <1>3 DEF StoreStop, StartTypes, StartTypeOK, configs, sockets, history
<1>4. CASE Detection
  BY <1>1, <1>4 DEF Detection, StartTypes, StartTypeOK, configs, sockets, history
<1>5. CASE SdkStop
  BY <1>1, <1>5 DEF SdkStop, StartTypes, StartTypeOK, history
<1>6. CASE SdkStopped
  <2>1. (toOpen["found"] # <<>>) \in BOOLEAN
    OBVIOUS
  <2>2. broken' = (toOpen["found"] # <<>>)
    BY <1>6 DEF SdkStopped
  <2>3. broken' \in BOOLEAN
    BY <2>1, <2>2, Zenon
  <2>4. customs' = <<>> /\ byIp' = <<>> /\ byType' = <<>> /\ channel' = <<>> /\ command' = <<>>
    BY <1>6 DEF SdkStopped
  <2>5. DOMAIN byIp' = {} /\ DOMAIN byType' = {} /\ DOMAIN channel' = {} /\ DOMAIN command' = {}
        /\ customs' \in Seq(Entry)
    <3>1. DOMAIN <<>> = {}
      OBVIOUS
    <3> QED BY <2>4, <3>1
  <2>6. /\ open' = open \ {detecting.broadcast, detecting.host} /\ detecting'.broadcast = 0 /\ detecting'.host = 0
        /\ search' = "none" /\ sdkOn' = FALSE /\ phase' = "idle" /\ failed' = FALSE /\ stopped' = TRUE
        /\ UNCHANGED <<framework, cleaner, hostIp, kept, opened, heard, toOpen, stop, gap, strays, begun, refusals>>
    BY <1>6 DEF SdkStopped
  <2> HIDE <1>6
  <2>7. {sdkOn', stop', broken', failed', stopped', gap', cleaner'} \subseteq BOOLEAN
      /\ framework' \in [master : BOOLEAN, logs : BOOLEAN]
    BY <1>1, <2>3, <2>6 DEF StartTypeOK
  <2>8. StartTypeOK'
    BY <1>1, <2>5, <2>6, <2>7 DEF StartTypeOK
  <2> QED BY <1>1, <2>6, <2>8 DEF StartTypes
<1> QED BY <1>2, <1>3, <1>4, <1>5, <1>6
-----------------------------------------------------------------------------
(* The invariant is kept *)

\* What a change of a list leaves of what is to be done.
LEMMA StillTodo ==
  ASSUME StartInv, NEW who \in Who, toOpen[who] # <<>>, toOpen'[who] = Tail(toOpen[who]),
         \A o \in Who \ {who} : toOpen'[o] = toOpen[o],
         NEW w, IsTodo(w)
  PROVE  w = Head(toOpen[who]) \/ IsTodo(w)'
<1>1. PICK o \in Who : \E n \in DOMAIN toOpen[o] : toOpen[o][n] = w
  BY DEF IsTodo, Who
<1>2. CASE o # who
  BY <1>1, <1>2 DEF IsTodo, Who
<1>3. CASE o = who
  <2>1. PICK s \in Seq(Job) : s = toOpen[who]
    BY DEF StartInv, StartTypes, Who
  <2>2. PICK n \in DOMAIN s : s[n] = w
    BY <1>1, <1>3, <2>1
  <2>3. s[n] = Head(s) \/ \E i \in DOMAIN Tail(s) : Tail(s)[i] = s[n]
    BY <2>1, TailType
  <2>4. toOpen'[who] = Tail(s)
    BY <2>1
  <2> QED BY <2>1, <2>2, <2>3, <2>4 DEF IsTodo, Who
<1> QED BY <1>2, <1>3

\* The jobs for the search stay in front.
LEMMA TailOfFirst ==
  ASSUME NEW s \in Seq(Job), s # <<>>,
         \A i \in DOMAIN s :
           /\ s[i].use = "search broadcast" => i = 1
           /\ s[i].use = "search" => (i = 1 \/ (i = 2 /\ s[1].use = "search broadcast"))
  PROVE  \A i \in DOMAIN Tail(s) :
           /\ Tail(s)[i].use # "search broadcast"
           /\ Tail(s)[i].use = "search" => i = 1 /\ Head(s).use = "search broadcast"
<1>1. /\ Head(s) = s[1]
      /\ \A i \in DOMAIN Tail(s) : i + 1 \in DOMAIN s /\ Tail(s)[i] = s[i + 1] /\ i + 1 # 1 /\ (i + 1 = 2 => i = 1)
  BY TailType
<1>2. ASSUME NEW i \in DOMAIN Tail(s)
      PROVE  /\ Tail(s)[i].use # "search broadcast"
             /\ Tail(s)[i].use = "search" => i = 1 /\ Head(s).use = "search broadcast"
  BY <1>1, Zenon
<1> QED BY <1>2

LEMMA PopKeepsFirstJobs ==
  ASSUME StartInv, ~broken, NEW who \in Who, Pass(who) \/ OpenSocket(who),
         strays \subseteq strays',
         detecting'.broadcast # detecting.broadcast => Head(toOpen[who]).use = "search broadcast",
         detecting'.host # detecting.host => Head(toOpen[who]).use = "search"
  PROVE  FirstJobs'
<1>1. /\ toOpen[who] # <<>> /\ toOpen'[who] = Tail(toOpen[who]) /\ \A o \in Who \ {who} : toOpen'[o] = toOpen[o]
  BY PopSteps
<1>2. PICK s \in Seq(Job) : s = toOpen[who]
  BY DEF StartInv, StartTypes, Who
<1>3. /\ s # <<>> /\ Head(s) = s[1] /\ 1 \in DOMAIN s
      /\ \A i \in DOMAIN Tail(s) : \E j \in DOMAIN s : Tail(s)[i] = s[j]
  <2>1. s # <<>>
    BY <1>1, <1>2
  <2>2. /\ Head(s) = s[1] /\ 1 \in DOMAIN s
        /\ \A i \in DOMAIN Tail(s) : i + 1 \in DOMAIN s /\ Tail(s)[i] = s[i + 1]
    BY <2>1, TailType
  <2> QED BY <2>1, <2>2, Zenon
<1>4. CASE who = "app"
  <2>1. toOpen'["found"] = toOpen["found"]
    BY <1>1, <1>4 DEF Who
  <2>2. \A i \in DOMAIN s :
          /\ s[i].use = "search broadcast" => i = 1 /\ detecting.broadcast \in strays \cup {0}
          /\ s[i].use = "search" =>
               (i = 1 \/ (i = 2 /\ s[1].use = "search broadcast")) /\ detecting.host \in strays \cup {0}
    BY <1>2, <1>4 DEF StartInv, FirstJobs
  <2>3. \A i \in DOMAIN Tail(s) :
          /\ Tail(s)[i].use # "search broadcast"
          /\ Tail(s)[i].use = "search" => i = 1 /\ Head(s).use = "search broadcast"
    BY <1>3, <2>2, TailOfFirst
  <2>5. \A i \in DOMAIN Tail(s) : Tail(s)[i].use = "search" => detecting.host \in strays \cup {0}
    BY <1>3, <2>2
  <2>4. \A i \in DOMAIN toOpen'["app"] :
          /\ toOpen'["app"][i].use # "search broadcast"
          /\ toOpen'["app"][i].use = "search" => i = 1 /\ detecting'.host \in strays' \cup {0}
    BY <1>1, <1>2, <1>4, <2>3, <2>5
  <2> QED BY <2>1, <2>4 DEF StartInv, FirstJobs
<1>5. CASE who = "found"
  <2>1. toOpen'["app"] = toOpen["app"]
    BY <1>1, <1>5 DEF Who
  <2>2. \A i \in DOMAIN s : s[i].use \notin {"search", "search broadcast"}
    BY <1>2, <1>5 DEF StartInv, FirstJobs
  <2>3. detecting'.broadcast = detecting.broadcast /\ detecting'.host = detecting.host
    BY <1>2, <1>3, <2>2
  <2>4. \A i \in DOMAIN toOpen'["found"] : toOpen'["found"][i].use \notin {"search", "search broadcast"}
    <3>1. \A i \in DOMAIN Tail(s) : Tail(s)[i].use \notin {"search", "search broadcast"}
      BY <1>3, <2>2
    <3>2. toOpen'["found"] = Tail(s)
      BY <1>1, <1>2, <1>5
    <3> QED BY <3>1, <3>2
  <2> QED BY <2>1, <2>3, <2>4 DEF StartInv, FirstJobs
<1> QED BY <1>4, <1>5 DEF Who

\* The ports that are ready stay ready, and the one in front becomes so.
LEMMA PopKeepsCover ==
  ASSUME StartInv, ~broken, NEW who \in Who, Pass(who) \/ OpenSocket(who),
         DOMAIN channel \subseteq DOMAIN channel', DOMAIN command \subseteq DOMAIN command',
         \A w : w = Head(toOpen[who]) /\ w.use \in DataUses \cup CommandUses /\ IsNeeded(w) =>
                 /\ KeyOf(w) \in DOMAIN channel'
                 /\ w.use \in CommandUses => KeyOf(w) \in DOMAIN command'
  PROVE  CoverInv'
<1>1. /\ toOpen[who] # <<>> /\ toOpen'[who] = Tail(toOpen[who]) /\ \A o \in Who \ {who} : toOpen'[o] = toOpen[o]
      /\ gap' = (gap /\ ~(who = "found" /\ toOpen'[who] = <<>>))
      /\ UNCHANGED <<sdkOn, phase, customs, framework>>
  BY PopSteps DEF configs
<1>2. SUFFICES ASSUME sdkOn \/ phase \in {"opening", "storing"}, phase # "joining", ~gap' \/ toOpen'["found"] # <<>>,
                      NEW i \in DOMAIN customs, NEW use \in DataUses \cup CommandUses,
                      NEW w, w = [use |-> use, cfg |-> customs[i]], IsNeeded(w)'
               PROVE  Ready(w)' \/ IsTodo(w)'
  BY <1>1 DEF CoverInv
<1>3. ~gap \/ toOpen["found"] # <<>>
  BY <1>1, <1>2 DEF Who
<1>4. w.use \in DataUses \cup CommandUses
  BY <1>2
<1>5. KeyOf(w)' = KeyOf(w) /\ IsNeeded(w)
  BY <1>1, <1>2, <1>4, Kept
<1>6. Ready(w) \/ IsTodo(w)
  BY <1>2, <1>3, <1>5 DEF StartInv, CoverInv
<1>7. CASE Ready(w)
  BY <1>5, <1>7 DEF Ready
<1>8. CASE w = Head(toOpen[who])
  BY <1>4, <1>5, <1>8 DEF Ready
<1>9. CASE IsTodo(w)'
  BY <1>9
<1> QED BY <1>1, <1>6, <1>7, <1>8, <1>9, StillTodo

\* The ports stay ready while nothing is taken away.
LEMMA StillCovered ==
  ASSUME StartInv, UNCHANGED <<customs, framework, channel, command, toOpen, gap>>,
         sdkOn' \/ phase' \in {"opening", "storing"} => sdkOn \/ phase \in {"opening", "storing"},
         phase' # "joining" => phase # "joining"
  PROVE  CoverInv'
<1>1. SUFFICES ASSUME sdkOn' \/ phase' \in {"opening", "storing"}, phase' # "joining", ~gap' \/ toOpen'["found"] # <<>>,
                      NEW i \in DOMAIN customs, NEW use \in DataUses \cup CommandUses,
                      NEW w, w = [use |-> use, cfg |-> customs[i]], IsNeeded(w)'
               PROVE  Ready(w)' \/ IsTodo(w)'
  BY DEF CoverInv
<1>2. w.use \in DataUses \cup CommandUses
  BY <1>1
<1>3. KeyOf(w)' = KeyOf(w) /\ IsNeeded(w)
  BY <1>1, <1>2, Kept
<1>4. Ready(w) \/ IsTodo(w)
  BY <1>1, <1>3 DEF StartInv, CoverInv
<1> QED BY <1>3, <1>4 DEF Ready, IsTodo

LEMMA PassKeeps ==
  ASSUME StartInv, ~broken, NEW who \in Who, Pass(who)
  PROVE  StartInv'
<1>1. StartTypes'
  BY PopKeepsTypes
<1>2. /\ UNCHANGED <<sdkOn, phase, configs, search, stop, broken, failed, stopped, begun, refusals>>
      /\ toOpen[who] # <<>> /\ toOpen'[who] = Tail(toOpen[who]) /\ \A o \in Who \ {who} : toOpen'[o] = toOpen[o]
      /\ who = "app" => phase = "opening" /\ ~sdkOn
  BY PopSteps
<1>3. /\ UNCHANGED <<detecting, channel, kept, opened, open, heard, strays>>
      /\ DOMAIN command \subseteq DOMAIN command'
      /\ \A k \in DOMAIN command' :
           (command'[k] = command[k] /\ k \in DOMAIN command)
           \/ (k \in DOMAIN channel /\ command'[k] = channel[k])
  BY PassSteps
<1>4. ConfigInv' /\ SearchInv'
  BY <1>2 DEF StartInv, ConfigInv, SearchInv, configs
<1>5. PhaseInv'
  BY <1>2 DEF StartInv, PhaseInv, Who
<1>6. OwnerInv'
  BY <1>2, <1>3 DEF StartInv, OwnerInv, Off, Who
<1>7. ChannelInv'
  BY <1>2, <1>3 DEF StartInv, ChannelInv
<1>8. FirstJobs'
  BY <1>3, PopKeepsFirstJobs
<1>9. \A w : w = Head(toOpen[who]) /\ w.use \in DataUses \cup CommandUses /\ IsNeeded(w) =>
                 /\ KeyOf(w) \in DOMAIN channel'
                 /\ w.use \in CommandUses => KeyOf(w) \in DOMAIN command'
  BY <1>3, PassSteps DEF IsKnown
<1>10. CoverInv'
  BY <1>3, <1>9, PopKeepsCover
<1> QED BY <1>1, <1>4, <1>5, <1>6, <1>7, <1>8, <1>10 DEF StartInv

LEMMA OpenKeeps ==
  ASSUME StartInv, ~broken, NEW who \in Who, OpenSocket(who)
  PROVE  StartInv'
<1>1. StartTypes'
  BY PopKeepsTypes
<1>2. /\ UNCHANGED <<sdkOn, phase, configs, search, stop, broken, failed, stopped, begun, refusals>>
      /\ toOpen[who] # <<>> /\ toOpen'[who] = Tail(toOpen[who]) /\ \A o \in Who \ {who} : toOpen'[o] = toOpen[o]
      /\ who = "app" => phase = "opening" /\ ~sdkOn
  BY PopSteps
<1>3. PICK u, s : /\ u = Head(toOpen[who]).use /\ s = opened + 1
  OBVIOUS
<1>4. /\ opened' = s /\ open' = open \cup {s} /\ heard' = heard \cup {s}
      /\ detecting'.broadcast = (IF u = "search broadcast" THEN s ELSE detecting.broadcast)
      /\ detecting'.host = (IF u = "search" THEN s ELSE detecting.host)
      /\ kept' = (IF u \in {"search", "search broadcast"} THEN kept ELSE kept \cup {s})
      /\ strays' = (IF phase = "joining" THEN strays \cup {s} ELSE strays)
      /\ DOMAIN channel \subseteq DOMAIN channel' /\ DOMAIN command \subseteq DOMAIN command'
      /\ \A k \in DOMAIN channel' : channel'[k] = s \/ (k \in DOMAIN channel /\ channel'[k] = channel[k])
      /\ \A k \in DOMAIN command' : command'[k] = s \/ (k \in DOMAIN command /\ command'[k] = command[k])
  BY <1>3, OpenSteps
<1>5. ConfigInv' /\ SearchInv'
  BY <1>2 DEF StartInv, ConfigInv, SearchInv, configs
<1>6. PhaseInv'
  BY <1>2 DEF StartInv, PhaseInv, Who
<1>7. \/ u = "search broadcast" /\ who = "app" /\ detecting.broadcast \in strays \cup {0}
      \/ u = "search" /\ who = "app" /\ detecting.host \in strays \cup {0}
      \/ u \notin {"search", "search broadcast"}
  <2>1. PICK l \in Seq(Job) : l = toOpen[who]
    BY DEF StartInv, StartTypes, Who
  <2>2. Head(l) = l[1] /\ 1 \in DOMAIN l
    BY <1>2, <2>1, TailType
  <2> QED BY <1>3, <2>1, <2>2 DEF StartInv, FirstJobs, Who
<1>8. OwnerInv'
  <2>1. 0 \notin open
    BY DEF StartInv, StartTypes, StartTypeOK
  <2>2. open' \subseteq kept' \cup {detecting'.broadcast, detecting'.host} \cup strays'
    <3>1. open \subseteq kept \cup {detecting.broadcast, detecting.host} \cup strays
      BY DEF StartInv, OwnerInv
    <3> QED BY <1>4, <1>7, <2>1, <3>1
  <2>3. phase = "joining" => kept' \subseteq strays'
    BY <1>4 DEF StartInv, OwnerInv
  <2>4. Off => who = "found" /\ u \notin {"search", "search broadcast"}
    BY <1>2, <1>7 DEF Off, Who
  <2>5. Off => failed
    BY <1>2, <2>4 DEF StartInv, OwnerInv
  <2>6. Off => {detecting'.broadcast, detecting'.host} \subseteq strays' \cup {0}
    BY <1>4, <2>4 DEF StartInv, OwnerInv
  <2>7. Off' = Off /\ failed' = failed /\ phase' = phase
    BY <1>2 DEF Off
  <2> QED BY <2>2, <2>3, <2>5, <2>6, <2>7 DEF OwnerInv
<1>9. ChannelInv'
  BY <1>2, <1>4 DEF StartInv, ChannelInv
<1>10. FirstJobs'
  <2>1. /\ strays \subseteq strays'
        /\ detecting'.broadcast # detecting.broadcast => u = "search broadcast"
        /\ detecting'.host # detecting.host => u = "search"
    BY <1>4
  <2> QED BY <1>3, <2>1, PopKeepsFirstJobs
<1>11. \A w : w = Head(toOpen[who]) /\ w.use \in DataUses \cup CommandUses /\ IsNeeded(w) =>
                 /\ KeyOf(w) \in DOMAIN channel'
                 /\ w.use \in CommandUses => KeyOf(w) \in DOMAIN command'
  BY OpenSteps
<1>12. CoverInv'
  BY <1>4, <1>11, PopKeepsCover
<1> QED BY <1>1, <1>5, <1>6, <1>8, <1>9, <1>10, <1>12 DEF StartInv

LEMMA RefusedKeeps ==
  ASSUME StartInv, ~broken, NEW who \in Who, SocketRefused(who)
  PROVE  StartInv'
<1>1. StartTypes'
  BY RefusedKeepsTypes
<1>2. UNCHANGED <<sdkOn, configs, channel, command, kept, opened, open, heard, search, stop, broken,
                  stopped, begun>>
      /\ toOpen[who] # <<>> /\ toOpen' = [toOpen EXCEPT ![who] = <<>>]
  BY DEF SocketRefused
<1>3. toOpen'[who] = <<>> /\ \A o \in Who \ {who} : toOpen'[o] = toOpen[o]
  BY <1>2 DEF StartInv, StartTypes, Who
<1>4. PICK u : u = Head(toOpen[who]).use
  OBVIOUS
<1>5. /\ detecting'.broadcast = (IF u = "search broadcast" THEN 0 ELSE detecting.broadcast)
      /\ detecting'.host = (IF u = "search" THEN 0 ELSE detecting.host)
  BY <1>4 DEF SocketRefused
<1>6. \/ u = "search broadcast" /\ who = "app" /\ detecting.broadcast \in strays \cup {0}
      \/ u = "search" /\ who = "app" /\ detecting.host \in strays \cup {0}
      \/ u \notin {"search", "search broadcast"}
  <2>1. PICK l \in Seq(Job) : l = toOpen[who]
    BY DEF StartInv, StartTypes, Who
  <2>2. Head(l) = l[1] /\ 1 \in DOMAIN l
    BY <1>2, <2>1, TailType
  <2> QED BY <1>4, <2>1, <2>2 DEF StartInv, FirstJobs, Who
<1>7. 0 \notin open
  BY DEF StartInv, StartTypes, StartTypeOK
<1>8. open \subseteq kept \cup {detecting.broadcast, detecting.host} \cup strays
  BY DEF StartInv, OwnerInv
<1>9. CASE who = "app"
  <2>1. phase = "opening" /\ ~sdkOn
    BY <1>2, <1>9 DEF StartInv, PhaseInv
  <2>2. phase' = "idle" /\ failed' = TRUE /\ gap' = gap
        /\ strays' = strays \cup ({detecting.broadcast, detecting.host} \ {0})
    BY <1>9 DEF SocketRefused, StartFails
  <2>3. toOpen'["app"] = <<>> /\ toOpen'["found"] = toOpen["found"]
    BY <1>3, <1>9 DEF Who
  <2>4. ConfigInv' /\ PhaseInv' /\ SearchInv'
    BY <1>2, <2>1, <2>2, <2>3 DEF StartInv, ConfigInv, PhaseInv, SearchInv, configs
  <2>5. OwnerInv'
    BY <1>2, <1>5, <1>6, <1>7, <1>8, <2>2 DEF OwnerInv
  <2>6. FirstJobs'
    <3>1. DOMAIN toOpen'["app"] = {}
      BY <2>3
    <3> QED BY <2>3, <3>1 DEF StartInv, FirstJobs
  <2>7. ChannelInv'
    BY <1>2, <2>1, <2>2 DEF StartInv, ChannelInv
  <2>8. CoverInv'
    BY <1>2, <2>1, <2>2 DEF CoverInv
  <2> QED BY <1>1, <2>4, <2>5, <2>6, <2>7, <2>8 DEF StartInv
<1>10. CASE who = "found"
  <2>1. gap' = TRUE /\ UNCHANGED <<phase, failed, strays>>
    BY <1>10 DEF SocketRefused
  <2>2. toOpen'["found"] = <<>> /\ toOpen'["app"] = toOpen["app"]
    BY <1>3, <1>10 DEF Who
  <2>3. detecting'.broadcast = detecting.broadcast /\ detecting'.host = detecting.host
    BY <1>5, <1>6, <1>10
  <2>4. ConfigInv' /\ PhaseInv' /\ SearchInv'
    BY <1>2, <2>1, <2>2 DEF StartInv, ConfigInv, PhaseInv, SearchInv, configs
  <2>5. OwnerInv'
    BY <1>2, <2>1, <2>2, <2>3 DEF StartInv, OwnerInv, Off
  <2>6. FirstJobs'
    <3>1. DOMAIN toOpen'["found"] = {}
      BY <2>2
    <3> QED BY <2>1, <2>2, <2>3, <3>1 DEF StartInv, FirstJobs
  <2>7. ChannelInv'
    BY <1>2, <2>1 DEF StartInv, ChannelInv
  <2>8. CoverInv'
    BY <2>1, <2>2 DEF CoverInv
  <2> QED BY <1>1, <2>4, <2>5, <2>6, <2>7, <2>8 DEF StartInv
<1> QED BY <1>9, <1>10 DEF Who

LEMMA StartKeeps ==
  ASSUME StartInv, NEW f \in StartFiles, SdkStart(f)
  PROVE  StartInv'
<1>1. StartTypes'
  BY StartKeepsTypes
<1>2. PICK cs \in Seq(Entry) : cs = Checked(f.customs)
  <2>1. PICK raw \in Seq(Entry) : raw = f.customs
    BY StartAssumption
  <2> QED BY <2>1, CheckedType
<1>3. PICK jobs \in Seq(Job) : jobs = SearchJobs \o Wanted(cs)
  BY <1>2, StartJobs
<1>4. /\ customs' = cs /\ ~broken /\ ~sdkOn /\ phase = "idle" /\ gap' = FALSE
      /\ (toOpen["found"] # <<>> => broken')
      /\ heard' = heard \/ heard' = {}
      /\ UNCHANGED <<sdkOn, detecting, channel, command, kept, opened, open, search, stop, stopped>>
  BY <1>2, StartSteps
<1>5. \/ phase' = "idle" /\ failed' = TRUE /\ toOpen' = toOpen
         /\ strays' = strays \cup ({detecting.broadcast, detecting.host} \ {0})
      \/ phase' = "opening" /\ failed' = failed /\ strays' = strays
         /\ toOpen' = [toOpen EXCEPT !["app"] = jobs]
  BY <1>2, <1>3, StartSteps
<1>6. Off /\ toOpen["app"] = <<>>
  BY <1>4 DEF StartInv, PhaseInv, Off
<1>7. ConfigInv'
  <2>1. /\ \A ip \in DOMAIN AddressesWith(f.customs) : Fixed(AddressesWith(f.customs)[ip])
        /\ \A t \in DOMAIN TypesWith(f.lidars) : Fixed(TypesWith(f.lidars)[t])
    BY MapTypes DEF StartInv, ConfigInv
  <2>2. (byIp' = AddressesWith(f.customs) /\ byType' = TypesWith(f.lidars)) \/ (byIp' = byIp /\ byType' = byType)
    BY StartSteps
  <2> QED BY <2>1, <2>2 DEF StartInv, ConfigInv
<1>8. PhaseInv' /\ SearchInv'
  BY <1>4, <1>5, <1>6 DEF StartInv, PhaseInv, SearchInv
<1>9. OwnerInv'
  BY <1>4, <1>5, <1>6 DEF StartInv, OwnerInv, Off
<1>10. ChannelInv'
  <2>1. failed \/ DOMAIN channel = {}
    BY <1>6 DEF StartInv, OwnerInv
  <2> QED BY <1>4, <1>5, <2>1 DEF StartInv, ChannelInv
<1>11. CASE phase' = "idle"
  <2>1. toOpen' = toOpen /\ strays \subseteq strays'
    BY <1>5, <1>11
  <2>2. FirstJobs'
    BY <1>4, <2>1 DEF StartInv, FirstJobs
  <2>3. CoverInv'
    BY <1>4, <1>11 DEF CoverInv
  <2> QED BY <1>1, <1>7, <1>8, <1>9, <1>10, <2>2, <2>3 DEF StartInv
<1>12. CASE phase' # "idle"
  <2>1. toOpen'["app"] = jobs /\ toOpen'["found"] = toOpen["found"] /\ strays' = strays
    BY <1>5, <1>12 DEF StartInv, StartTypes
  <2>2. FirstJobs'
    <3>1. \A i \in DOMAIN jobs :
            /\ jobs[i].use = "search broadcast" => i = 1
            /\ jobs[i].use = "search" => i = 2 /\ jobs[1].use = "search broadcast"
      BY <1>3, StartJobs
    <3>2. {detecting.broadcast, detecting.host} \subseteq strays \cup {0}
      BY <1>6 DEF StartInv, OwnerInv
    <3> QED BY <1>4, <2>1, <3>1, <3>2 DEF StartInv, FirstJobs
  <2>3. CoverInv'
    <3>1. ASSUME NEW i \in DOMAIN cs, NEW use \in DataUses \cup CommandUses
          PROVE  IsTodo([use |-> use, cfg |-> cs[i]])'
      <4>1. PICK n \in DOMAIN Wanted(cs) : Wanted(cs)[n] = [use |-> use, cfg |-> cs[i]]
        BY <3>1, WantedCovers
      <4>2. PICK k \in DOMAIN jobs : jobs[k] = Wanted(cs)[n]
        BY <1>3, StartJobs
      <4> QED BY <2>1, <4>1, <4>2 DEF IsTodo
    <3> QED BY <1>4, <3>1 DEF CoverInv
  <2> QED BY <1>1, <1>7, <1>8, <1>9, <1>10, <2>2, <2>3 DEF StartInv
<1> QED BY <1>11, <1>12

LEMMA FoundKeeps ==
  ASSUME StartInv, ~broken, NEW l \in Answering, LidarFound(l)
  PROVE  StartInv'
<1>1. StartTypes'
  BY FoundKeepsTypes
<1>2. PICK cfg \in Entry :
           /\ l.type \in DOMAIN byType /\ (Fixed(byType[l.type]) => Fixed(cfg))
           /\ byIp' = Set(byIp, l.ip, cfg) /\ byType' = [byType EXCEPT ![l.type] = cfg]
           /\ customs' \in Seq(Entry) /\ toOpen' = [toOpen EXCEPT !["found"] = Wanted(customs')]
           /\ toOpen["found"] = <<>> /\ {detecting.broadcast, detecting.host} \cap open # {}
           /\ UNCHANGED <<sdkOn, phase, framework, cleaner, hostIp, sockets, search, stop, history>>
  BY FoundSteps
<1>3. PICK cs \in Seq(Entry) : cs = customs'
  BY <1>2
<1>4. toOpen'["found"] = Wanted(cs) /\ toOpen'["app"] = toOpen["app"]
  BY <1>2, <1>3 DEF StartInv, StartTypes
<1>5. ConfigInv'
  BY <1>2 DEF StartInv, ConfigInv, Set
<1>6. PhaseInv' /\ SearchInv'
  BY <1>2, <1>4 DEF StartInv, PhaseInv, SearchInv, history
<1>7. OwnerInv'
  <2>1. ~Off \/ failed
    BY <1>2 DEF StartInv, OwnerInv, StartTypes, StartTypeOK
  <2> QED BY <1>2, <2>1 DEF StartInv, OwnerInv, Off, sockets, history
<1>8. FirstJobs'
  <2>1. \A n \in DOMAIN Wanted(cs) : Wanted(cs)[n].use \notin {"search", "search broadcast"}
    BY WantedCovers
  <2> QED BY <1>2, <1>4, <2>1 DEF StartInv, FirstJobs, sockets, history
<1>9. ChannelInv'
  BY <1>2 DEF StartInv, ChannelInv, sockets, history
<1>10. CoverInv'
  <2>1. ASSUME NEW i \in DOMAIN cs, NEW use \in DataUses \cup CommandUses
        PROVE  IsTodo([use |-> use, cfg |-> cs[i]])'
    <3>1. PICK n \in DOMAIN Wanted(cs) : Wanted(cs)[n] = [use |-> use, cfg |-> cs[i]]
      BY <2>1, WantedCovers
    <3> QED BY <1>4, <3>1 DEF IsTodo
  <2> QED BY <1>3, <2>1 DEF CoverInv
<1> QED BY <1>1, <1>5, <1>6, <1>7, <1>8, <1>9, <1>10 DEF StartInv

LEMMA OthersKeep ==
  ASSUME StartInv, ~broken, StartSearch \/ StoreStop \/ Detection \/ SdkStop \/ SdkStopped
  PROVE  StartInv'
<1>1. StartTypes'
  BY OthersKeepTypes
<1>2. CASE StartSearch
  <2>1. /\ phase = "opening" /\ toOpen["app"] = <<>> /\ search' = "created" /\ phase' = "storing"
        /\ UNCHANGED <<sdkOn, configs, sockets, toOpen, stop, broken, history>>
    BY <1>2 DEF StartSearch
  <2>2. ConfigInv' /\ PhaseInv' /\ SearchInv'
    BY <2>1 DEF StartInv, ConfigInv, PhaseInv, SearchInv, configs, history
  <2>3. OwnerInv' /\ FirstJobs' /\ ChannelInv'
    BY <2>1 DEF StartInv, OwnerInv, FirstJobs, ChannelInv, Off, sockets, history
  <2>4. CoverInv'
    BY <2>1, StillCovered DEF sockets, history, configs
  <2> QED BY <1>1, <2>2, <2>3, <2>4 DEF StartInv
<1>3. CASE StoreStop
  <2>1. /\ phase = "storing" /\ stop' = FALSE /\ sdkOn' = TRUE /\ phase' = "idle"
        /\ UNCHANGED <<configs, sockets, toOpen, search, broken, history>>
    BY <1>3 DEF StoreStop
  <2>2. ConfigInv' /\ PhaseInv' /\ SearchInv'
    BY <2>1 DEF StartInv, ConfigInv, PhaseInv, SearchInv, configs, history
  <2>3. OwnerInv' /\ FirstJobs' /\ ChannelInv'
    BY <2>1 DEF StartInv, OwnerInv, FirstJobs, ChannelInv, Off, sockets, history
  <2>4. CoverInv'
    BY <2>1, StillCovered DEF sockets, history, configs
  <2> QED BY <1>1, <2>2, <2>3, <2>4 DEF StartInv
<1>4. CASE Detection
  <2>1. /\ search' = (IF stop THEN "ended" ELSE "running")
        /\ UNCHANGED <<sdkOn, phase, configs, sockets, toOpen, stop, broken, history>>
    BY <1>4 DEF Detection
  <2>2. ConfigInv' /\ PhaseInv' /\ SearchInv'
    BY <2>1 DEF StartInv, ConfigInv, PhaseInv, SearchInv, configs, history
  <2>3. OwnerInv' /\ FirstJobs' /\ ChannelInv'
    BY <2>1 DEF StartInv, OwnerInv, FirstJobs, ChannelInv, Off, sockets, history
  <2>4. CoverInv'
    BY <2>1, StillCovered DEF sockets, history, configs
  <2> QED BY <1>1, <2>2, <2>3, <2>4 DEF StartInv
<1>5. CASE SdkStop
  <2>1. /\ sdkOn /\ phase = "idle" /\ open' = open \ kept /\ kept' = {} /\ stop' = TRUE /\ phase' = "joining"
        /\ UNCHANGED <<sdkOn, customs, byIp, byType, detecting, channel, command, opened,
                        heard, toOpen, search, broken, history>>
    BY <1>5 DEF SdkStop
  <2>2. ConfigInv' /\ PhaseInv' /\ SearchInv'
    BY <2>1 DEF StartInv, ConfigInv, PhaseInv, SearchInv, history
  <2>3. OwnerInv' /\ FirstJobs' /\ ChannelInv'
    BY <2>1 DEF StartInv, OwnerInv, FirstJobs, ChannelInv, Off, history
  <2>4. CoverInv'
    BY <2>1 DEF CoverInv
  <2> QED BY <1>1, <2>2, <2>3, <2>4 DEF StartInv
<1>6. CASE SdkStopped
  <2>1. /\ phase = "joining" /\ open' = open \ {detecting.broadcast, detecting.host}
        /\ detecting'.broadcast = 0 /\ detecting'.host = 0 /\ search' = "none"
        /\ byIp' = <<>> /\ byType' = <<>> /\ channel' = <<>> /\ command' = <<>>
        /\ sdkOn' = FALSE /\ phase' = "idle" /\ failed' = FALSE /\ stopped' = TRUE
        /\ broken' = (toOpen["found"] # <<>>)
        /\ UNCHANGED <<kept, toOpen, stop, strays>>
    BY <1>6 DEF SdkStopped
  <2>2. DOMAIN byIp' = {} /\ DOMAIN byType' = {} /\ DOMAIN channel' = {} /\ DOMAIN command' = {}
    <3>1. DOMAIN <<>> = {}
      OBVIOUS
    <3> QED BY <2>1, <3>1
  <2>3. toOpen["app"] = <<>> /\ kept \subseteq strays
    BY <2>1 DEF StartInv, PhaseInv, OwnerInv
  <2>4. ConfigInv' /\ PhaseInv' /\ SearchInv'
    BY <2>1, <2>2, <2>3 DEF ConfigInv, PhaseInv, SearchInv
  <2>5. OwnerInv'
    BY <2>1, <2>2, <2>3 DEF StartInv, OwnerInv
  <2>6. FirstJobs'
    <3>1. DOMAIN toOpen["app"] = {}
      BY <2>3
    <3> QED BY <2>1, <3>1 DEF StartInv, FirstJobs
  <2>7. ChannelInv' /\ CoverInv'
    BY <2>1, <2>2 DEF ChannelInv, CoverInv
  <2> QED BY <1>1, <2>4, <2>5, <2>6, <2>7 DEF StartInv
<1> QED BY <1>2, <1>3, <1>4, <1>5, <1>6

LEMMA StutterKeeps ==
  ASSUME StartInv, UNCHANGED startVars
  PROVE  StartInv'
<1>1. StartTypes' /\ ConfigInv' /\ PhaseInv' /\ SearchInv'
  BY DEF startVars, configs, sockets, history, StartInv, StartTypes, StartTypeOK, ConfigInv, PhaseInv, SearchInv
<1>2. OwnerInv' /\ FirstJobs' /\ ChannelInv'
  BY DEF startVars, configs, sockets, history, StartInv, OwnerInv, FirstJobs, ChannelInv, Off
<1>3. CoverInv'
  BY StillCovered DEF startVars, configs, sockets, history
<1> QED BY <1>1, <1>2, <1>3 DEF StartInv

\* The inductive invariant of the SDK's start: what is still to be opened, what
\* is open and heard, and whose every socket is.
THEOREM StartInvariance == StartSpec => []StartInv
<1>1. StartInv /\ [StartNext]_startVars => StartInv'
  BY PassKeeps, OpenKeeps, RefusedKeeps, StartKeeps, FoundKeeps, OthersKeep, StutterKeeps DEF StartNext, Who
<1> QED BY InitInv, <1>1, PTL DEF StartSpec

\* Configurations, sockets, channels and the phase keep their types through any
\* number of starts, refusals and stops (LivoxLidarSdkInit, LivoxLidarSdkUninit).
THEOREM StartKeepsItsTypes == StartSpec => []StartTypeOK
<1>1. StartInv => StartTypeOK
  BY DEF StartInv, StartTypes
<1> QED BY StartInvariance, <1>1, PTL

\* Whatever the configuration file says: while the SDK runs, every port of a
\* configured lidar has an open socket a loop polls, unless a start failed
\* before; what a Mid-360 sends goes to the handler for it; after a stop no socket
\* is open but those a thread opened meanwhile; and the search of a first start
\* goes on until the stop (StartIsSound).
THEOREM StartsAreSound == StartSpec => []StartIsSound
<1>1. StartInv => PortsAreHeard
  <2>1. SUFFICES ASSUME StartInv, sdkOn, phase = "idle", ~broken, toOpen["found"] = <<>>, ~gap,
                        NEW i \in DOMAIN customs, NEW use \in DataUses \cup CommandUses,
                        NEW w, w = [use |-> use, cfg |-> customs[i]], IsNeeded(w)
                 PROVE  /\ KeyOf(w) \in DOMAIN channel /\ channel[KeyOf(w)] \in open
                        /\ use \in CommandUses => KeyOf(w) \in DOMAIN command /\ command[KeyOf(w)] \in open
                        /\ failed \/ channel[KeyOf(w)] \in heard
    BY DEF PortsAreHeard
  <2>2. DOMAIN toOpen["found"] = {} /\ DOMAIN toOpen["app"] = {}
    BY <2>1 DEF StartInv, PhaseInv
  <2>3. Ready(w)
    BY <2>1, <2>2 DEF StartInv, CoverInv, IsTodo
  <2> QED BY <2>1, <2>3 DEF StartInv, ChannelInv, Ready
<1>2. StartInv => PortsAreRouted
  BY DEF StartInv, ConfigInv, Fixed, PortsAreRouted, HandlerOf, Mid360Port
<1>3. StartInv => NothingStaysOpen
  BY DEF StartInv, StartTypes, StartTypeOK, OwnerInv, Off, NothingStaysOpen
<1>4. StartInv => SearchGoesOn
  BY DEF StartInv, SearchInv, SearchGoesOn
<1> QED BY StartInvariance, <1>1, <1>2, <1>3, <1>4, PTL DEF StartIsSound
=============================================================================
