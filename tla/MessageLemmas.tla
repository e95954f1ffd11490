--------------------------- MODULE MessageLemmas ----------------------------
(***************************************************************************)
(* Servers that tell each other one thing, each every other once:          *)
(* SERVER_READY when they start (ServerStartup), SERVER_DISCONNECT when    *)
(* they stop (ServerLifecycle).  Each server counts those that it has not  *)
(* heard from.  The lemmas say which changes of the channels, and of the   *)
(* messages that reschedule puts aside, keep the counters right.           *)
(*                                                                         *)
(* The other lemmas count the messages of a kind in a sequence.            *)
(*                                                                         *)
(* V are the servers and d is the message, N[r][s] the channel from r to   *)
(* s, F[s] what s has put aside, P[s] the counter of s, and L[r] are the   *)
(* servers that r has yet to tell.                                         *)
(***************************************************************************)
EXTENDS Naturals, Sequences, FiniteSets, SequencesExt, FiniteSetTheorems,
        FunctionTheorems, SequenceTheorems, TLAPS

-----------------------------------------------------------------------------
\* Sequences of any kind, and a message that may be in them

IsSeq(q) == \E S : q \in Seq(S)

\* The message is in the sequence once at most
Once(q, m) ==
    \A i, j \in 1 .. Len(q) : q[i] = m /\ q[j] = m => i = j

\* Appending extends a sequence by its last element.
LEMMA AppendSeq ==
  ASSUME NEW q, IsSeq(q), NEW m
  PROVE  /\ IsSeq(Append(q, m))
         /\ Len(q) \in Nat
         /\ Len(Append(q, m)) = Len(q) + 1
         /\ Append(q, m)[Len(q) + 1] = m
         /\ \A i \in 1 .. Len(q) : Append(q, m)[i] = q[i]
<1>1. PICK S : q \in Seq(S)
  BY DEF IsSeq
<1> DEFINE T == S \cup {m}
<1>2. q \in Seq(T)
  BY <1>1
<1>3. m \in T
  OBVIOUS
<1> HIDE DEF T
<1>4. Append(q, m) \in Seq(T)
  BY <1>2, <1>3
<1>5. IsSeq(Append(q, m))
  BY <1>4 DEF IsSeq
<1> QED BY <1>2, <1>3, <1>5

\* The tail of a sequence has the elements after the first.
LEMMA TailSeq ==
  ASSUME NEW q, IsSeq(q), q # <<>>
  PROVE  /\ IsSeq(Tail(q))
         /\ Len(q) \in Nat /\ Len(q) > 0
         /\ Len(Tail(q)) = Len(q) - 1
         /\ Head(q) = q[1]
         /\ \A i \in 1 .. Len(q) - 1 : Tail(q)[i] = q[i + 1]
<1>1. PICK S : q \in Seq(S)
  BY DEF IsSeq
<1>2. Tail(q) \in Seq(S)
  BY <1>1
<1>3. IsSeq(Tail(q))
  BY <1>2 DEF IsSeq
<1>4. Len(q) \in Nat /\ Len(q) > 0
  BY <1>1
<1>5. Len(Tail(q)) = Len(q) - 1
  BY <1>1
<1>6. \A i \in 1 .. Len(q) - 1 : Tail(q)[i] = q[i + 1]
  BY <1>1, <1>4
<1> QED BY <1>1, <1>3, <1>4, <1>5, <1>6

\* Appending another message does not matter to the one looked for.
LEMMA AppendOther ==
  ASSUME NEW q, IsSeq(q), NEW m, NEW d, m # d
  PROVE  /\ Contains(Append(q, m), d) <=> Contains(q, d)
         /\ Once(q, d) => Once(Append(q, m), d)
<1> DEFINE a == Append(q, m)
           n == Len(q)
<1>1. /\ n \in Nat
      /\ Len(a) = n + 1
      /\ a[n + 1] = m
      /\ \A i \in 1 .. n : a[i] = q[i]
  BY AppendSeq
<1>2. \A i \in 1 .. n + 1 : a[i] = d => i \in 1 .. n
  <2> TAKE i \in 1 .. n + 1
  <2> HAVE a[i] = d
  <2>1. i # n + 1
    BY <1>1
  <2> HIDE DEF a, n
  <2> QED BY <1>1, <2>1
<1>3. \A i \in 1 .. n : i \in 1 .. n + 1
  BY <1>1
<1>4. Contains(a, d) <=> Contains(q, d)
  <2> HIDE DEF a
  <2> QED BY <1>1, <1>2, <1>3 DEF Contains
<1>5. ASSUME Once(q, d)
      PROVE  Once(a, d)
  <2> HIDE DEF a
  <2> QED BY <1>1, <1>2, <1>5 DEF Once
<1> QED BY <1>4, <1>5

\* A message that is not in the sequence is in it once when it was appended.
LEMMA AppendThis ==
  ASSUME NEW q, IsSeq(q), NEW d, ~Contains(q, d)
  PROVE  Contains(Append(q, d), d) /\ Once(Append(q, d), d)
<1> DEFINE a == Append(q, d)
           n == Len(q)
<1>1. /\ n \in Nat
      /\ Len(a) = n + 1
      /\ a[n + 1] = d
      /\ \A i \in 1 .. n : a[i] = q[i]
  BY AppendSeq
<1>2. \A i \in 1 .. n : q[i] # d
  BY DEF Contains
<1>3. n + 1 \in 1 .. n + 1
  BY <1>1
<1>4. \A i \in 1 .. n + 1 : i = n + 1 \/ i \in 1 .. n
  BY <1>1
<1> HIDE DEF a, n
<1>5. Contains(a, d)
  BY <1>1, <1>3 DEF Contains
<1>6. \A i \in 1 .. n + 1 : a[i] = d => i = n + 1
  BY <1>1, <1>2, <1>4
<1>7. Once(a, d)
  BY <1>1, <1>6 DEF Once
<1> QED BY <1>5, <1>7 DEF a

\* Taking another message from the front does not matter either.
LEMMA TailOther ==
  ASSUME NEW q, IsSeq(q), q # <<>>, NEW d, Head(q) # d
  PROVE  /\ Contains(Tail(q), d) <=> Contains(q, d)
         /\ Once(q, d) => Once(Tail(q), d)
<1> DEFINE t == Tail(q)
           n == Len(q)
<1>1. /\ n \in Nat /\ n > 0
      /\ Len(t) = n - 1
      /\ Head(q) = q[1]
      /\ \A i \in 1 .. n - 1 : t[i] = q[i + 1]
  BY TailSeq
<1>2. \A i \in 1 .. n - 1 : i + 1 \in 1 .. n /\ i \in Nat
  BY <1>1
<1>3. \A i \in 1 .. n : q[i] = d => /\ i - 1 \in 1 .. n - 1
                                    /\ (i - 1) + 1 = i
  <2> TAKE i \in 1 .. n
  <2> HAVE q[i] = d
  <2>1. i # 1
    BY <1>1
  <2> HIDE DEF n
  <2> QED BY <1>1, <2>1
<1> HIDE DEF t, n
<1>4. Contains(t, d) => Contains(q, d)
  BY <1>1, <1>2 DEF Contains, n
<1>5. Contains(q, d) => Contains(t, d)
  <2> SUFFICES ASSUME Contains(q, d) PROVE Contains(t, d)
    OBVIOUS
  <2>1. PICK i \in 1 .. n : q[i] = d
    BY DEF Contains, n
  <2>2. t[i - 1] = d
    BY <1>1, <1>3, <2>1
  <2> QED BY <1>1, <1>3, <2>1, <2>2 DEF Contains
<1>6. ASSUME Once(q, d)
      PROVE  Once(t, d)
  <2> SUFFICES ASSUME NEW i \in 1 .. n - 1, NEW j \in 1 .. n - 1, t[i] = d, t[j] = d
               PROVE  i = j
    BY <1>1 DEF Once
  <2>1. q[i + 1] = d /\ q[j + 1] = d
    BY <1>1
  <2>2. i + 1 = j + 1
    BY <1>2, <1>6, <2>1 DEF Once, n
  <2> QED BY <1>2, <2>2
<1> QED BY <1>4, <1>5, <1>6 DEF t

\* Taking the only one from the front leaves none.
LEMMA TailThis ==
  ASSUME NEW q, IsSeq(q), q # <<>>, Once(q, Head(q))
  PROVE  /\ Contains(q, Head(q))
         /\ ~Contains(Tail(q), Head(q))
         /\ Once(Tail(q), Head(q))
<1> DEFINE t == Tail(q)
           n == Len(q)
           d == Head(q)
<1>1. /\ n \in Nat /\ n > 0
      /\ Len(t) = n - 1
      /\ d = q[1]
      /\ \A i \in 1 .. n - 1 : t[i] = q[i + 1]
  BY TailSeq
<1>2. 1 \in 1 .. n
  BY <1>1
<1>3. \A i \in 1 .. n - 1 : i + 1 \in 1 .. n /\ i + 1 # 1
  BY <1>1
<1>4. Once(q, d)
  OBVIOUS
<1> HIDE DEF t, n, d
<1>5. \A i \in 1 .. n - 1 : t[i] # d
  BY <1>1, <1>2, <1>3, <1>4 DEF Once, n
<1>6. Contains(q, d)
  BY <1>1, <1>2 DEF Contains, n
<1>7. ~Contains(t, d) /\ Once(t, d)
  BY <1>1, <1>5 DEF Contains, Once
<1> QED BY <1>6, <1>7 DEF t, d

-----------------------------------------------------------------------------
\* The announcements of all servers

Aside(d, r) == [msg |-> d, from |-> r]

Told(d, N, F, r, s) ==
    Contains(N[r][s], d) \/ Contains(F[s], Aside(d, r))

\* r tells s once: it has yet to, or it has told it, or s has heard it
TellsOnce(d, N, L, F, r, s) ==
    /\ s \in L[r] => ~Told(d, N, F, r, s)
    /\ ~(Contains(N[r][s], d) /\ Contains(F[s], Aside(d, r)))
    /\ Once(N[r][s], d)
    /\ Once(F[s], Aside(d, r))

Expected(V, d, N, L, F, s) ==
    {r \in V \ {s} : s \in L[r] \/ Told(d, N, F, r, s)}

NetType(V, N)      == \E S : N \in [V -> [V -> Seq(S)]]
DeferredType(V, F) == \E S : F \in [V -> Seq([msg : S, from : V])]

MailTypes(V, N, L, F, P) ==
    /\ NetType(V, N)
    /\ DeferredType(V, F)
    /\ L \in [V -> SUBSET V]
    /\ P \in [V -> Nat]

AllTellOnce(V, d, N, L, F) ==
    /\ \A r, s \in V : TellsOnce(d, N, L, F, r, s)
    /\ \A s \in V : s \notin L[s] /\ ~Told(d, N, F, s, s)

AllCount(V, d, N, L, F, P) ==
    \A s \in V : P[s] = Cardinality(Expected(V, d, N, L, F, s))

Announced(V, d, N, L, F, P) ==
    /\ MailTypes(V, N, L, F, P)
    /\ AllTellOnce(V, d, N, L, F)
    /\ AllCount(V, d, N, L, F, P)

LEMMA ChannelSeq ==
  ASSUME NEW V, NEW d, NEW N, NetType(V, N)
  PROVE  \A r, s \in V : IsSeq(N[r][s])
BY DEF NetType, IsSeq

LEMMA AsideSeq ==
  ASSUME NEW V, NEW d, NEW F, DeferredType(V, F)
  PROVE  \A s \in V : IsSeq(F[s])
<1>1. PICK S : F \in [V -> Seq([msg : S, from : V])]
  BY DEF DeferredType
<1> DEFINE T == [msg : S, from : V]
<1> HIDE DEF T
<1>2. F \in [V -> Seq(T)]
  BY <1>1 DEF T
<1> QED BY <1>2 DEF IsSeq

\* As long as the same servers have told it, the counters are right.
LEMMA SameExpected ==
  ASSUME NEW V, NEW d, NEW N, NEW L, NEW F, NEW P, Announced(V, d, N, L, F, P),
         NEW M, NEW G, NetType(V, M), DeferredType(V, G),
         \A r, s \in V : /\ Told(d, M, G, r, s) <=> Told(d, N, F, r, s)
                         /\ TellsOnce(d, M, L, G, r, s)
  PROVE  Announced(V, d, M, L, G, P)
<1>1. MailTypes(V, M, L, G, P)
  BY DEF Announced, MailTypes
<1>2. AllTellOnce(V, d, M, L, G)
  BY DEF Announced, AllTellOnce
<1>3. \A s \in V : Expected(V, d, M, L, G, s) = Expected(V, d, N, L, F, s)
  BY DEF Expected
<1>4. AllCount(V, d, M, L, G, P)
  BY <1>3 DEF Announced, AllCount
<1> QED BY <1>1, <1>2, <1>4 DEF Announced

\* A server that has been told by r counts one less.
LEMMA LastWord ==
  ASSUME NEW V, IsFiniteSet(V), NEW d,
         NEW N, NEW L, NEW F, NEW P, Announced(V, d, N, L, F, P),
         NEW M, NEW G, NetType(V, M), DeferredType(V, G),
         NEW r \in V, NEW s \in V, Told(d, N, F, r, s), ~Told(d, M, G, r, s),
         TellsOnce(d, M, L, G, r, s),
         \A x, y \in V : x # r \/ y # s =>
            /\ Told(d, M, G, x, y) <=> Told(d, N, F, x, y)
            /\ TellsOnce(d, M, L, G, x, y)
  PROVE  Announced(V, d, M, L, G, [P EXCEPT ![s] = @ - 1])
<1> DEFINE C == Expected(V, d, N, L, F, s)
           Q == [P EXCEPT ![s] = @ - 1]
<1>1. r # s
  BY DEF Announced, AllTellOnce
<1>2. s \notin L[r]
  BY DEF Announced, AllTellOnce, TellsOnce
<1>3. Expected(V, d, M, L, G, s) = C \ {r}
  BY <1>2 DEF Expected
<1>4. \A y \in V \ {s} : Expected(V, d, M, L, G, y) = Expected(V, d, N, L, F, y)
  BY DEF Expected
<1>5. C \in SUBSET V /\ r \in C
  BY <1>1 DEF Expected
<1> HIDE DEF C
<1>6. IsFiniteSet(C)
  BY <1>5, FS_Subset
<1>7. Cardinality(C \ {r}) = Cardinality(C) - 1
  BY <1>5, <1>6, FS_RemoveElement
<1>8. Cardinality(C \ {r}) \in Nat
  BY <1>6, FS_RemoveElement, FS_CardinalityType
<1>9. P \in [V -> Nat]
  BY DEF Announced, MailTypes
<1>10. P[s] = Cardinality(C)
  BY DEF Announced, AllCount, C
<1>11. Q \in [V -> Nat]
  BY <1>7, <1>8, <1>9, <1>10
<1>12. MailTypes(V, M, L, G, Q)
  BY <1>11 DEF Announced, MailTypes
<1>13. AllTellOnce(V, d, M, L, G)
  <2>1. \A x, y \in V : TellsOnce(d, M, L, G, x, y)
    OBVIOUS
  <2>2. \A x \in V : x \notin L[x] /\ ~Told(d, M, G, x, x)
    BY <1>1 DEF Announced, AllTellOnce
  <2> QED BY <2>1, <2>2 DEF AllTellOnce
<1>14. AllCount(V, d, M, L, G, Q)
  <2> SUFFICES ASSUME NEW y \in V PROVE Q[y] = Cardinality(Expected(V, d, M, L, G, y))
    BY DEF AllCount
  <2>1. CASE y = s
    BY <2>1, <1>3, <1>7, <1>9, <1>10
  <2>2. CASE y # s
    BY <2>2, <1>4, <1>9 DEF Announced, AllCount
  <2> QED BY <2>1, <2>2
<1> QED BY <1>12, <1>13, <1>14 DEF Announced


\* Channels M are channels N, but for messages other than d
Quiet(V, d, N, M) ==
    /\ NetType(V, M)
    /\ \A r, s \in V :
         /\ Contains(M[r][s], d) <=> Contains(N[r][s], d)
         /\ Once(N[r][s], d) => Once(M[r][s], d)

LEMMA SendQuiet ==
  ASSUME NEW V, NEW d, NEW N, NetType(V, N), NEW s \in V, NEW x, NEW m, m # d
  PROVE  Quiet(V, d, N, [N EXCEPT ![s][x] = Append(@, m)])
<1> DEFINE M == [N EXCEPT ![s][x] = Append(@, m)]
<1>1. PICK S : N \in [V -> [V -> Seq(S)]]
  BY DEF NetType
<1> DEFINE T == S \cup {m}
<1>2. m \in T /\ \A q \in Seq(S) : q \in Seq(T)
  OBVIOUS
<1> HIDE DEF T
<1>3. N \in [V -> [V -> Seq(T)]]
  BY <1>1, <1>2
<1>4. M \in [V -> [V -> Seq(T)]]
  <2>1. CASE x \in V
    <3>1. Append(N[s][x], m) \in Seq(T)
      BY <1>2, <1>3, <2>1
    <3> QED BY <1>3, <3>1
  <2>2. CASE x \notin V
    <3>1. [N[s] EXCEPT ![x] = Append(@, m)] = N[s]
      BY <1>3, <2>2
    <3> QED BY <1>3, <3>1
  <2> QED BY <2>1, <2>2
<1>5. NetType(V, M)
  BY <1>4 DEF NetType
<1>6. ASSUME NEW r \in V, NEW y \in V
      PROVE  M[r][y] = N[r][y] \/ M[r][y] = Append(N[r][y], m)
  BY <1>3
<1>7. ASSUME NEW r \in V, NEW y \in V
      PROVE  /\ Contains(M[r][y], d) <=> Contains(N[r][y], d)
             /\ Once(N[r][y], d) => Once(M[r][y], d)
  <2>1. IsSeq(N[r][y])
    BY ChannelSeq
  <2>2. CASE M[r][y] = N[r][y]
    BY <2>2
  <2>3. CASE M[r][y] = Append(N[r][y], m)
    <3>1. /\ Contains(Append(N[r][y], m), d) <=> Contains(N[r][y], d)
          /\ Once(N[r][y], d) => Once(Append(N[r][y], m), d)
      BY <2>1, AppendOther, Zenon
    <3> HIDE DEF M
    <3> QED BY <2>3, <3>1
  <2> QED BY <1>6, <2>2, <2>3
<1> QED BY <1>5, <1>7 DEF Quiet

\* What is quiet announces nothing and loses no announcement.
LEMMA QuietAnnounced ==
  ASSUME NEW V, NEW d, NEW N, NEW L, NEW F, NEW P, Announced(V, d, N, L, F, P), NEW M, Quiet(V, d, N, M)
  PROVE  Announced(V, d, M, L, F, P)
<1>1. DeferredType(V, F) /\ NetType(V, M)
  BY DEF Announced, MailTypes, Quiet
<1>2. \A r, s \in V : /\ Told(d, M, F, r, s) <=> Told(d, N, F, r, s)
                      /\ TellsOnce(d, M, L, F, r, s)
  BY DEF Announced, AllTellOnce, TellsOnce, Told, Quiet
<1> QED BY <1>1, <1>2, SameExpected


-----------------------------------------------------------------------------
\* What the servers receive

LEMMA TakeType ==
  ASSUME NEW V, NEW d, NEW N, NetType(V, N), NEW r \in V, NEW s \in V, N[r][s] # <<>>
  PROVE  NetType(V, [N EXCEPT ![r][s] = Tail(@)])
<1>1. PICK S : N \in [V -> [V -> Seq(S)]]
  BY DEF NetType
<1>2. Tail(N[r][s]) \in Seq(S)
  BY <1>1
<1>3. [N EXCEPT ![r][s] = Tail(@)] \in [V -> [V -> Seq(S)]]
  BY <1>1, <1>2
<1> QED BY <1>3 DEF NetType

\* Receiving another message is quiet.
LEMMA TakeQuiet ==
  ASSUME NEW V, NEW d, NEW N, NetType(V, N), NEW r \in V, NEW s \in V, N[r][s] # <<>>,
         Head(N[r][s]) # d
  PROVE  Quiet(V, d, N, [N EXCEPT ![r][s] = Tail(@)])
<1> DEFINE M == [N EXCEPT ![r][s] = Tail(@)]
<1>1. NetType(V, M)
  BY TakeType
<1>2. ASSUME NEW x \in V, NEW y \in V
      PROVE  \/ M[x][y] = N[x][y]
             \/ x = r /\ y = s /\ M[x][y] = Tail(N[x][y])
  BY DEF NetType
<1>3. ASSUME NEW x \in V, NEW y \in V
      PROVE  /\ Contains(M[x][y], d) <=> Contains(N[x][y], d)
             /\ Once(N[x][y], d) => Once(M[x][y], d)
  <2>1. IsSeq(N[x][y])
    BY ChannelSeq
  <2> HIDE DEF M
  <2> QED BY <1>2, <2>1, TailOther
<1> QED BY <1>1, <1>3 DEF Quiet

LEMMA QuietTwice ==
  ASSUME NEW V, NEW d, NEW N, NEW M, NEW K, Quiet(V, d, N, M), Quiet(V, d, M, K)
  PROVE  Quiet(V, d, N, K)
BY DEF Quiet

\* The announcement received is the last word of its sender.
LEMMA TakeLastWord ==
  ASSUME NEW V, IsFiniteSet(V), NEW d,
         NEW N, NEW L, NEW F, NEW P, Announced(V, d, N, L, F, P),
         NEW r \in V, NEW s \in V, N[r][s] # <<>>,
         Head(N[r][s]) = d
  PROVE  Announced(V, d, [N EXCEPT ![r][s] = Tail(@)], L, F, [P EXCEPT ![s] = @ - 1])
<1> DEFINE M == [N EXCEPT ![r][s] = Tail(@)]
<1>1. NetType(V, N) /\ DeferredType(V, F)
  BY DEF Announced, MailTypes
<1>2. NetType(V, M)
  BY <1>1, TakeType
<1>3. M[r][s] = Tail(N[r][s])
  BY <1>1 DEF NetType
<1>4. \A x, y \in V : x # r \/ y # s => M[x][y] = N[x][y]
  BY <1>1 DEF NetType
<1>5. TellsOnce(d, N, L, F, r, s)
  BY DEF Announced, AllTellOnce
<1>6. /\ Contains(N[r][s], d)
      /\ ~Contains(Tail(N[r][s]), d)
      /\ Once(Tail(N[r][s]), d)
  <2>1. IsSeq(N[r][s]) /\ Once(N[r][s], d)
    BY <1>1, <1>5, ChannelSeq DEF TellsOnce
  <2> QED BY <2>1, TailThis
<1> HIDE DEF M
<1>7. Told(d, N, F, r, s) /\ ~Told(d, M, F, r, s)
  BY <1>3, <1>5, <1>6 DEF Told, TellsOnce
<1>8. TellsOnce(d, M, L, F, r, s)
  BY <1>3, <1>5, <1>6 DEF Told, TellsOnce
<1>9. \A x, y \in V : x # r \/ y # s =>
         /\ Told(d, M, F, x, y) <=> Told(d, N, F, x, y)
         /\ TellsOnce(d, M, L, F, x, y)
  BY <1>4 DEF Announced, AllTellOnce, TellsOnce, Told
<1>10. Announced(V, d, M, L, F, [P EXCEPT ![s] = @ - 1])
  BY <1>1, <1>2, <1>7, <1>8, <1>9, LastWord
<1> QED BY <1>10 DEF M

LEMMA AsideType ==
  ASSUME NEW V, NEW d, NEW F, DeferredType(V, F), NEW s \in V, F[s] # <<>>
  PROVE  /\ DeferredType(V, [F EXCEPT ![s] = Tail(@)])
         /\ Head(F[s]).from \in V
         /\ Head(F[s]) = [msg |-> Head(F[s]).msg, from |-> Head(F[s]).from]
<1>1. PICK S : F \in [V -> Seq([msg : S, from : V])]
  BY DEF DeferredType
<1> DEFINE T == [msg : S, from : V]
<1>2. Head(F[s]) \in T /\ Tail(F[s]) \in Seq(T)
  <2> HIDE DEF T
  <2>1. F \in [V -> Seq(T)]
    BY <1>1 DEF T
  <2> QED BY <2>1
<1>3. [F EXCEPT ![s] = Tail(@)] \in [V -> Seq(T)]
  BY <1>1, <1>2
<1>4. DeferredType(V, [F EXCEPT ![s] = Tail(@)])
  BY <1>3 DEF DeferredType
<1>5. Head(F[s]) \in T
  BY <1>2
<1>6. \A e \in T : e.from \in V /\ e = [msg |-> e.msg, from |-> e.from]
  OBVIOUS
<1> QED BY <1>4, <1>5, <1>6

\* What was put aside under another message or server is another entry.
LEMMA AsideFrom ==
  ASSUME NEW V, NEW d, NEW r, NEW m, NEW x
  PROVE  [msg |-> m, from |-> r] = Aside(d, x) <=> m = d /\ r = x
<1> DEFINE e == [msg |-> m, from |-> r]
           a == [msg |-> d, from |-> x]
<1>1. e.msg = m /\ e.from = r /\ a.msg = d /\ a.from = x
  OBVIOUS
<1>2. e = a => m = d /\ r = x
  <2> HIDE DEF e, a
  <2> QED BY <1>1
<1> QED BY <1>2 DEF Aside

\* Another message taken from those put aside does not matter.
LEMMA ResumeQuiet ==
  ASSUME NEW V, NEW d, NEW N, NEW L, NEW F, NEW P, Announced(V, d, N, L, F, P), NEW s \in V, F[s] # <<>>,
         Head(F[s]).msg # d
  PROVE  Announced(V, d, N, L, [F EXCEPT ![s] = Tail(@)], P)
<1> DEFINE G == [F EXCEPT ![s] = Tail(@)]
<1>1. NetType(V, N) /\ DeferredType(V, F)
  BY DEF Announced, MailTypes
<1>2. DeferredType(V, G)
  BY <1>1, AsideType
<1>3. \A y \in V : G[y] = F[y] \/ (y = s /\ G[y] = Tail(F[y]))
  BY <1>1 DEF DeferredType
<1>4. \A x : Head(F[s]) # Aside(d, x)
  BY <1>1, AsideType, AsideFrom
<1>5. \A x, y \in V : /\ Contains(G[y], Aside(d, x)) <=> Contains(F[y], Aside(d, x))
                      /\ Once(F[y], Aside(d, x)) => Once(G[y], Aside(d, x))
  <2> SUFFICES ASSUME NEW x \in V, NEW y \in V
               PROVE  /\ Contains(G[y], Aside(d, x)) <=> Contains(F[y], Aside(d, x))
                      /\ Once(F[y], Aside(d, x)) => Once(G[y], Aside(d, x))
    OBVIOUS
  <2>1. IsSeq(F[y])
    BY <1>1, AsideSeq
  <2>2. CASE G[y] = F[y]
    BY <2>2
  <2>3. CASE y = s /\ G[y] = Tail(F[y])
    <3>1. /\ Contains(Tail(F[s]), Aside(d, x)) <=> Contains(F[s], Aside(d, x))
          /\ Once(F[s], Aside(d, x)) => Once(Tail(F[s]), Aside(d, x))
      BY <1>4, <2>1, <2>3, TailOther
    <3> HIDE DEF G
    <3> QED BY <2>3, <3>1
  <2> QED BY <1>3, <2>2, <2>3
<1> HIDE DEF G
<1>6. \A x, y \in V : /\ Told(d, N, G, x, y) <=> Told(d, N, F, x, y)
                      /\ TellsOnce(d, N, L, G, x, y)
  BY <1>5 DEF Announced, AllTellOnce, TellsOnce, Told
<1> QED BY <1>1, <1>2, <1>6, SameExpected DEF G

\* The announcement that was put aside is the last word of its sender.
LEMMA ResumeLastWord ==
  ASSUME NEW V, IsFiniteSet(V), NEW d,
         NEW N, NEW L, NEW F, NEW P, Announced(V, d, N, L, F, P), NEW s \in V, F[s] # <<>>,
         Head(F[s]).msg = d
  PROVE  Announced(V, d, N, L, [F EXCEPT ![s] = Tail(@)], [P EXCEPT ![s] = @ - 1])
<1> DEFINE G == [F EXCEPT ![s] = Tail(@)]
           r == Head(F[s]).from
<1>1. NetType(V, N) /\ DeferredType(V, F)
  BY DEF Announced, MailTypes
<1>2. DeferredType(V, G) /\ r \in V /\ Head(F[s]) = Aside(d, r)
  BY <1>1, AsideType DEF Aside
<1>3. G[s] = Tail(F[s]) /\ \A y \in V \ {s} : G[y] = F[y]
  BY <1>1 DEF DeferredType
<1>4. \A x, y \in V : TellsOnce(d, N, L, F, x, y)
  BY DEF Announced, AllTellOnce
<1>5. IsSeq(F[s])
  BY <1>1, AsideSeq
<1> HIDE DEF G, r
<1>6. /\ Contains(F[s], Aside(d, r))
      /\ ~Contains(Tail(F[s]), Aside(d, r))
      /\ Once(Tail(F[s]), Aside(d, r))
  <2>1. Once(F[s], Head(F[s]))
    BY <1>2, <1>4 DEF TellsOnce
  <2> QED BY <1>2, <1>5, <2>1, TailThis
<1>7. Told(d, N, F, r, s) /\ ~Told(d, N, G, r, s) /\ TellsOnce(d, N, L, G, r, s)
  BY <1>2, <1>3, <1>4, <1>6 DEF Told, TellsOnce
<1>8. ASSUME NEW x \in V, NEW y \in V, x # r \/ y # s
      PROVE  /\ Told(d, N, G, x, y) <=> Told(d, N, F, x, y)
             /\ TellsOnce(d, N, L, G, x, y)
  <2>1. CASE y # s
    BY <1>3, <1>4, <2>1 DEF TellsOnce, Told
  <2>2. CASE y = s /\ x # r
    <3>1. Head(F[s]) # Aside(d, x)
      BY <1>2, <2>2, AsideFrom DEF Aside
    <3>2. /\ Contains(Tail(F[s]), Aside(d, x)) <=> Contains(F[s], Aside(d, x))
          /\ Once(F[s], Aside(d, x)) => Once(Tail(F[s]), Aside(d, x))
      BY <1>5, <3>1, TailOther
    <3> QED BY <1>3, <1>4, <2>2, <3>2 DEF TellsOnce, Told
  <2> QED BY <1>8, <2>1, <2>2
<1>9. Announced(V, d, N, L, G, [P EXCEPT ![s] = @ - 1])
  BY <1>1, <1>2, <1>7, <1>8, LastWord
<1> QED BY <1>9 DEF G

\* Whatever a server puts aside while it waits, it still was told by the same.
LEMMA PutAside ==
  ASSUME NEW V, NEW d, NEW N, NEW L, NEW F, NEW P, Announced(V, d, N, L, F, P),
         NEW r \in V, NEW s \in V, N[r][s] # <<>>
  PROVE  Announced(V, d, [N EXCEPT ![r][s] = Tail(@)], L,
              [F EXCEPT ![s] = Append(@, [msg |-> Head(N[r][s]), from |-> r])], P)
<1> DEFINE m == Head(N[r][s])
           e == [msg |-> m, from |-> r]
           M == [N EXCEPT ![r][s] = Tail(@)]
           G == [F EXCEPT ![s] = Append(@, e)]
<1>1. NetType(V, N) /\ DeferredType(V, F) /\ NetType(V, M)
  BY TakeType DEF Announced, MailTypes
<1>2. DeferredType(V, G)
  <2>1. PICK S : F \in [V -> Seq([msg : S, from : V])]
    BY <1>1 DEF DeferredType
  <2> DEFINE T == [msg : S \cup {m}, from : V]
             U == [msg : S, from : V]
  <2>2. e \in T
    OBVIOUS
  <2>3. \A u \in U : u \in T
    OBVIOUS
  <2> HIDE DEF T, U, e
  <2>4. F \in [V -> Seq(U)]
    BY <2>1 DEF U
  <2>5. F \in [V -> Seq(T)]
    <3>1. \A q \in Seq(U) : q \in Seq(T)
      BY <2>3
    <3> QED BY <2>4, <3>1
  <2>6. G \in [V -> Seq(T)]
    BY <2>2, <2>5
  <2> QED BY <2>6 DEF DeferredType, T
<1>3. /\ M[r][s] = Tail(N[r][s])
      /\ \A x, y \in V : x # r \/ y # s => M[x][y] = N[x][y]
  BY <1>1 DEF NetType
<1>4. G[s] = Append(F[s], e) /\ \A y \in V \ {s} : G[y] = F[y]
  BY <1>1 DEF DeferredType
<1>5. \A x, y \in V : TellsOnce(d, N, L, F, x, y)
  BY DEF Announced, AllTellOnce
<1>6. IsSeq(F[s]) /\ IsSeq(N[r][s])
  BY <1>1, AsideSeq, ChannelSeq
<1>7. \A x : e = Aside(d, x) <=> m = d /\ r = x
  BY AsideFrom
<1> HIDE DEF M, G, e, m
<1>8. ASSUME NEW x \in V, NEW y \in V
      PROVE  /\ Told(d, M, G, x, y) <=> Told(d, N, F, x, y)
             /\ TellsOnce(d, M, L, G, x, y)
  <2>1. CASE y # s
    BY <1>3, <1>4, <1>5, <2>1 DEF TellsOnce, Told
  <2>2. CASE y = s /\ x # r
    <3>1. /\ Contains(Append(F[s], e), Aside(d, x)) <=> Contains(F[s], Aside(d, x))
          /\ Once(F[s], Aside(d, x)) => Once(Append(F[s], e), Aside(d, x))
      BY <1>6, <1>7, <2>2, AppendOther
    <3> QED BY <1>3, <1>4, <1>5, <2>2, <3>1 DEF TellsOnce, Told
  <2>3. CASE y = s /\ x = r /\ m # d
    <3>1. /\ Contains(Append(F[s], e), Aside(d, r)) <=> Contains(F[s], Aside(d, r))
          /\ Once(F[s], Aside(d, r)) => Once(Append(F[s], e), Aside(d, r))
      BY <1>6, <1>7, <2>3, AppendOther
    <3>2. /\ Contains(Tail(N[r][s]), d) <=> Contains(N[r][s], d)
          /\ Once(N[r][s], d) => Once(Tail(N[r][s]), d)
      BY <1>6, <2>3, TailOther DEF m
    <3> QED BY <1>3, <1>4, <1>5, <2>3, <3>1, <3>2 DEF TellsOnce, Told
  <2>4. CASE y = s /\ x = r /\ m = d
    <3>1. TellsOnce(d, N, L, F, r, s)
      BY <1>5
    <3>2. /\ Contains(N[r][s], d)
          /\ ~Contains(Tail(N[r][s]), d)
          /\ Once(Tail(N[r][s]), d)
      BY <1>6, <2>4, <3>1, TailThis DEF m, TellsOnce
    <3>3. ~Contains(F[s], Aside(d, r)) /\ s \notin L[r]
      BY <3>1, <3>2 DEF TellsOnce, Told
    <3>4. e = Aside(d, r)
      BY <1>7, <2>4
    <3>5. Contains(Append(F[s], e), Aside(d, r)) /\ Once(Append(F[s], e), Aside(d, r))
      BY <1>6, <3>3, <3>4, AppendThis
    <3> QED BY <1>3, <1>4, <2>4, <3>2, <3>3, <3>5 DEF TellsOnce, Told
  <2> QED BY <2>1, <2>2, <2>3, <2>4
<1> QED BY <1>1, <1>2, <1>8, SameExpected DEF M, G, e, m

\* A server that tells all it has yet to tell is expected by the same ones.
LEMMA TellAll ==
  ASSUME NEW V, NEW d, NEW N, NEW L, NEW F, NEW P, Announced(V, d, N, L, F, P),
         NEW s \in V, NEW M, NetType(V, M),
         \A x \in V \ {s} : M[x] = N[x],
         \A y \in V \ {s} : M[s][y] = IF y \in L[s] THEN Append(N[s][y], d) ELSE N[s][y],
         M[s][s] = N[s][s] \/ M[s][s] = <<>>
  PROVE  Announced(V, d, M, [L EXCEPT ![s] = {}], F, P)
<1> DEFINE Q == [L EXCEPT ![s] = {}]
<1>1. NetType(V, N) /\ DeferredType(V, F) /\ L \in [V -> SUBSET V]
      /\ P \in [V -> Nat]
  BY DEF Announced, MailTypes
<1>2. \A x, y \in V : TellsOnce(d, N, L, F, x, y)
  BY DEF Announced, AllTellOnce
<1>3. \A x \in V : x \notin L[x] /\ ~Told(d, N, F, x, x)
  BY DEF Announced, AllTellOnce
<1>4. Q \in [V -> SUBSET V]
  BY <1>1
<1>5. (\A y : y \notin Q[s]) /\ \A x \in V \ {s} : Q[x] = L[x]
  BY <1>1
<1> HIDE DEF Q
<1>6. ASSUME NEW x \in V, NEW y \in V
      PROVE  /\ TellsOnce(d, M, Q, F, x, y)
             /\ y \in Q[x] \/ Told(d, M, F, x, y)
                <=> y \in L[x] \/ Told(d, N, F, x, y)
             /\ x = y => ~Told(d, M, F, x, y)
  <2>1. CASE x # s
    BY <1>2, <1>3, <1>5, <2>1 DEF TellsOnce, Told
  <2>2. CASE x = s /\ y = s
    <3>1. ~Contains(<<>>, d) /\ Once(<<>>, d)
      BY DEF Contains, Once
    <3>2. ~Contains(M[s][s], d) /\ Once(M[s][s], d)
      BY <1>2, <1>3, <3>1 DEF TellsOnce, Told
    <3> QED BY <1>2, <1>3, <1>5, <2>2, <3>2 DEF TellsOnce, Told
  <2>3. CASE x = s /\ y # s /\ y \notin L[s]
    BY <1>2, <1>3, <1>5, <2>3 DEF TellsOnce, Told
  <2>4. CASE x = s /\ y # s /\ y \in L[s]
    <3>1. ~Contains(N[s][y], d) /\ ~Contains(F[y], Aside(d, s)) /\ Once(F[y], Aside(d, s))
      BY <1>2, <2>4 DEF TellsOnce, Told
    <3>2. IsSeq(N[s][y])
      BY <1>1, ChannelSeq
    <3>3. Contains(M[s][y], d) /\ Once(M[s][y], d)
      BY <2>4, <3>1, <3>2, AppendThis
    <3> QED BY <1>5, <2>4, <3>1, <3>3 DEF TellsOnce, Told
  <2> QED BY <2>1, <2>2, <2>3, <2>4
<1>7. MailTypes(V, M, Q, F, P)
  BY <1>1, <1>4 DEF MailTypes
<1>8. AllTellOnce(V, d, M, Q, F)
  <2>1. \A x \in V : x \notin Q[x]
    BY <1>3, <1>5
  <2> QED BY <1>6, <2>1 DEF AllTellOnce
<1>9. AllCount(V, d, M, Q, F, P)
  <2>1. \A y \in V : Expected(V, d, M, Q, F, y) = Expected(V, d, N, L, F, y)
    BY <1>6 DEF Expected
  <2> QED BY <2>1 DEF Announced, AllCount
<1>10. Announced(V, d, M, Q, F, P)
  BY <1>7, <1>8, <1>9 DEF Announced
<1> QED BY <1>10 DEF Q

-----------------------------------------------------------------------------
\* How many messages of a sequence are of some kind, the set T

Positions(q, T) == {i \in 1 .. Len(q) : q[i] \in T}
Count(q, T)     == Cardinality(Positions(q, T))

OneIf(b) == IF b THEN 1 ELSE 0

\* The positions in a sequence are finitely many.
LEMMA CountNat ==
  ASSUME NEW q, IsSeq(q), NEW T
  PROVE  IsFiniteSet(Positions(q, T)) /\ Count(q, T) \in Nat
<1>1. Len(q) \in Nat
  BY DEF IsSeq
<1>2. IsFiniteSet(1 .. Len(q))
  BY <1>1, FS_Interval
<1>3. Positions(q, T) \subseteq 1 .. Len(q)
  BY DEF Positions
<1>4. IsFiniteSet(Positions(q, T))
  BY <1>2, <1>3, FS_Subset
<1> QED BY <1>4, FS_CardinalityType DEF Count

\* The count is zero exactly if there is none.
LEMMA CountZero ==
  ASSUME NEW q, IsSeq(q), NEW T
  PROVE  Count(q, T) = 0 <=> \A i \in 1 .. Len(q) : q[i] \notin T
<1>1. IsFiniteSet(Positions(q, T))
  BY CountNat
<1>2. Count(q, T) = 0 <=> Positions(q, T) = {}
  BY <1>1, FS_EmptySet DEF Count
<1> QED BY <1>2 DEF Positions

\* There is none in the empty sequence.
LEMMA CountEmpty ==
  ASSUME NEW T
  PROVE  Count(<<>>, T) = 0
<1>1. Positions(<<>>, T) = {}
  BY DEF Positions
<1> QED BY <1>1, FS_EmptySet DEF Count

\* A message appended counts if it is of the kind.
LEMMA CountAppend ==
  ASSUME NEW q, IsSeq(q), NEW m, NEW T
  PROVE  Count(Append(q, m), T) = Count(q, T) + OneIf(m \in T)
<1> DEFINE a == Append(q, m)
           n == Len(q)
<1>1. /\ n \in Nat /\ Len(a) = n + 1 /\ a[n + 1] = m
      /\ \A i \in 1 .. n : a[i] = q[i]
  BY AppendSeq
<1>2. IsFiniteSet(Positions(q, T)) /\ Count(q, T) \in Nat
  BY CountNat
<1> HIDE DEF a, n
<1>3. 1 .. Len(a) = (1 .. n) \cup {n + 1}
  BY <1>1
<1>4. \A i \in 1 .. n : a[i] \in T <=> q[i] \in T
  BY <1>1
<1>5. CASE m \in T
  <2>1. Positions(a, T) = Positions(q, T) \cup {n + 1}
    BY <1>1, <1>3, <1>4, <1>5 DEF Positions, n
  <2>2. n + 1 \notin Positions(q, T)
    BY <1>1 DEF Positions, n
  <2>3. Cardinality(Positions(q, T) \cup {n + 1}) = Cardinality(Positions(q, T)) + 1
    BY <1>2, <2>2, FS_AddElement
  <2> QED BY <1>5, <2>1, <2>3 DEF Count, OneIf, a
<1>6. CASE m \notin T
  <2>1. Positions(a, T) = Positions(q, T)
    BY <1>1, <1>3, <1>4, <1>6 DEF Positions, n
  <2> QED BY <1>2, <1>6, <2>1 DEF Count, OneIf, a
<1> QED BY <1>5, <1>6

\* The first message counts if it is of the kind, and then the rest.
LEMMA CountTail ==
  ASSUME NEW q, IsSeq(q), q # <<>>, NEW T
  PROVE  Count(q, T) = Count(Tail(q), T) + OneIf(Head(q) \in T)
<1> DEFINE t == Tail(q)
           n == Len(q)
           rest == Positions(q, T) \ {1}
           next == [i \in Positions(t, T) |-> i + 1]
<1>1. /\ IsSeq(t) /\ n \in Nat /\ n > 0 /\ Len(t) = n - 1 /\ Head(q) = q[1]
      /\ \A i \in 1 .. n - 1 : t[i] = q[i + 1]
  BY TailSeq
<1>2. IsFiniteSet(Positions(q, T)) /\ IsFiniteSet(Positions(t, T)) /\ Count(t, T) \in Nat
  BY <1>1, CountNat
<1> HIDE DEF t, n
<1>3. next \in Bijection(Positions(t, T), rest)
  <2>1. \A i \in Positions(t, T) : i + 1 \in rest
    BY <1>1 DEF Positions, n
  <2>2. next \in [Positions(t, T) -> rest]
    BY <2>1
  <2>3. \A i, j \in Positions(t, T) : next[i] = next[j] => i = j
    BY <1>1 DEF Positions
  <2>4. \A j \in rest : j - 1 \in Positions(t, T) /\ next[j - 1] = j
    BY <1>1 DEF Positions, n
  <2> HIDE DEF next, rest
  <2>5. \A j \in rest : \E i \in Positions(t, T) : next[i] = j
    BY <2>4
  <2> QED BY <2>2, <2>3, <2>5, Fun_IsBij
<1>4. ExistsBijection(Positions(t, T), rest)
  BY <1>3 DEF ExistsBijection
<1>5. Cardinality(rest) = Count(t, T)
  <2> HIDE DEF rest
  <2> QED BY <1>2, <1>4, FS_Bijection DEF Count
<1>6. CASE Head(q) \in T
  <2>1. 1 \in Positions(q, T)
    BY <1>1, <1>6 DEF Positions, n
  <2>2. Cardinality(rest) = Cardinality(Positions(q, T)) - 1
    BY <1>2, <2>1, FS_RemoveElement
  <2> HIDE DEF rest
  <2>3. Count(q, T) \in Nat
    BY CountNat
  <2> QED BY <1>2, <1>5, <1>6, <2>2, <2>3 DEF Count, OneIf, t
<1>7. CASE Head(q) \notin T
  <2>1. rest = Positions(q, T)
    BY <1>1, <1>7 DEF Positions
  <2> HIDE DEF rest
  <2> QED BY <1>2, <1>5, <1>7, <2>1 DEF Count, OneIf, t
<1> QED BY <1>6, <1>7

\* Pushing in front is the reverse of taking the tail.
LEMMA PushSeq ==
  ASSUME NEW q, IsSeq(q), NEW m
  PROVE  /\ IsSeq(<<m>> \o q)
         /\ <<m>> \o q # <<>>
         /\ Head(<<m>> \o q) = m
         /\ Tail(<<m>> \o q) = q
<1>1. PICK S : q \in Seq(S)
  BY DEF IsSeq
<1> DEFINE U == S \cup {m}
<1>2. q \in Seq(U) /\ m \in U
  BY <1>1
<1> HIDE DEF U
<1>3. <<m>> \o q \in Seq(U)
  BY <1>2
<1> DEFINE p == <<m>> \o q
<1>4. /\ p \in Seq(U)
      /\ Len(p) = 1 + Len(q) /\ Len(q) \in Nat
      /\ p[1] = m
      /\ \A i \in 1 .. Len(q) : p[i + 1] = q[i]
  <2>1. <<m>> \in Seq(U) /\ Len(<<m>>) = 1 /\ <<m>>[1] = m
    BY <1>2
  <2>2. /\ Len(p) = Len(<<m>>) + Len(q)
        /\ \A i \in 1 .. Len(<<m>>) + Len(q) :
             p[i] = IF i <= Len(<<m>>) THEN <<m>>[i] ELSE q[i - Len(<<m>>)]
    BY <1>2, <2>1, ConcatProperties
  <2>3. Len(q) \in Nat
    BY <1>2
  <2> HIDE DEF p
  <2> QED BY <1>2, <1>3, <2>1, <2>2, <2>3 DEF p
<1> HIDE DEF p
<1>5. p # <<>> /\ Head(p) = m
  BY <1>4
<1>6. /\ Tail(p) \in Seq(U) /\ Len(Tail(p)) = Len(q)
      /\ \A i \in 1 .. Len(q) : Tail(p)[i] = q[i]
  <2>1. /\ Tail(p) \in Seq(U) /\ Len(Tail(p)) = Len(p) - 1
        /\ \A i \in 1 .. Len(Tail(p)) : Tail(p)[i] = p[i + 1]
    BY <1>4, <1>5, HeadTailProperties
  <2> QED BY <1>4, <2>1
<1>7. Tail(p) = q
  BY <1>2, <1>6, SeqEqual
<1>8. IsSeq(p)
  BY <1>4 DEF IsSeq
<1> QED BY <1>5, <1>7, <1>8 DEF p

\* Pushing a message counts it if it is of the kind.
LEMMA CountPush ==
  ASSUME NEW q, IsSeq(q), NEW m, NEW T
  PROVE  Count(<<m>> \o q, T) = Count(q, T) + OneIf(m \in T)
<1>1. /\ IsSeq(<<m>> \o q) /\ <<m>> \o q # <<>>
      /\ Head(<<m>> \o q) = m /\ Tail(<<m>> \o q) = q
  BY PushSeq
<1> QED BY <1>1, CountTail

\* Sequences, one for each server; and the change of the counts when a message
\* is appended to one of them, taken from it, or pushed in front
Lines(V, F) == \E S : F \in [V -> Seq(S)]

LEMMA LineSeq ==
  ASSUME NEW V, NEW F, Lines(V, F)
  PROVE  \A y \in V : IsSeq(F[y])
BY DEF Lines, IsSeq

LEMMA AsideLines ==
  ASSUME NEW V, NEW F, DeferredType(V, F)
  PROVE  Lines(V, F)
<1>1. PICK S : F \in [V -> Seq([msg : S, from : V])]
  BY DEF DeferredType
<1> DEFINE T == [msg : S, from : V]
<1>2. F \in [V -> Seq(T)]
  BY <1>1
<1> HIDE DEF T
<1> QED BY <1>2 DEF Lines

\* The sequences F become G: m is appended to that of s, or its first is taken
Appends(V, F, G, s, m, T) ==
    \A y \in V : Count(G[y], T) = Count(F[y], T) + OneIf(y = s /\ m \in T)

Takes(V, F, G, s, T) ==
    \A y \in V : Count(F[y], T) = Count(G[y], T) + OneIf(y = s /\ Head(F[s]) \in T)

LEMMA AppendLine ==
  ASSUME NEW V, NEW F, Lines(V, F), NEW s \in V, NEW m, NEW T,
         NEW G, G = [F EXCEPT ![s] = Append(@, m)]
  PROVE  Appends(V, F, G, s, m, T)
<1> SUFFICES ASSUME NEW y \in V
             PROVE  Count(G[y], T) = Count(F[y], T) + OneIf(y = s /\ m \in T)
  BY DEF Appends
<1>1. IsSeq(F[y])
  BY LineSeq
<1>2. Count(F[y], T) \in Nat
  BY <1>1, CountNat
<1>3. CASE y = s
  <2>1. G[y] = Append(F[y], m)
    BY <1>3 DEF Lines
  <2>2. Count(Append(F[y], m), T) = Count(F[y], T) + OneIf(m \in T)
    BY <1>1, CountAppend
  <2> QED BY <1>3, <2>1, <2>2 DEF OneIf
<1>4. CASE y # s
  <2>1. G[y] = F[y]
    BY <1>4 DEF Lines
  <2> QED BY <1>2, <1>4, <2>1 DEF OneIf
<1> QED BY <1>3, <1>4

LEMMA TakeLine ==
  ASSUME NEW V, NEW F, Lines(V, F), NEW s \in V, F[s] # <<>>, NEW T,
         NEW G, G = [F EXCEPT ![s] = Tail(@)]
  PROVE  Takes(V, F, G, s, T)
<1> SUFFICES ASSUME NEW y \in V
             PROVE  Count(F[y], T) = Count(G[y], T) + OneIf(y = s /\ Head(F[s]) \in T)
  BY DEF Takes
<1>1. IsSeq(F[y])
  BY LineSeq
<1>2. Count(F[y], T) \in Nat
  BY <1>1, CountNat
<1>3. CASE y = s
  <2>1. G[y] = Tail(F[y])
    BY <1>3 DEF Lines
  <2>2. Count(F[y], T) = Count(Tail(F[y]), T) + OneIf(Head(F[y]) \in T)
    BY <1>1, <1>3, CountTail
  <2> QED BY <1>3, <2>1, <2>2 DEF OneIf
<1>4. CASE y # s
  <2>1. G[y] = F[y]
    BY <1>4 DEF Lines
  <2> QED BY <1>2, <1>4, <2>1 DEF OneIf
<1> QED BY <1>3, <1>4

\* The same of the channels N between two servers each.
Sends(V, N, M, s, x, m, T) ==
    \A a, b \in V : Count(M[a][b], T) = Count(N[a][b], T) + OneIf(a = s /\ b = x /\ m \in T)

Receives(V, N, M, r, s, T) ==
    \A a, b \in V :
        Count(N[a][b], T) = Count(M[a][b], T) + OneIf(a = r /\ b = s /\ Head(N[r][s]) \in T)

LEMMA SendCount ==
  ASSUME NEW V, NEW N, NetType(V, N), NEW s \in V, NEW x \in V, NEW m, NEW T,
         NEW M, M = [N EXCEPT ![s][x] = Append(@, m)]
  PROVE  Sends(V, N, M, s, x, m, T)
<1> SUFFICES ASSUME NEW a \in V, NEW b \in V
             PROVE  Count(M[a][b], T) = Count(N[a][b], T) + OneIf(a = s /\ b = x /\ m \in T)
  BY DEF Sends
<1>1. IsSeq(N[a][b])
  BY ChannelSeq
<1>2. Count(N[a][b], T) \in Nat
  BY <1>1, CountNat
<1>3. CASE a = s /\ b = x
  <2>1. M[a][b] = Append(N[a][b], m)
    BY <1>3 DEF NetType
  <2>2. Count(Append(N[a][b], m), T) = Count(N[a][b], T) + OneIf(m \in T)
    BY <1>1, CountAppend
  <2> QED BY <1>3, <2>1, <2>2 DEF OneIf
<1>4. CASE ~(a = s /\ b = x)
  <2>1. M[a][b] = N[a][b]
    BY <1>4 DEF NetType
  <2> QED BY <1>2, <1>4, <2>1 DEF OneIf
<1> QED BY <1>3, <1>4

LEMMA SendTyped ==
  ASSUME NEW V, NEW N, NetType(V, N), NEW s \in V, NEW x \in V, NEW m,
         NEW M, M = [N EXCEPT ![s][x] = Append(@, m)]
  PROVE  NetType(V, M)
<1>1. PICK S : N \in [V -> [V -> Seq(S)]]
  BY DEF NetType
<1> DEFINE T == S \cup {m}
<1>2. m \in T /\ \A q \in Seq(S) : q \in Seq(T)
  OBVIOUS
<1> HIDE DEF T
<1>3. N \in [V -> [V -> Seq(T)]]
  BY <1>1, <1>2
<1>4. Append(N[s][x], m) \in Seq(T)
  BY <1>2, <1>3
<1>5. M \in [V -> [V -> Seq(T)]]
  BY <1>3, <1>4
<1> QED BY <1>5 DEF NetType

LEMMA ReceiveCount ==
  ASSUME NEW V, NEW N, NetType(V, N), NEW r \in V, NEW s \in V, N[r][s] # <<>>, NEW T,
         NEW M, M = [N EXCEPT ![r][s] = Tail(@)]
  PROVE  Receives(V, N, M, r, s, T)
<1> SUFFICES ASSUME NEW a \in V, NEW b \in V
             PROVE  Count(N[a][b], T)
                      = Count(M[a][b], T) + OneIf(a = r /\ b = s /\ Head(N[r][s]) \in T)
  BY DEF Receives
<1>1. IsSeq(N[a][b])
  BY ChannelSeq
<1>2. Count(N[a][b], T) \in Nat
  BY <1>1, CountNat
<1>3. CASE a = r /\ b = s
  <2>1. M[a][b] = Tail(N[a][b])
    BY <1>3 DEF NetType
  <2>2. Count(N[a][b], T) = Count(Tail(N[a][b]), T) + OneIf(Head(N[a][b]) \in T)
    BY <1>1, <1>3, CountTail
  <2> QED BY <1>3, <2>1, <2>2 DEF OneIf
<1>4. CASE ~(a = r /\ b = s)
  <2>1. M[a][b] = N[a][b]
    BY <1>4 DEF NetType
  <2> QED BY <1>2, <1>4, <2>1 DEF OneIf
<1> QED BY <1>3, <1>4

-----------------------------------------------------------------------------
\* One field of the elements of a sequence, and how many have a value there

Fields(q, x) == [i \in 1 .. Len(q) |-> q[i][x]]

NumOf(q, x, v) == Count(Fields(q, x), {v})

LEMMA FieldsSeq ==
  ASSUME NEW q, IsSeq(q), NEW x
  PROVE  IsSeq(Fields(q, x)) /\ Len(Fields(q, x)) = Len(q)
<1> DEFINE S == {q[i][x] : i \in 1 .. Len(q)}
<1>1. Len(q) \in Nat
  BY DEF IsSeq
<1>2. Fields(q, x) \in [1 .. Len(q) -> S]
  BY DEF Fields
<1> HIDE DEF S
<1>3. Fields(q, x) \in Seq(S) /\ Len(Fields(q, x)) = Len(q)
  BY <1>1, <1>2
<1> QED BY <1>3 DEF IsSeq

\* Two sequences with the same elements are one.
LEMMA SameSeq ==
  ASSUME NEW p, NEW q, IsSeq(p), IsSeq(q), Len(p) = Len(q), \A i \in 1 .. Len(q) : p[i] = q[i]
  PROVE  p = q
<1>1. PICK S : p \in Seq(S)
  BY DEF IsSeq
<1>2. PICK T : q \in Seq(T)
  BY DEF IsSeq
<1>3. /\ p \in [1 .. Len(p) -> S] /\ q \in [1 .. Len(q) -> T]
  BY <1>1, <1>2, LenProperties
<1> QED BY <1>3

LEMMA FieldsAppend ==
  ASSUME NEW q, IsSeq(q), NEW m, NEW x
  PROVE  Fields(Append(q, m), x) = Append(Fields(q, x), m[x])
<1> DEFINE a == Append(q, m)
           f == Fields(q, x)
           g == Append(f, m[x])
<1>1. /\ IsSeq(a) /\ Len(q) \in Nat /\ Len(a) = Len(q) + 1
      /\ a[Len(q) + 1] = m /\ \A i \in 1 .. Len(q) : a[i] = q[i]
  BY AppendSeq
<1>2. IsSeq(f) /\ Len(f) = Len(q) /\ \A i \in 1 .. Len(q) : f[i] = q[i][x]
  BY FieldsSeq DEF Fields
<1>3. IsSeq(Fields(a, x)) /\ Len(Fields(a, x)) = Len(a)
      /\ \A i \in 1 .. Len(a) : Fields(a, x)[i] = a[i][x]
  <2> HIDE DEF a
  <2> QED BY <1>1, FieldsSeq DEF Fields
<1> HIDE DEF a, f
<1>4. /\ IsSeq(g) /\ Len(g) = Len(f) + 1
      /\ g[Len(f) + 1] = m[x] /\ \A i \in 1 .. Len(f) : g[i] = f[i]
  BY <1>2, AppendSeq
<1> HIDE DEF g
<1>5. \A i \in 1 .. Len(g) : Fields(a, x)[i] = g[i]
  <2> TAKE i \in 1 .. Len(g)
  <2>1. CASE i \in 1 .. Len(q)
    BY <1>1, <1>2, <1>3, <1>4, <2>1
  <2>2. CASE i = Len(q) + 1
    BY <1>1, <1>2, <1>3, <1>4, <2>2
  <2> QED BY <1>1, <1>2, <1>4, <2>1, <2>2
<1>6. Fields(a, x) = g
  BY <1>1, <1>2, <1>3, <1>4, <1>5, SameSeq
<1> QED BY <1>6 DEF a, g, f

LEMMA FieldsTail ==
  ASSUME NEW q, IsSeq(q), q # <<>>, NEW x
  PROVE  /\ Fields(q, x) # <<>>
         /\ Head(Fields(q, x)) = Head(q)[x]
         /\ Fields(Tail(q), x) = Tail(Fields(q, x))
<1> DEFINE t == Tail(q)
           f == Fields(q, x)
           g == Tail(f)
<1>1. /\ IsSeq(t) /\ Len(q) \in Nat /\ Len(q) > 0 /\ Len(t) = Len(q) - 1
      /\ Head(q) = q[1] /\ \A i \in 1 .. Len(q) - 1 : t[i] = q[i + 1]
  BY TailSeq
<1>2. IsSeq(f) /\ Len(f) = Len(q) /\ \A i \in 1 .. Len(q) : f[i] = q[i][x]
  BY FieldsSeq DEF Fields
<1>3. IsSeq(Fields(t, x)) /\ Len(Fields(t, x)) = Len(t)
      /\ \A i \in 1 .. Len(t) : Fields(t, x)[i] = t[i][x]
  <2> HIDE DEF t
  <2> QED BY <1>1, FieldsSeq DEF Fields
<1> HIDE DEF t, f
<1>4. f # <<>>
  BY <1>1, <1>2
<1>5. /\ IsSeq(g) /\ Len(g) = Len(f) - 1 /\ Head(f) = f[1]
      /\ \A i \in 1 .. Len(f) - 1 : g[i] = f[i + 1]
  BY <1>2, <1>4, TailSeq
<1> HIDE DEF g
<1>6. \A i \in 1 .. Len(g) : Fields(t, x)[i] = g[i]
  <2> TAKE i \in 1 .. Len(g)
  <2>1. i \in 1 .. Len(q) - 1 /\ i + 1 \in 1 .. Len(q)
    BY <1>1, <1>2, <1>5
  <2> QED BY <1>1, <1>2, <1>3, <1>5, <2>1
<1>7. Fields(t, x) = g
  BY <1>1, <1>2, <1>3, <1>5, <1>6, SameSeq
<1>8. Head(f) = Head(q)[x]
  BY <1>1, <1>2, <1>5
<1> QED BY <1>4, <1>7, <1>8 DEF t, f, g

\* The numbers after a message is appended, taken, or pushed in front
LEMMA NumNat ==
  ASSUME NEW q, IsSeq(q), NEW x, NEW v
  PROVE  /\ NumOf(q, x, v) \in Nat
         /\ NumOf(q, x, v) = 0 <=> \A i \in 1 .. Len(q) : q[i][x] # v
<1> DEFINE f == Fields(q, x)
<1>1. IsSeq(f) /\ Len(f) = Len(q) /\ \A i \in 1 .. Len(q) : f[i] = q[i][x]
  BY FieldsSeq DEF Fields
<1> HIDE DEF f
<1>2. Count(f, {v}) \in Nat /\ (Count(f, {v}) = 0 <=> \A i \in 1 .. Len(f) : f[i] \notin {v})
  BY <1>1, CountNat, CountZero
<1> QED BY <1>1, <1>2 DEF NumOf, f

LEMMA NumAppend ==
  ASSUME NEW q, IsSeq(q), NEW m, NEW x, NEW v
  PROVE  NumOf(Append(q, m), x, v) = NumOf(q, x, v) + OneIf(m[x] = v)
<1>1. IsSeq(Fields(q, x))
  BY FieldsSeq
<1>2. Count(Append(Fields(q, x), m[x]), {v}) = Count(Fields(q, x), {v}) + OneIf(m[x] \in {v})
  BY <1>1, CountAppend
<1>3. m[x] \in {v} <=> m[x] = v
  OBVIOUS
<1> QED BY <1>2, <1>3, FieldsAppend DEF NumOf, OneIf

LEMMA NumTail ==
  ASSUME NEW q, IsSeq(q), q # <<>>, NEW x, NEW v
  PROVE  NumOf(q, x, v) = NumOf(Tail(q), x, v) + OneIf(Head(q)[x] = v)
<1> DEFINE f == Fields(q, x)
<1>1. IsSeq(f) /\ f # <<>> /\ Head(f) = Head(q)[x] /\ Fields(Tail(q), x) = Tail(f)
  BY FieldsSeq, FieldsTail
<1> HIDE DEF f
<1>2. Count(f, {v}) = Count(Tail(f), {v}) + OneIf(Head(f) \in {v})
  BY <1>1, CountTail
<1>3. Head(q)[x] \in {v} <=> Head(q)[x] = v
  OBVIOUS
<1> QED BY <1>1, <1>2, <1>3 DEF NumOf, OneIf, f

LEMMA NumPush ==
  ASSUME NEW q, IsSeq(q), NEW m, NEW x, NEW v
  PROVE  NumOf(<<m>> \o q, x, v) = NumOf(q, x, v) + OneIf(m[x] = v)
<1> DEFINE p == <<m>> \o q
<1>1. IsSeq(p) /\ p # <<>> /\ Head(p) = m /\ Tail(p) = q
  BY PushSeq
<1> HIDE DEF p
<1>2. NumOf(p, x, v) = NumOf(Tail(p), x, v) + OneIf(Head(p)[x] = v)
  BY <1>1, NumTail
<1> QED BY <1>1, <1>2 DEF p

-----------------------------------------------------------------------------
\* The sum of numbers, one for each server, is the size of a set that has as many
\* elements for a server as its number says.

Units(V, f) == {p \in V \X Nat : p[2] < f[p[1]]}

SumOver(V, f) == Cardinality(Units(V, f))

LEMMA SumSame ==
  ASSUME NEW V, NEW f, NEW g, \A y \in V : g[y] = f[y]
  PROVE  Units(V, g) = Units(V, f)
BY DEF Units

\* Each number is a part of the sum.
LEMMA SumZero ==
  ASSUME NEW V, NEW f, IsFiniteSet(Units(V, f)), \A y \in V : f[y] \in Nat
  PROVE  SumOver(V, f) = 0 <=> \A y \in V : f[y] = 0
<1>1. SumOver(V, f) = 0 <=> Units(V, f) = {}
  BY FS_EmptySet DEF SumOver
<1>2. ASSUME Units(V, f) = {}, NEW y \in V PROVE f[y] = 0
  <2>1. <<y, 0>> \in V \X Nat /\ <<y, 0>>[1] = y /\ <<y, 0>>[2] = 0
    OBVIOUS
  <2>2. ~(0 < f[y])
    BY <1>2, <2>1 DEF Units
  <2> QED BY <2>2
<1>3. ASSUME \A y \in V : f[y] = 0 PROVE Units(V, f) = {}
  BY <1>3 DEF Units
<1> QED BY <1>1, <1>2, <1>3

LEMMA SumNone ==
  ASSUME NEW V, NEW f, \A y \in V : f[y] = 0
  PROVE  IsFiniteSet(Units(V, f)) /\ SumOver(V, f) = 0
<1>1. Units(V, f) = {}
  BY DEF Units
<1> QED BY <1>1, FS_EmptySet DEF SumOver

\* One number grows by one.
LEMMA SumMore ==
  ASSUME NEW V, NEW f, NEW g, NEW x \in V, IsFiniteSet(Units(V, f)),
         \A y \in V : f[y] \in Nat /\ g[y] = f[y] + OneIf(y = x)
  PROVE  IsFiniteSet(Units(V, g)) /\ SumOver(V, g) = SumOver(V, f) + 1
<1> DEFINE u == <<x, f[x]>>
<1>1. u \in V \X Nat /\ u[1] = x /\ u[2] = f[x]
  OBVIOUS
<1>2. u \notin Units(V, f)
  BY <1>1 DEF Units
<1>3. ASSUME NEW p \in V \X Nat PROVE p[2] < g[p[1]] <=> p[2] < f[p[1]] \/ p = u
  <2>1. p[1] \in V /\ p[2] \in Nat /\ p = <<p[1], p[2]>>
    OBVIOUS
  <2>2. f[p[1]] \in Nat /\ g[p[1]] = f[p[1]] + OneIf(p[1] = x)
    BY <2>1
  <2>3. CASE p[1] = x
    <3>1. g[x] = f[x] + 1 /\ f[x] \in Nat
      BY <2>2, <2>3 DEF OneIf
    <3>2. p[2] < g[p[1]] <=> p[2] < f[p[1]] \/ p[2] = f[x]
      BY <2>1, <2>3, <3>1
    <3>3. p[2] = f[x] <=> p = u
      BY <2>1, <2>3
    <3> QED BY <3>2, <3>3
  <2>4. CASE p[1] # x
    <3>1. g[p[1]] = f[p[1]]
      BY <2>2, <2>4 DEF OneIf
    <3>2. p # u
      BY <2>4, <1>1
    <3> QED BY <3>1, <3>2
  <2> QED BY <2>3, <2>4
<1>4. Units(V, g) = Units(V, f) \cup {u}
  <2> HIDE DEF u
  <2> QED BY <1>1, <1>3 DEF Units
<1> HIDE DEF u
<1> QED BY <1>2, <1>4, FS_AddElement DEF SumOver

\* One number becomes less by one.
LEMMA SumLess ==
  ASSUME NEW V, NEW f, NEW g, NEW x \in V, IsFiniteSet(Units(V, f)),
         \A y \in V : g[y] \in Nat /\ f[y] = g[y] + OneIf(y = x)
  PROVE  IsFiniteSet(Units(V, g)) /\ SumOver(V, f) = SumOver(V, g) + 1
<1>1. Units(V, g) \subseteq Units(V, f)
  <2> SUFFICES ASSUME NEW p \in V \X Nat, p[2] < g[p[1]] PROVE p[2] < f[p[1]]
    BY DEF Units
  <2>1. p[1] \in V /\ p[2] \in Nat
    OBVIOUS
  <2>2. g[p[1]] \in Nat /\ f[p[1]] = g[p[1]] + OneIf(p[1] = x)
    BY <2>1
  <2> QED BY <2>1, <2>2 DEF OneIf
<1>2. IsFiniteSet(Units(V, g))
  BY <1>1, FS_Subset
<1> QED BY <1>2, SumMore

\* A sum is a number.
LEMMA SumNat ==
  ASSUME NEW V, NEW f, IsFiniteSet(Units(V, f))
  PROVE  SumOver(V, f) \in Nat
BY FS_CardinalityType DEF SumOver

-----------------------------------------------------------------------------
\* Every non-empty set of positions has a first.
LEMMA FirstPlace ==
  ASSUME NEW T \in SUBSET Nat, T # {}
  PROVE  (CHOOSE i \in T : \A j \in T : i <= j) \in T
<1> DEFINE R == {ss \in Nat \X Nat : ss[1] < ss[2]}
<1>1. IsWellFoundedOn(R, Nat)
  BY NatLessThanWellFounded, Zenon DEF OpToRel
<1> HIDE DEF R
<1>2. PICK x \in T : \A y \in T : ~ (<<y, x>> \in R)
  BY <1>1, WFMin, Zenon
<1>3. \A y \in T : ~ (y < x)
  BY <1>2 DEF R
<1>4. \A y \in T : x <= y
  BY <1>3
<1> QED BY <1>4

=============================================================================
