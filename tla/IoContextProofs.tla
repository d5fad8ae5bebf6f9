--------------------------- MODULE IoContextProofs ---------------------------
(***************************************************************************)
(* Proofs about the io_context, for any number of threads, connections and *)
(* messages.                                                               *)
(*                                                                         *)
(* The inductive invariant comes in parts.  PlaceInv says where the        *)
(* operations are: in which queue or whose hands, and so how many of a     *)
(* kind there are.  WorkInv relates the count of outstanding work to them, *)
(* and EndInv says what is true once that count has come to nothing.       *)
(* WakeInv says which thread wakes those that sleep.  From the first       *)
(* follows what every step does to an operation as HandlerPool sees it.    *)
(***************************************************************************)
EXTENDS IoContext, FiniteSetTheorems, TLAPS

----------------------------------------------------------------------------
(* Places of operations.  Queued operations of a set S: at position i of   *)
(* the queue q (w = Nobody) or of the queue pr[w] of a thread, or, at its  *)
(* position 0, in the hands hd[w] of a thread.  A hand that holds no       *)
(* operation is written as holding the task, which no S contains.          *)
Who == Threads \cup {Nobody}
Spot(q, pr, hd, w, i, S) ==
  \/ w = Nobody /\ i \in 1 .. Len(q) /\ q[i] \in S
  \/ w \in Threads /\ i \in 1 .. Len(pr[w]) /\ pr[w][i] \in S
  \/ w \in Threads /\ i = 0 /\ hd[w] \in S
AtMostOne(q, pr, hd, S) ==
  \A v, w \in Who, i, j \in Nat :
    Spot(q, pr, hd, v, i, S) /\ Spot(q, pr, hd, w, j, S) => v = w /\ i = j
SomeOf(q, pr, hd, S) == \E w \in Who, i \in Nat : Spot(q, pr, hd, w, i, S)

Operations == {Task, Callback} \cup {Descriptor(c) : c \in Sockets}
                \cup {Read(c, ok) : c \in Sockets, ok \in BOOLEAN}
                \cup {Wait(c, ok) : c \in Sockets, ok \in BOOLEAN}
Queues == Seq(Operations)

(* A thread gives its queue to the pool. *)
LEMMA Flush ==
  ASSUME NEW q \in Queues, NEW pr \in [Threads -> Queues], NEW hd, NEW S,
         NEW t \in Threads
  PROVE  LET qq == q \o pr[t]
             ppr == [pr EXCEPT ![t] = << >>]
         IN  /\ AtMostOne(q, pr, hd, S) => AtMostOne(qq, ppr, hd, S)
             /\ SomeOf(qq, ppr, hd, S) <=> SomeOf(q, pr, hd, S)
<1> DEFINE qq == q \o pr[t]
           ppr == [pr EXCEPT ![t] = << >>]
<1>1. PICK m \in Nat, n \in Nat : m = Len(q) /\ n = Len(pr[t])
  BY DEF Queues
<1>2. /\ Len(qq) = m + n
      /\ \A i \in 1 .. m : qq[i] = q[i]
      /\ \A i \in m + 1 .. m + n : qq[i] = pr[t][i - m]
  BY <1>1 DEF Queues
<1>3. /\ \A u \in Threads \ {t} : ppr[u] = pr[u]
      /\ Len(ppr[t]) = 0 /\ Nobody \notin Threads
  BY ThreadsAssumption
<1> HIDE DEF qq, ppr
<1>4. \A w \in Who, i \in Nat : Spot(qq, ppr, hd, w, i, S) =>
        \/ w = Nobody /\ i \in m + 1 .. m + n /\ Spot(q, pr, hd, t, i - m, S)
        \/ ~(w = t /\ i # 0) /\ (w = Nobody => i <= m) /\ Spot(q, pr, hd, w, i, S)
  BY <1>1, <1>2, <1>3 DEF Spot, Who
<1>5. AtMostOne(q, pr, hd, S) => AtMostOne(qq, ppr, hd, S)
  <2> SUFFICES ASSUME AtMostOne(q, pr, hd, S),
                      NEW v \in Who, NEW w \in Who, NEW i \in Nat, NEW j \in Nat,
                      Spot(qq, ppr, hd, v, i, S), Spot(qq, ppr, hd, w, j, S)
               PROVE  v = w /\ i = j
    BY DEF AtMostOne
  <2>1. CASE Spot(q, pr, hd, v, i, S) /\ Spot(q, pr, hd, w, j, S)
    BY <2>1 DEF AtMostOne
  <2> QED
    BY <1>3, <1>4, <2>1 DEF AtMostOne, Who
<1>6. ASSUME NEW w \in Who, NEW i \in Nat, Spot(q, pr, hd, w, i, S)
      PROVE  SomeOf(qq, ppr, hd, S)
  <2>1. CASE w = t /\ i # 0
    <3>1. i + m \in m + 1 .. m + n /\ i + m - m = i /\ pr[t][i] \in S
      BY <1>1, <1>3, <1>6, <2>1 DEF Spot
    <3>2. Spot(qq, ppr, hd, Nobody, i + m, S)
      BY <1>2, <3>1 DEF Spot
    <3> QED
      BY <3>1, <3>2 DEF SomeOf, Who
  <2>2. CASE ~(w = t /\ i # 0)
    <3>1. Spot(qq, ppr, hd, w, i, S)
      BY <1>1, <1>2, <1>3, <1>6, <2>2 DEF Spot
    <3> QED
      BY <3>1 DEF SomeOf
  <2> QED
    BY <2>1, <2>2
<1>7. SomeOf(qq, ppr, hd, S) => SomeOf(q, pr, hd, S)
  BY <1>4 DEF SomeOf, Who
<1> QED
  BY <1>5, <1>6, <1>7 DEF SomeOf, qq, ppr

(* A thread takes the first operation of the queue in its hands. *)
LEMMA Take ==
  ASSUME NEW q \in Queues, NEW pr \in [Threads -> Queues],
         NEW hd \in [Threads -> Operations], NEW S, NEW t \in Threads,
         q # << >>, hd[t] \notin S
  PROVE  LET hhd == [hd EXCEPT ![t] = Head(q)]
         IN  /\ AtMostOne(q, pr, hd, S) => AtMostOne(Tail(q), pr, hhd, S)
             /\ SomeOf(Tail(q), pr, hhd, S) <=> SomeOf(q, pr, hd, S)
<1> DEFINE hhd == [hd EXCEPT ![t] = Head(q)]
           r == Tail(q)
<1>1. PICK m \in Nat : m = Len(q) /\ m > 0
  BY DEF Queues
<1>2. /\ Len(r) = m - 1
      /\ \A i \in 1 .. m - 1 : r[i] = q[i + 1]
      /\ hhd[t] = q[1]
  BY <1>1 DEF Queues
<1>3. (\A u \in Threads \ {t} : hhd[u] = hd[u]) /\ Nobody \notin Threads
  BY ThreadsAssumption
<1> HIDE DEF hhd, r
<1>4. \A w \in Who, i \in Nat : Spot(r, pr, hhd, w, i, S) =>
        \/ w = Nobody /\ i >= 1 /\ Spot(q, pr, hd, Nobody, i + 1, S)
        \/ w = t /\ i = 0 /\ Spot(q, pr, hd, Nobody, 1, S)
        \/ w # Nobody /\ ~(w = t /\ i = 0) /\ Spot(q, pr, hd, w, i, S)
  <2> TAKE w \in Who, i \in Nat
  <2> HAVE Spot(r, pr, hhd, w, i, S)
  <2>1. CASE w = Nobody
    <3>1. i \in 1 .. m - 1 /\ r[i] \in S
      BY <1>2, <1>3, <2>1 DEF Spot
    <3>2. i + 1 \in 1 .. m /\ q[i + 1] \in S
      BY <1>2, <3>1
    <3> QED
      BY <1>1, <2>1, <3>1, <3>2 DEF Spot
  <2>2. CASE w = t /\ i = 0
    BY <1>1, <1>2, <1>3, <2>2 DEF Spot
  <2>3. CASE w # Nobody /\ ~(w = t /\ i = 0)
    BY <1>1, <1>2, <1>3, <2>3 DEF Spot
  <2> QED
    BY <2>1, <2>2, <2>3
<1>5. AtMostOne(q, pr, hd, S) => AtMostOne(r, pr, hhd, S)
  <2> SUFFICES ASSUME AtMostOne(q, pr, hd, S),
                      NEW v \in Who, NEW w \in Who, NEW i \in Nat, NEW j \in Nat,
                      Spot(r, pr, hhd, v, i, S), Spot(r, pr, hhd, w, j, S)
               PROVE  v = w /\ i = j
    BY DEF AtMostOne
  <2>1. Nobody \in Who /\ 1 \in Nat /\ i + 1 \in Nat /\ j + 1 \in Nat
    BY DEF Who
  <2> QED
    BY <1>3, <1>4, <2>1 DEF AtMostOne
<1>6. ASSUME NEW w \in Who, NEW i \in Nat, Spot(q, pr, hd, w, i, S)
      PROVE  SomeOf(r, pr, hhd, S)
  <2>1. CASE w = Nobody /\ i = 1
    <3>1. Spot(r, pr, hhd, t, 0, S)
      BY <1>2, <1>3, <1>6, <2>1 DEF Spot
    <3> QED
      BY <3>1 DEF SomeOf, Who
  <2>2. CASE w = Nobody /\ i # 1
    <3>1. i - 1 \in 1 .. m - 1 /\ q[i] \in S /\ (i - 1) + 1 = i
      BY <1>1, <1>3, <1>6, <2>2 DEF Spot
    <3>2. Spot(r, pr, hhd, Nobody, i - 1, S) /\ i - 1 \in Nat
      BY <1>2, <3>1 DEF Spot
    <3> QED
      BY <3>2 DEF SomeOf, Who
  <2>3. CASE w # Nobody
    <3>1. Spot(r, pr, hhd, w, i, S)
      BY <1>3, <1>6, <2>3 DEF Spot, Who
    <3> QED
      BY <3>1 DEF SomeOf
  <2> QED
    BY <2>1, <2>2, <2>3
<1>7. SomeOf(r, pr, hhd, S) => SomeOf(q, pr, hd, S)
  <2>1. Nobody \in Who /\ 1 \in Nat /\ \A i \in Nat : i + 1 \in Nat
    BY DEF Who
  <2> QED
    BY <1>4, <2>1 DEF SomeOf
<1> QED
  BY <1>5, <1>6, <1>7 DEF SomeOf, hhd, r

(* A thread gives the operation in its hands to the pool. *)
LEMMA Put ==
  ASSUME NEW q \in Queues, NEW pr \in [Threads -> Queues],
         NEW hd \in [Threads -> Operations], NEW S, NEW t \in Threads,
         Task \notin S
  PROVE  LET qq == Append(q, hd[t])
             hhd == [hd EXCEPT ![t] = Task]
         IN  /\ AtMostOne(q, pr, hd, S) => AtMostOne(qq, pr, hhd, S)
             /\ SomeOf(qq, pr, hhd, S) <=> SomeOf(q, pr, hd, S)
<1> DEFINE hhd == [hd EXCEPT ![t] = Task]
           r == Append(q, hd[t])
<1>1. PICK m \in Nat : m = Len(q)
  BY DEF Queues
<1>2. /\ Len(r) = m + 1
      /\ \A i \in 1 .. m : r[i] = q[i]
      /\ r[m + 1] = hd[t] /\ hhd[t] = Task
  BY <1>1 DEF Queues
<1>3. (\A u \in Threads \ {t} : hhd[u] = hd[u]) /\ Nobody \notin Threads
  BY ThreadsAssumption
<1> HIDE DEF hhd, r
<1>4. \A w \in Who, i \in Nat : Spot(r, pr, hhd, w, i, S) =>
        \/ w = Nobody /\ i = m + 1 /\ Spot(q, pr, hd, t, 0, S)
        \/ ~(w = Nobody /\ i = m + 1) /\ ~(w = t /\ i = 0)
             /\ Spot(q, pr, hd, w, i, S)
  BY <1>1, <1>2, <1>3 DEF Spot, Who
<1>5. AtMostOne(q, pr, hd, S) => AtMostOne(r, pr, hhd, S)
  <2> SUFFICES ASSUME AtMostOne(q, pr, hd, S),
                      NEW v \in Who, NEW w \in Who, NEW i \in Nat, NEW j \in Nat,
                      Spot(r, pr, hhd, v, i, S), Spot(r, pr, hhd, w, j, S)
               PROVE  v = w /\ i = j
    BY DEF AtMostOne
  <2>1. t \in Who /\ 0 \in Nat
    BY DEF Who
  <2> QED
    BY <1>4, <2>1 DEF AtMostOne
<1>6. ASSUME NEW w \in Who, NEW i \in Nat, Spot(q, pr, hd, w, i, S)
      PROVE  SomeOf(r, pr, hhd, S)
  <2>1. CASE w = t /\ i = 0
    <3>1. Spot(r, pr, hhd, Nobody, m + 1, S) /\ m + 1 \in Nat
      BY <1>2, <1>3, <1>6, <2>1 DEF Spot
    <3> QED
      BY <3>1 DEF SomeOf, Who
  <2>2. CASE ~(w = t /\ i = 0)
    <3>1. Spot(r, pr, hhd, w, i, S)
      BY <1>1, <1>2, <1>3, <1>6, <2>2 DEF Spot
    <3> QED
      BY <3>1 DEF SomeOf
  <2> QED
    BY <2>1, <2>2
<1>7. SomeOf(r, pr, hhd, S) => SomeOf(q, pr, hd, S)
  BY <1>4 DEF SomeOf, Who
<1> QED
  BY <1>5, <1>6, <1>7 DEF SomeOf, hhd, r

(* What a thread holds changes. *)
LEMMA Hold ==
  ASSUME NEW q, NEW pr, NEW hd \in [Threads -> Operations], NEW S,
         NEW t \in Threads, NEW o
  PROVE  LET hhd == [hd EXCEPT ![t] = o]
         IN  /\ (hd[t] \in S <=> o \in S) =>
                  /\ AtMostOne(q, pr, hd, S) => AtMostOne(q, pr, hhd, S)
                  /\ SomeOf(q, pr, hhd, S) <=> SomeOf(q, pr, hd, S)
             /\ o \notin S /\ hd[t] \in S /\ AtMostOne(q, pr, hd, S) =>
                  ~SomeOf(q, pr, hhd, S)
             /\ ~SomeOf(q, pr, hd, S) /\ o \in S =>
                  AtMostOne(q, pr, hhd, S) /\ SomeOf(q, pr, hhd, S)
<1> DEFINE hhd == [hd EXCEPT ![t] = o]
<1>1. /\ \A u \in Threads \ {t} : hhd[u] = hd[u]
      /\ hhd[t] = o /\ Nobody \notin Threads /\ t \in Who
  BY ThreadsAssumption DEF Who
<1> HIDE DEF hhd
<1>2. \A w \in Who, i \in Nat : ~(w = t /\ i = 0) =>
        (Spot(q, pr, hhd, w, i, S) <=> Spot(q, pr, hd, w, i, S))
  BY <1>1 DEF Spot
<1>3. /\ Spot(q, pr, hd, t, 0, S) <=> hd[t] \in S
      /\ Spot(q, pr, hhd, t, 0, S) <=> o \in S
  BY <1>1 DEF Spot
<1>4. ASSUME hd[t] \in S <=> o \in S
      PROVE  /\ AtMostOne(q, pr, hd, S) => AtMostOne(q, pr, hhd, S)
             /\ SomeOf(q, pr, hhd, S) <=> SomeOf(q, pr, hd, S)
  <2>1. \A w \in Who, i \in Nat :
          Spot(q, pr, hhd, w, i, S) <=> Spot(q, pr, hd, w, i, S)
    BY <1>2, <1>3, <1>4
  <2> QED
    BY <2>1 DEF AtMostOne, SomeOf
<1>5. ASSUME o \notin S, hd[t] \in S, AtMostOne(q, pr, hd, S)
      PROVE  ~SomeOf(q, pr, hhd, S)
  BY <1>1, <1>2, <1>3, <1>5 DEF AtMostOne, SomeOf
<1>6. ASSUME ~SomeOf(q, pr, hd, S), o \in S
      PROVE  AtMostOne(q, pr, hhd, S) /\ SomeOf(q, pr, hhd, S)
  <2>1. \A w \in Who, i \in Nat :
          Spot(q, pr, hhd, w, i, S) <=> w = t /\ i = 0
    BY <1>2, <1>3, <1>6 DEF SomeOf
  <2> QED
    BY <1>1, <2>1 DEF AtMostOne, SomeOf
<1> QED
  BY <1>4, <1>5, <1>6 DEF hhd

(* A thread adds an operation to its own queue. *)
LEMMA Keep ==
  ASSUME NEW q, NEW pr \in [Threads -> Queues], NEW hd, NEW S,
         NEW t \in Threads, NEW o
  PROVE  LET ppr == [pr EXCEPT ![t] = Append(@, o)]
         IN  /\ o \notin S =>
                  /\ AtMostOne(q, pr, hd, S) => AtMostOne(q, ppr, hd, S)
                  /\ SomeOf(q, ppr, hd, S) <=> SomeOf(q, pr, hd, S)
             /\ ~SomeOf(q, pr, hd, S) /\ o \in S =>
                  AtMostOne(q, ppr, hd, S) /\ SomeOf(q, ppr, hd, S)
<1> DEFINE ppr == [pr EXCEPT ![t] = Append(@, o)]
<1>1. PICK n \in Nat : n = Len(pr[t])
  BY DEF Queues
<1>2. /\ \A u \in Threads \ {t} : ppr[u] = pr[u]
      /\ Len(ppr[t]) = n + 1 /\ Nobody \notin Threads /\ t \in Who
      /\ ppr[t][n + 1] = o /\ \A i \in 1 .. n : ppr[t][i] = pr[t][i]
      /\ n + 1 \in Nat /\ t # Nobody
  BY <1>1, ThreadsAssumption DEF Who, Queues
<1> HIDE DEF ppr
<1>3. \A w \in Who, i \in Nat : ~(w = t /\ i = n + 1) =>
        (Spot(q, ppr, hd, w, i, S) <=> Spot(q, pr, hd, w, i, S))
  <2> SUFFICES ASSUME NEW w \in Who, NEW i \in Nat, ~(w = t /\ i = n + 1)
               PROVE  Spot(q, ppr, hd, w, i, S) <=> Spot(q, pr, hd, w, i, S)
    OBVIOUS
  <2>1. CASE w = t
    <3>1. i \in 1 .. n + 1 <=> i \in 1 .. n
      BY <2>1
    <3> QED
      BY <1>1, <1>2, <2>1, <3>1 DEF Spot
  <2>2. CASE w # t
    BY <1>2, <2>2 DEF Spot
  <2> QED
    BY <2>1, <2>2
<1>4. ~Spot(q, pr, hd, t, n + 1, S)
  BY <1>1, <1>2 DEF Spot
<1>5. Spot(q, ppr, hd, t, n + 1, S) <=> o \in S
  BY <1>2 DEF Spot
<1>6. ASSUME o \notin S
      PROVE  /\ AtMostOne(q, pr, hd, S) => AtMostOne(q, ppr, hd, S)
             /\ SomeOf(q, ppr, hd, S) <=> SomeOf(q, pr, hd, S)
  <2>1. \A w \in Who, i \in Nat :
          Spot(q, ppr, hd, w, i, S) <=> Spot(q, pr, hd, w, i, S)
    BY <1>3, <1>4, <1>5, <1>6
  <2> QED
    BY <2>1 DEF AtMostOne, SomeOf
<1>7. ASSUME ~SomeOf(q, pr, hd, S), o \in S
      PROVE  AtMostOne(q, ppr, hd, S) /\ SomeOf(q, ppr, hd, S)
  <2>1. \A w \in Who, i \in Nat :
          Spot(q, ppr, hd, w, i, S) <=> w = t /\ i = n + 1
    BY <1>3, <1>5, <1>7 DEF SomeOf
  <2> QED
    BY <1>2, <2>1 DEF AtMostOne, SomeOf
<1> QED
  BY <1>6, <1>7 DEF ppr

(* A thread whose queue is empty fills it with s. *)
LEMMA Fill ==
  ASSUME NEW q, NEW pr \in [Threads -> Queues], NEW hd, NEW S,
         NEW t \in Threads, pr[t] = << >>, NEW s \in Queues
  PROVE  LET ppr == [pr EXCEPT ![t] = s]
         IN  /\ SomeOf(q, ppr, hd, S) <=>
                  SomeOf(q, pr, hd, S) \/ \E i \in 1 .. Len(s) : s[i] \in S
             /\ /\ AtMostOne(q, pr, hd, S)
                /\ \A i, j \in 1 .. Len(s) : s[i] \in S /\ s[j] \in S => i = j
                /\ (\E i \in 1 .. Len(s) : s[i] \in S) => ~SomeOf(q, pr, hd, S)
                => AtMostOne(q, ppr, hd, S)
<1> DEFINE ppr == [pr EXCEPT ![t] = s]
<1>1. PICK n \in Nat : n = Len(s)
  BY DEF Queues
<1>2. /\ \A u \in Threads \ {t} : ppr[u] = pr[u]
      /\ ppr[t] = s /\ Nobody \notin Threads /\ t \in Who /\ t # Nobody
      /\ Len(pr[t]) = 0
  BY <1>1, ThreadsAssumption DEF Who, Queues
<1> HIDE DEF ppr
<1>3. \A w \in Who, i \in Nat : ~(w = t /\ i \in 1 .. n) =>
        (Spot(q, ppr, hd, w, i, S) <=> Spot(q, pr, hd, w, i, S))
  BY <1>1, <1>2 DEF Spot
<1>4. \A i \in 1 .. n : /\ ~Spot(q, pr, hd, t, i, S)
                        /\ Spot(q, ppr, hd, t, i, S) <=> s[i] \in S
  BY <1>1, <1>2 DEF Spot
<1>5. SomeOf(q, ppr, hd, S) <=>
        SomeOf(q, pr, hd, S) \/ \E i \in 1 .. n : s[i] \in S
  <2>1. ASSUME NEW i \in 1 .. n, s[i] \in S PROVE SomeOf(q, ppr, hd, S)
    BY <1>2, <1>4, <2>1 DEF SomeOf
  <2>2. SomeOf(q, pr, hd, S) => SomeOf(q, ppr, hd, S)
    BY <1>3, <1>4 DEF SomeOf
  <2>3. SomeOf(q, ppr, hd, S) =>
          SomeOf(q, pr, hd, S) \/ \E i \in 1 .. n : s[i] \in S
    BY <1>3, <1>4 DEF SomeOf
  <2> QED
    BY <2>1, <2>2, <2>3
<1>6. ASSUME AtMostOne(q, pr, hd, S),
             \A i, j \in 1 .. n : s[i] \in S /\ s[j] \in S => i = j,
             (\E i \in 1 .. n : s[i] \in S) => ~SomeOf(q, pr, hd, S)
      PROVE  AtMostOne(q, ppr, hd, S)
  <2>1. CASE \E i \in 1 .. n : s[i] \in S
    <3>1. \A w \in Who, i \in Nat : Spot(q, ppr, hd, w, i, S) =>
            w = t /\ i \in 1 .. n /\ s[i] \in S
      BY <1>3, <1>4, <1>6, <2>1 DEF SomeOf
    <3> QED
      BY <1>6, <3>1 DEF AtMostOne
  <2>2. CASE ~\E i \in 1 .. n : s[i] \in S
    <3>1. \A w \in Who, i \in Nat :
            Spot(q, ppr, hd, w, i, S) <=> Spot(q, pr, hd, w, i, S)
      BY <1>3, <1>4, <2>2
    <3> QED
      BY <1>6, <3>1 DEF AtMostOne
  <2> QED
    BY <2>1, <2>2
<1> QED
  BY <1>1, <1>5, <1>6 DEF ppr

----------------------------------------------------------------------------
(* The program of a thread                                                 *)

RunShapes   == {<<"run">>, <<"signal", "run">>}
EnqShapes   == {<<"enqueue", "leave">>, <<"enqueue", "first", "leave">>}
TaskShapes  == {<<"poll">>, <<"peek">>, <<"signal", "peek">>}
CloseShapes == {<<"shutdown", "cancel", "leave">>, <<"cancel", "leave">>}
FirstShapes == {<<"first", "leave">>, <<"signal", "first", "leave">>}
LeaveShapes == {<<"leave">>, <<"signal", "leave">>}
StopShapes  == {<<"stop">>, <<"stop", "loop">>}
RestShapes  == {<< >>, <<"begin">>, <<"loop">>, <<"wait">>, <<"woken">>,
                <<"cleanup">>}
Shapes == RunShapes \cup EnqShapes \cup TaskShapes \cup CloseShapes
            \cup FirstShapes \cup LeaveShapes \cup StopShapes \cup RestShapes

(* A thread holds the operation it runs or is about to enqueue. *)
Holding(s) == s \in RunShapes \cup EnqShapes
(* It has called a handler, and not yet counted it as finished. *)
Leaving(s) == s \in EnqShapes \cup CloseShapes \cup FirstShapes \cup LeaveShapes
(* It has the task. *)
Polling(s) == s \in TaskShapes
(* It may have operations of its own. *)
Keeping(s) == Leaving(s) \/ s \in {<<"loop">>, <<"stop", "loop">>, <<"cleanup">>}

LEMMA ShapeAt ==
  ASSUME NEW s \in Shapes, s # << >>
  PROVE  /\ Head(s) = "begin" => s = <<"begin">>
         /\ Head(s) = "loop" => s = <<"loop">>
         /\ Head(s) = "wait" => s = <<"wait">>
         /\ Head(s) = "woken" => s = <<"woken">>
         /\ Head(s) = "poll" => s = <<"poll">>
         /\ Head(s) = "peek" => s = <<"peek">>
         /\ Head(s) = "cleanup" => s = <<"cleanup">>
         /\ Head(s) = "run" => s = <<"run">>
         /\ Head(s) = "leave" => s = <<"leave">>
         /\ Head(s) = "first" => s = <<"first", "leave">>
         /\ Head(s) = "shutdown" => s = <<"shutdown", "cancel", "leave">>
         /\ Head(s) = "cancel" => s = <<"cancel", "leave">>
         /\ Head(s) = "stop" => s \in StopShapes
         /\ Head(s) = "enqueue" => s \in EnqShapes
         /\ Head(s) = "signal" =>
              s \in {<<"signal", "run">>, <<"signal", "peek">>,
                     <<"signal", "leave">>, <<"signal", "first", "leave">>}
BY DEF Shapes, RunShapes, EnqShapes, TaskShapes, CloseShapes, FirstShapes,
       LeaveShapes, StopShapes, RestShapes

LEMMA JoinTwo ==
  ASSUME NEW a, NEW b
  PROVE  <<a>> \o <<b>> = <<a, b>>
<1> DEFINE c == <<a>> \o <<b>>
           S == {a, b}
<1>1. c \in Seq(S) /\ Len(c) = 2 /\ c[1] = a /\ c[2] = b
  OBVIOUS
<1>2. <<a, b>> \in Seq(S) /\ Len(<<a, b>>) = 2
  OBVIOUS
<1> HIDE DEF c
<1>3. \A i \in 1 .. 2 : c[i] = <<a, b>>[i]
  BY <1>1
<1>4. PICK s \in Seq(S), r \in Seq(S) : s = c /\ r = <<a, b>>
  BY <1>1, <1>2
<1>5. s = r
  BY <1>1, <1>2, <1>3, <1>4
<1> QED
  BY <1>4, <1>5 DEF c

LEMMA JoinThree ==
  ASSUME NEW a, NEW b, NEW d
  PROVE  <<a>> \o <<b, d>> = <<a, b, d>>
<1> DEFINE c == <<a>> \o <<b, d>>
           S == {a, b, d}
<1>1. c \in Seq(S) /\ Len(c) = 3 /\ c[1] = a /\ c[2] = b /\ c[3] = d
  OBVIOUS
<1>2. <<a, b, d>> \in Seq(S) /\ Len(<<a, b, d>>) = 3
  OBVIOUS
<1> HIDE DEF c
<1>3. \A i \in 1 .. 3 : c[i] = <<a, b, d>>[i]
  BY <1>1
<1>4. PICK s \in Seq(S), r \in Seq(S) : s = c /\ r = <<a, b, d>>
  BY <1>1, <1>2
<1>5. s = r
  BY <1>1, <1>2, <1>3, <1>4
<1> QED
  BY <1>4, <1>5 DEF c

LEMMA ShapeTails ==
  /\ Tail(<<"stop">>) = << >> /\ Tail(<<"stop", "loop">>) = <<"loop">>
  /\ Tail(<<"enqueue", "leave">>) = <<"leave">>
  /\ Tail(<<"enqueue", "first", "leave">>) = <<"first", "leave">>
  /\ Tail(<<"shutdown", "cancel", "leave">>) = <<"cancel", "leave">>
  /\ Tail(<<"cancel", "leave">>) = <<"leave">>
  /\ Tail(<<"signal", "run">>) = <<"run">>
  /\ Tail(<<"signal", "peek">>) = <<"peek">>
  /\ Tail(<<"signal", "leave">>) = <<"leave">>
  /\ Tail(<<"signal", "first", "leave">>) = <<"first", "leave">>
  /\ <<"signal">> \o <<"run">> = <<"signal", "run">>
  /\ <<"signal">> \o <<"leave">> = <<"signal", "leave">>
  /\ <<"signal">> \o <<"first", "leave">> = <<"signal", "first", "leave">>
  /\ <<"enqueue">> \o <<"leave">> = <<"enqueue", "leave">>
  /\ <<"enqueue">> \o <<"first", "leave">> = <<"enqueue", "first", "leave">>
<1>1. Tail(<<"stop">>) = << >>
  OBVIOUS
<1>2. Tail(<<"stop", "loop">>) = <<"loop">>
  OBVIOUS
<1>3. Tail(<<"enqueue", "leave">>) = <<"leave">>
  OBVIOUS
<1>4. Tail(<<"enqueue", "first", "leave">>) = <<"first", "leave">>
  OBVIOUS
<1>5. Tail(<<"shutdown", "cancel", "leave">>) = <<"cancel", "leave">>
  OBVIOUS
<1>6. Tail(<<"cancel", "leave">>) = <<"leave">>
  OBVIOUS
<1>7. Tail(<<"signal", "run">>) = <<"run">>
  OBVIOUS
<1>8. Tail(<<"signal", "peek">>) = <<"peek">>
  OBVIOUS
<1>9. Tail(<<"signal", "leave">>) = <<"leave">>
  OBVIOUS
<1>10. Tail(<<"signal", "first", "leave">>) = <<"first", "leave">>
  OBVIOUS
<1>11. <<"signal">> \o <<"run">> = <<"signal", "run">>
  BY JoinTwo
<1>12. <<"signal">> \o <<"leave">> = <<"signal", "leave">>
  BY JoinTwo
<1>13. <<"signal">> \o <<"first", "leave">> = <<"signal", "first", "leave">>
  BY JoinThree
<1>14. <<"enqueue">> \o <<"leave">> = <<"enqueue", "leave">>
  BY JoinTwo
<1>15. <<"enqueue">> \o <<"first", "leave">> = <<"enqueue", "first", "leave">>
  BY JoinThree
<1> QED
  BY <1>1, <1>2, <1>3, <1>4, <1>5, <1>6, <1>7, <1>8, <1>9, <1>10, <1>11, <1>12, <1>13, <1>14, <1>15

LEMMA ShapeKinds ==
  /\ \A s \in RunShapes \cup EnqShapes : Holding(s)
  /\ \A s \in TaskShapes \cup CloseShapes \cup FirstShapes \cup LeaveShapes
               \cup StopShapes \cup RestShapes : ~Holding(s)
  /\ \A s \in EnqShapes \cup CloseShapes \cup FirstShapes \cup LeaveShapes :
       Leaving(s) /\ Keeping(s)
  /\ \A s \in RunShapes \cup TaskShapes \cup StopShapes \cup RestShapes :
       ~Leaving(s)
  /\ \A s \in RunShapes \cup TaskShapes : ~Keeping(s)
  /\ ~Keeping(<< >>) /\ ~Keeping(<<"begin">>) /\ ~Keeping(<<"wait">>)
  /\ ~Keeping(<<"woken">>) /\ ~Keeping(<<"stop">>)
  /\ \A s \in TaskShapes : Polling(s)
  /\ \A s \in RunShapes \cup EnqShapes \cup CloseShapes \cup FirstShapes
               \cup LeaveShapes \cup StopShapes \cup RestShapes : ~Polling(s)
BY DEF Holding, Leaving, Polling, Keeping, RunShapes, EnqShapes, TaskShapes,
       CloseShapes, FirstShapes, LeaveShapes, StopShapes, RestShapes

----------------------------------------------------------------------------
(* The invariant of the operations                                         *)

ReadsOf(c) == {Read(c, ok) : ok \in BOOLEAN}
WaitsOf(c) == {Wait(c, ok) : ok \in BOOLEAN}
Descriptors == {Descriptor(c) : c \in Sockets}

Hand   == [t \in Threads |-> IF Holding(todo[t]) THEN op[t] ELSE Task]
NoHand == [t \in Threads |-> Task]

TypeInv ==
  /\ queue \in Queues /\ priv \in [Threads -> Queues]
  /\ op \in [Threads -> Operations] /\ todo \in [Threads -> Shapes]
  /\ work \in Int /\ privWork \in [Threads -> {0, 1}]
  /\ pending \in [Sockets -> BOOLEAN]
  /\ timer \in [Sockets -> {"armed", "due", "out"}]
  /\ alive \in [Sockets -> {"new", "open", "gone"}]

(* What a thread has at the points of its program. *)
Accepting(s) == s \in FirstShapes \cup {<<"enqueue", "first", "leave">>}
ProgramAt(t) ==
  /\ priv[t] # << >> => Keeping(todo[t])
  /\ privWork[t] = 1 => Leaving(todo[t])
  /\ todo[t] \in CloseShapes => \E c \in Sockets : op[t] = Wait(c, TRUE)
  /\ todo[t] \in EnqShapes =>
       \E c \in Sockets : op[t] \in ReadsOf(c) \cup WaitsOf(c)
  /\ Accepting(todo[t]) => privWork[t] = 0
ProgramInv == \A t \in Threads : ProgramAt(t)

(* The task is in the queue or with one thread, until that has put it back.*)
HasTask(t) == Polling(todo[t]) \/ todo[t] = <<"cleanup">>
TaskInv ==
  /\ \A t, u \in Threads : HasTask(t) /\ HasTask(u) => t = u
  /\ \A t \in Threads, i \in 1 .. Len(queue) : HasTask(t) => queue[i] # Task
  /\ \A i, j \in 1 .. Len(queue) : queue[i] = Task /\ queue[j] = Task => i = j
  /\ \A t \in Threads : \A i \in 1 .. Len(priv[t]) : priv[t][i] # Task

(* Descriptors are queued before the task: none is left when it polls.     *)
DescriptorInv ==
  /\ \A c \in Sockets : AtMostOne(queue, priv, NoHand, {Descriptor(c)})
  /\ \A i \in 1 .. Len(queue) : queue[i] \in Descriptors =>
       \E j \in 1 .. Len(queue) : i < j /\ queue[j] = Task
  /\ \A t \in Threads : \A i \in 1 .. Len(priv[t]) :
       priv[t][i] \in Descriptors => todo[t] = <<"cleanup">>

ReadInv ==
  \A c \in Sockets :
    /\ AtMostOne(queue, priv, Hand, ReadsOf(c))
    /\ SomeOf(queue, priv, Hand, ReadsOf(c)) <=> alive[c] = "open" /\ ~pending[c]
    /\ pending[c] => alive[c] = "open"

WaitInv ==
  \A c \in Sockets :
    /\ AtMostOne(queue, priv, Hand, WaitsOf(c))
    /\ SomeOf(queue, priv, Hand, WaitsOf(c)) => timer[c] = "out"

CallbackInv == AtMostOne(queue, priv, Hand, {Callback})

PlaceInv == /\ TypeInv /\ ProgramInv /\ TaskInv /\ DescriptorInv
            /\ ReadInv /\ WaitInv /\ CallbackInv

(* Outstanding work: a read of each open connection, a wait of each timer, *)
(* the callback, and the handlers that have been called.  A thread owes    *)
(* what it has started and not yet counted.                                *)
Open    == {c \in Sockets : alive[c] = "open"}
Timed   == {c \in Sockets : \/ timer[c] # "out"
                            \/ SomeOf(queue, priv, Hand, WaitsOf(c))}
Posted == {o \in {Callback} : SomeOf(queue, priv, Hand, {o})}
Serving == {t \in Threads : Leaving(todo[t])}
Owing   == {t \in Threads : privWork[t] = 1}
WorkInv == work + Cardinality(Owing)
             = Cardinality(Open) + Cardinality(Timed) + Cardinality(Posted)
                 + Cardinality(Serving)

(* All that could start an operation has ended. *)
Ended == /\ Open = {} /\ Timed = {}
         /\ \A t \in Threads : todo[t] \notin FirstShapes
EndInv == /\ stopped /\ ~asked => Ended
          /\ \A t \in Threads : todo[t] \in StopShapes => Ended

(* The kinds of operations are apart. *)
LEMMA Kinds ==
  ASSUME NEW c, NEW ok \in BOOLEAN
  PROVE  /\ Task \notin ReadsOf(c) /\ Task \notin WaitsOf(c)
         /\ Task # Callback /\ Task # Descriptor(c)
         /\ Callback \notin ReadsOf(c) /\ Callback \notin WaitsOf(c)
         /\ \A d : /\ Read(c, ok) \in ReadsOf(d) <=> c = d
                   /\ Wait(c, ok) \in WaitsOf(d) <=> c = d
                   /\ Read(c, ok) \notin WaitsOf(d)
                   /\ Wait(c, ok) \notin ReadsOf(d)
                   /\ Descriptor(c) \notin ReadsOf(d)
                   /\ Descriptor(c) \notin WaitsOf(d)
                   /\ Descriptor(c) = Descriptor(d) <=> c = d
                   /\ Read(c, ok) # Descriptor(d) /\ Wait(c, ok) # Descriptor(d)
         /\ Read(c, ok) # Callback /\ Wait(c, ok) # Callback
         /\ Descriptor(c) # Callback
         /\ Read(c, ok) # Task /\ Wait(c, ok) # Task
BY DEF Task, Callback, Descriptor, Read, Wait, ReadsOf, WaitsOf

LEMMA OperationKinds ==
  ASSUME NEW c \in Sockets
  PROVE  /\ \A ok \in BOOLEAN : Read(c, ok) \in Operations /\ Wait(c, ok) \in Operations
         /\ Read(c, FALSE) \in Operations /\ Wait(c, FALSE) \in Operations
         /\ Wait(c, TRUE) \in Operations /\ Descriptor(c) \in Operations
<1>1. \A ok \in BOOLEAN : Read(c, ok) \in Operations /\ Wait(c, ok) \in Operations
  BY DEF Operations
<1>2. TRUE \in BOOLEAN /\ FALSE \in BOOLEAN
  OBVIOUS
<1>3. Descriptor(c) \in Operations
  BY DEF Operations
<1> QED
  BY <1>1, <1>2, <1>3

LEMMA KindsByName ==
  ASSUME NEW o \in Operations
  PROVE  /\ o[1] = "descriptor" => \E c \in Sockets : o = Descriptor(c) /\ o[2] = c
         /\ o[1] = "read" => \E c \in Sockets, ok \in BOOLEAN :
                               o = Read(c, ok) /\ o[2] = c /\ o[3] = ok
         /\ o[1] = "wait" => \E c \in Sockets, ok \in BOOLEAN :
                               o = Wait(c, ok) /\ o[2] = c /\ o[3] = ok
BY DEF Operations, Task, Callback, Descriptor, Read, Wait

(* The loop of do_run_one takes the first operation of q, if there is one. *)
LEMMA FindsTakes ==
  ASSUME TypeInv, NEW t \in Threads, NEW q \in Queues, NEW i, Finds(t, q, i),
         ~Holding(todo[t])
  PROVE  /\ queue' \in Queues /\ op' \in [Threads -> Operations]
         /\ todo' \in [Threads -> Shapes]
         /\ \A u \in Threads \ {t} : todo'[u] = todo[u] /\ op'[u] = op[u]
         /\ \/ /\ queue' = q /\ Hand' = Hand
               /\ todo'[t] = << >> \/ (todo'[t] = <<"wait">> /\ q = << >>)
            \/ /\ q # << >> /\ Head(q) = Task /\ queue' = Tail(q) /\ Hand' = Hand
               /\ todo'[t] \in TaskShapes
            \/ /\ q # << >> /\ Head(q) # Task /\ queue' = Tail(q)
               /\ Hand' = [Hand EXCEPT ![t] = Head(q)]
               /\ todo'[t] \in RunShapes
<1>1. /\ Hand[t] = Task /\ todo \in [Threads -> Shapes]
      /\ op \in [Threads -> Operations]
  BY DEF Hand, TypeInv
<1>2. ASSUME NEW s \in Shapes, todo' = [todo EXCEPT ![t] = s],
             \A u \in Threads \ {t} : op'[u] = op[u], ~Holding(s)
      PROVE  Hand' = Hand
  BY <1>1, <1>2 DEF Hand
<1>3. CASE stopped /\ GoTo(t, << >>) /\ queue' = q /\ op' = op
  <2>1. << >> \in Shapes /\ ~Holding(<< >>)
    BY ShapeKinds DEF Shapes, RestShapes
  <2> QED
    BY <1>1, <1>2, <1>3, <2>1 DEF GoTo
<1>4. CASE ~stopped /\ q = << >> /\ GoTo(t, <<"wait">>) /\ queue' = q /\ op' = op
  <2>1. <<"wait">> \in Shapes /\ ~Holding(<<"wait">>)
    BY ShapeKinds DEF Shapes, RestShapes
  <2> QED
    BY <1>1, <1>2, <1>4, <2>1 DEF GoTo
<1>5. CASE /\ q # << >> /\ Head(q) = Task /\ queue' = Tail(q)
           /\ op' = [op EXCEPT ![t] = Task]
           /\ \E s \in TaskShapes : GoTo(t, s)
  <2>1. PICK s \in TaskShapes : todo' = [todo EXCEPT ![t] = s]
    BY <1>5 DEF GoTo
  <2>2. s \in Shapes /\ ~Holding(s)
    BY ShapeKinds DEF Shapes
  <2>3. Task \in Operations /\ Tail(q) \in Queues
    BY <1>5 DEF Operations, Queues
  <2> QED
    BY <1>1, <1>2, <1>5, <2>1, <2>2, <2>3
<1>6. CASE /\ q # << >> /\ Head(q) # Task /\ queue' = Tail(q)
           /\ op' = [op EXCEPT ![t] = Head(q)]
           /\ \E s \in RunShapes : GoTo(t, s)
  <2>1. PICK s \in RunShapes : todo' = [todo EXCEPT ![t] = s]
    BY <1>6 DEF GoTo
  <2>2. s \in Shapes /\ Holding(s)
    BY ShapeKinds DEF Shapes
  <2>3. Head(q) \in Operations /\ Tail(q) \in Queues
    BY <1>6 DEF Queues
  <2>4. Hand' = [Hand EXCEPT ![t] = Head(q)]
    BY <1>1, <1>6, <2>1, <2>2 DEF Hand
  <2> QED
    BY <1>1, <1>6, <2>1, <2>2, <2>3, <2>4
<1>7. ASSUME Tail(q) = << >> \/ WakeOne(t, i, <<"run">>),
             Tail(q) = << >> => GoTo(t, <<"run">>)
      PROVE  \E s \in RunShapes : GoTo(t, s)
  BY <1>7, ShapeTails DEF WakeOne, RunShapes
<1> QED
  BY <1>3, <1>4, <1>5, <1>6, <1>7 DEF Finds, TaskShapes, RunShapes

LEMMA FindsKeeps ==
  ASSUME TypeInv, NEW t \in Threads, NEW q \in Queues, NEW i, Finds(t, q, i),
         ~Holding(todo[t]), NEW pr \in [Threads -> Queues],
         NEW S, Task \notin S
  PROVE  /\ AtMostOne(q, pr, Hand, S) => AtMostOne(queue', pr, Hand', S)
         /\ SomeOf(queue', pr, Hand', S) <=> SomeOf(q, pr, Hand, S)
<1>1. Hand \in [Threads -> Operations] /\ Hand[t] = Task
  BY DEF Hand, TypeInv, Operations
<1>2. [Hand EXCEPT ![t] = Task] = Hand
  BY <1>1
<1>3. CASE queue' = q /\ Hand' = Hand
  BY <1>3
<1>4. CASE q # << >> /\ queue' = Tail(q) /\ Hand' = [Hand EXCEPT ![t] = Head(q)]
  BY <1>1, <1>4, Take
<1> QED
  BY <1>2, <1>3, <1>4, FindsTakes

----------------------------------------------------------------------------
(* What the steps of a thread do to the threads and the queues             *)

(* Apart from t, a thread may at most be woken. *)
Others(t) ==
  /\ todo' \in [Threads -> Shapes] /\ op' \in [Threads -> Operations]
  /\ \A u \in Threads \ {t} :
       /\ \/ todo'[u] = todo[u]
          \/ todo[u] = <<"wait">> /\ todo'[u] = <<"woken">>
       /\ op'[u] = op[u] /\ priv'[u] = priv[u] /\ privWork'[u] = privWork[u]

LEMMA OthersKeep ==
  ASSUME TypeInv, NEW t \in Threads, Others(t), NEW u \in Threads \ {t}
  PROVE  /\ Holding(todo'[u]) <=> Holding(todo[u])
         /\ Leaving(todo'[u]) <=> Leaving(todo[u])
         /\ Polling(todo'[u]) <=> Polling(todo[u])
         /\ Keeping(todo'[u]) <=> Keeping(todo[u])
         /\ todo'[u] = <<"cleanup">> <=> todo[u] = <<"cleanup">>
         /\ \A X \in {CloseShapes, EnqShapes, FirstShapes, StopShapes, RunShapes} :
              todo'[u] \in X <=> todo[u] \in X
         /\ Accepting(todo'[u]) <=> Accepting(todo[u])
<1>1. \A s \in {<<"wait">>, <<"woken">>} :
        /\ ~Holding(s) /\ ~Leaving(s) /\ ~Polling(s) /\ ~Keeping(s)
        /\ s # <<"cleanup">> /\ ~Accepting(s)
        /\ \A X \in {CloseShapes, EnqShapes, FirstShapes, StopShapes, RunShapes} :
             s \notin X
  BY DEF Holding, Leaving, Polling, Keeping, Accepting, CloseShapes, EnqShapes,
         FirstShapes, StopShapes, RunShapes, TaskShapes, LeaveShapes
<1>2. CASE todo'[u] = todo[u]
  BY <1>2
<1>3. CASE todo[u] = <<"wait">> /\ todo'[u] = <<"woken">>
  BY <1>1, <1>3
<1> QED
  BY <1>2, <1>3 DEF Others

LEMMA HandsAfter ==
  ASSUME TypeInv, NEW t \in Threads, Others(t)
  PROVE  /\ Hand \in [Threads -> Operations] /\ Hand' \in [Threads -> Operations]
         /\ Hand' = [Hand EXCEPT ![t] = IF Holding(todo'[t]) THEN op'[t] ELSE Task]
         /\ Hand[t] = IF Holding(todo[t]) THEN op[t] ELSE Task
<1>1. Task \in Operations /\ op \in [Threads -> Operations]
      /\ op' \in [Threads -> Operations]
  BY DEF Operations, TypeInv, Others
<1>2. \A u \in Threads \ {t} : Hand'[u] = Hand[u]
  BY OthersKeep DEF Hand, Others
<1> QED
  BY <1>1, <1>2 DEF Hand

(* An operation is where it was before, or has been handed on. *)
Kept(S) ==
  /\ AtMostOne(queue, priv, Hand, S) => AtMostOne(queue', priv', Hand', S)
  /\ SomeOf(queue', priv', Hand', S) <=> SomeOf(queue, priv, Hand, S)

(* Steps that touch no operation. *)
Goes(t, X, Y) == todo[t] \in X /\ todo'[t] \in Y
Quiet(t) ==
  \/ Begin(t) \/ Signal(t) \/ Spurious(t) \/ Shutdown(t) \/ Leave(t) \/ Stop(t)
  \/ Sigint(t) \/ (Wakes(t) /\ ~signalled)

LEMMA BroadcastShapes ==
  ASSUME TypeInv
  PROVE  /\ Broadcast \in [Threads -> Shapes]
         /\ \A u \in Threads : \/ Broadcast[u] = todo[u]
                               \/ todo[u] = <<"wait">> /\ Broadcast[u] = <<"woken">>
<1>1. <<"woken">> \in Shapes
  BY DEF Shapes, RestShapes
<1>2. \A u \in Threads : todo[u] \in Shapes
  BY DEF TypeInv
<1>3. \A u \in Threads : At(u, "wait") => todo[u] = <<"wait">>
  BY <1>2, ShapeAt DEF At
<1> QED
  BY <1>1, <1>2, <1>3 DEF Broadcast

LEMMA QuietStep ==
  ASSUME TypeInv, NEW t \in Threads, Quiet(t)
  PROVE  /\ queue' = queue /\ priv' = priv /\ op' = op
         /\ todo' \in [Threads -> Shapes]
         /\ \A u \in Threads \ {t} :
              \/ todo'[u] = todo[u]
              \/ todo[u] = <<"wait">> /\ todo'[u] = <<"woken">>
         /\ \/ Begin(t) /\ Goes(t, {<<"begin">>}, {<<"stop">>, <<"loop">>})
            \/ Signal(t) /\ Goes(t, {<<"signal", "run">>}, {<<"run">>})
            \/ Signal(t) /\ Goes(t, {<<"signal", "peek">>}, {<<"peek">>})
            \/ Signal(t) /\ Goes(t, {<<"signal", "leave">>}, {<<"leave">>})
            \/ Signal(t) /\ Goes(t, {<<"signal", "first", "leave">>},
                                    {<<"first", "leave">>})
            \/ Spurious(t) /\ Goes(t, {<<"wait">>}, {<<"woken">>})
            \/ Shutdown(t) /\ Goes(t, {<<"shutdown", "cancel", "leave">>},
                                      {<<"cancel", "leave">>})
            \/ Leave(t) /\ Goes(t, {<<"leave">>}, {<<"stop", "loop">>, <<"loop">>})
            \/ Stop(t) /\ Goes(t, {<<"stop">>}, {<< >>})
            \/ Stop(t) /\ Goes(t, {<<"stop", "loop">>}, {<<"loop">>})
            \/ Sigint(t) /\ todo'[t] = todo[t]
            \/ Sigint(t) /\ Goes(t, {<<"wait">>}, {<<"woken">>})
            \/ Sigint(t) /\ Goes(t, {<<"poll">>}, {<<"cleanup">>})
            \/ Wakes(t) /\ ~signalled /\ Goes(t, {<<"woken">>}, {<<"wait">>})
<1> USE DEF Goes, Quiet
<1>1. /\ todo \in [Threads -> Shapes] /\ todo[t] \in Shapes
      /\ \A a : At(t, a) => todo[t] # << >> /\ Head(todo[t]) = a
      /\ \A a, u \in Threads : At(u, a) => todo[u] \in Shapes /\ todo[u] # << >>
  BY DEF TypeInv, At
<1>2. /\ <<"stop">> \in Shapes /\ <<"loop">> \in Shapes /\ <<"run">> \in Shapes
      /\ <<"peek">> \in Shapes /\ <<"leave">> \in Shapes /\ <<"woken">> \in Shapes
      /\ <<"wait">> \in Shapes /\ <<"cleanup">> \in Shapes /\ << >> \in Shapes
      /\ <<"stop", "loop">> \in Shapes /\ <<"first", "leave">> \in Shapes
      /\ <<"cancel", "leave">> \in Shapes
  BY DEF Shapes, RestShapes, StopShapes, RunShapes, TaskShapes, LeaveShapes,
         FirstShapes, CloseShapes
<1>3. CASE Begin(t)
  <2>1. todo[t] = <<"begin">>
    BY <1>1, <1>3, ShapeAt DEF Begin
  <2> QED
    BY <1>1, <1>2, <1>3, <2>1 DEF Begin, GoTo, sched
<1>4. CASE Signal(t)
  <2>1. todo[t] \in {<<"signal", "run">>, <<"signal", "peek">>,
                     <<"signal", "leave">>, <<"signal", "first", "leave">>}
    BY <1>1, <1>4, ShapeAt DEF Signal
  <2>2. Tail(todo[t]) \in Shapes
    BY <1>2, <2>1, ShapeTails
  <2>3. CASE Continue(t)
    BY <1>1, <1>4, <2>1, <2>2, <2>3, ShapeTails DEF Signal, Continue, GoTo, sched
  <2>4. ASSUME NEW u \in Threads, At(u, "wait"),
               todo' = [todo EXCEPT ![t] = Tail(@), ![u] = <<"woken">>]
        PROVE  /\ todo' \in [Threads -> Shapes] /\ todo'[t] = Tail(todo[t])
               /\ \A v \in Threads \ {t} :
                     \/ todo'[v] = todo[v]
                     \/ todo[v] = <<"wait">> /\ todo'[v] = <<"woken">>
    <3>1. todo[u] = <<"wait">> /\ u # t
      BY <1>1, <1>4, <2>4, ShapeAt DEF Signal, At
    <3> QED
      BY <1>1, <1>2, <2>2, <2>4, <3>1
  <2> QED
    BY <1>4, <2>1, <2>3, <2>4, ShapeTails DEF Signal, sched
<1>5. CASE Spurious(t)
  <2>1. todo[t] = <<"wait">>
    BY <1>1, <1>5, ShapeAt DEF Spurious
  <2> QED
    BY <1>1, <1>2, <1>5, <2>1 DEF Spurious, GoTo, sched
<1>6. CASE Shutdown(t)
  <2>1. todo[t] = <<"shutdown", "cancel", "leave">>
    BY <1>1, <1>6, ShapeAt DEF Shutdown
  <2> QED
    BY <1>1, <1>2, <1>6, <2>1, ShapeTails DEF Shutdown, Continue, GoTo, sched
<1>7. CASE Leave(t)
  <2>1. todo[t] = <<"leave">>
    BY <1>1, <1>7, ShapeAt DEF Leave
  <2> QED
    BY <1>1, <1>2, <1>7, <2>1 DEF Leave, GoTo, sched
<1>8. CASE Stop(t)
  <2>1. todo[t] \in {<<"stop">>, <<"stop", "loop">>}
    BY <1>1, <1>8, ShapeAt DEF Stop, StopShapes
  <2>2. ~At(t, "wait")
    BY <2>1 DEF At
  <2>3. Broadcast[t] = todo[t] /\ Tail(todo[t]) \in Shapes
    BY <1>2, <2>1, <2>2, ShapeTails DEF Broadcast
  <2> QED
    BY <1>8, <2>1, <2>3, BroadcastShapes, ShapeTails DEF Stop, StopAll
<1>9. CASE Sigint(t)
  <2>1. At(t, "poll") => todo[t] = <<"poll">>
    BY <1>1, ShapeAt
  <2> QED
    BY <1>2, <1>9, <2>1, BroadcastShapes DEF Sigint, StopAll
<1>10. CASE Wakes(t) /\ ~signalled
  <2>1. todo[t] = <<"woken">>
    BY <1>1, <1>10, ShapeAt DEF Wakes
  <2> QED
    BY <1>1, <1>2, <1>10, <2>1 DEF Wakes, GoTo, sched
<1> QED
  BY <1>3, <1>4, <1>5, <1>6, <1>7, <1>8, <1>9, <1>10

LEMMA QuietKeeps ==
  ASSUME TypeInv, NEW t \in Threads, Quiet(t)
  PROVE  Hand' = Hand /\ \A S : Kept(S)
<1>1. /\ todo \in [Threads -> Shapes] /\ op \in [Threads -> Operations]
      /\ queue' = queue /\ priv' = priv /\ op' = op
  BY QuietStep DEF TypeInv
<1>2. Holding(todo'[t]) <=> Holding(todo[t])
  BY QuietStep, ShapeKinds
  DEF Goes, RunShapes, TaskShapes, CloseShapes, FirstShapes, LeaveShapes, StopShapes, RestShapes
<1>3. \A u \in Threads \ {t} : Holding(todo'[u]) <=> Holding(todo[u])
  BY QuietStep, ShapeKinds DEF RestShapes
<1>4. Hand' = Hand
  BY <1>1, <1>2, <1>3 DEF Hand
<1> QED
  BY <1>1, <1>4 DEF Kept

(* Steps that go round the loop of do_run_one. *)
Looping(t) == Loop(t) \/ TaskReturns(t) \/ (Wakes(t) /\ signalled)

LEMMA LoopingStep ==
  ASSUME TypeInv, ProgramInv, NEW t \in Threads, Looping(t)
  PROVE  /\ todo[t] \in {<<"loop">>, <<"cleanup">>, <<"woken">>}
         /\ ~Holding(todo[t]) /\ ~Leaving(todo[t]) /\ ~Polling(todo[t])
         /\ queue \o priv[t] \in Queues
         /\ \E q \in Queues : \E i :
              /\ Finds(t, q, i)
              /\ \/ q = queue \o priv[t] /\ todo[t] # <<"cleanup">>
                 \/ q = Append(queue \o priv[t], Task) /\ todo[t] = <<"cleanup">>
         /\ priv' = [priv EXCEPT ![t] = << >>]
         /\ privWork' = privWork /\ work' = work /\ privWork[t] = 0
         /\ UNCHANGED <<stopped, socket, holder, asked>>
         /\ Others(t)
<1>1. /\ todo[t] \in Shapes /\ priv[t] \in Queues /\ queue \in Queues
      /\ \A a : At(t, a) => todo[t] # << >> /\ Head(todo[t]) = a
      /\ privWork \in [Threads -> {0, 1}] /\ work \in Int
  BY DEF TypeInv, At
<1>2. \/ Loop(t) /\ todo[t] = <<"loop">>
      \/ TaskReturns(t) /\ todo[t] = <<"cleanup">>
      \/ Wakes(t) /\ signalled /\ todo[t] = <<"woken">>
  <2>1. CASE Loop(t)
    BY <1>1, <2>1, ShapeAt DEF Loop
  <2>2. CASE TaskReturns(t)
    <3>1. At(t, "cleanup")
      BY <2>2 DEF TaskReturns
    <3> QED
      BY <1>1, <2>2, <3>1, ShapeAt
  <2>3. CASE Wakes(t) /\ signalled
    BY <1>1, <2>3, ShapeAt DEF Wakes
  <2> QED
    BY <2>1, <2>2, <2>3 DEF Looping
<1>3. ~Holding(todo[t]) /\ ~Leaving(todo[t]) /\ ~Polling(todo[t])
  BY <1>2, ShapeKinds DEF RestShapes
<1>4. privWork[t] = 0 /\ (todo[t] = <<"woken">> => priv[t] = << >>)
  BY <1>1, <1>3, ShapeKinds DEF ProgramInv, ProgramAt
<1>5. /\ queue \o priv[t] \in Queues /\ Append(queue \o priv[t], Task) \in Queues
      /\ queue \o priv[t] \o <<Task>> = Append(queue \o priv[t], Task)
  <2>1. Task \in Operations
    BY DEF Operations
  <2> QED
    BY <1>1, <2>1 DEF Queues
<1>6. /\ \E q \in Queues : \E i :
           /\ Finds(t, q, i)
           /\ \/ q = queue \o priv[t] /\ todo[t] # <<"cleanup">>
              \/ q = Append(queue \o priv[t], Task) /\ todo[t] = <<"cleanup">>
      /\ priv' = [priv EXCEPT ![t] = << >>]
      /\ privWork' = privWork /\ work' = work
      /\ UNCHANGED <<stopped, socket, holder, asked>>
  <2>1. CASE Loop(t) /\ todo[t] = <<"loop">>
    <3>1. Finds(t, queue \o priv[t], interrupted) /\ todo[t] # <<"cleanup">>
      BY <2>1 DEF Loop
    <3> QED
      BY <1>5, <2>1, <3>1 DEF Loop
  <2>2. CASE TaskReturns(t) /\ todo[t] = <<"cleanup">>
    <3>1. privWork' = privWork /\ work' = work
      BY <1>1, <1>4, <2>2 DEF TaskReturns
    <3> QED
      BY <1>5, <2>2, <3>1 DEF TaskReturns
  <2>3. CASE Wakes(t) /\ signalled /\ todo[t] = <<"woken">>
    <3>1. queue \o priv[t] = queue
      BY <1>1, <1>4, <2>3 DEF Queues
    <3>2. priv' = [priv EXCEPT ![t] = << >>]
      BY <1>4, <2>3 DEF Wakes, TypeInv
    <3>3. Finds(t, queue \o priv[t], interrupted) /\ todo[t] # <<"cleanup">>
      BY <2>3, <3>1 DEF Wakes
    <3> QED
      BY <1>5, <2>3, <3>2, <3>3 DEF Wakes
  <2> QED
    BY <1>2, <2>1, <2>2, <2>3
<1>7. Others(t)
  BY <1>3, <1>6, FindsTakes DEF Others, TypeInv
<1> QED
  BY <1>2, <1>3, <1>4, <1>5, <1>6, <1>7

LEMMA LoopingKeeps ==
  ASSUME TypeInv, ProgramInv, NEW t \in Threads, Looping(t), NEW S, Task \notin S
  PROVE  Kept(S)
<1>1. PICK q, i :
        /\ q \in Queues
        /\ Finds(t, q, i)
        /\ q \in {queue \o priv[t], Append(queue \o priv[t], Task)}
  BY LoopingStep
<1> DEFINE r == queue \o priv[t]
           pr == [priv EXCEPT ![t] = << >>]
<1>2. /\ queue \in Queues /\ priv \in [Threads -> Queues] /\ r \in Queues
      /\ pr \in [Threads -> Queues] /\ priv' = pr
      /\ Hand \in [Threads -> Operations] /\ Hand[t] = Task
      /\ [Hand EXCEPT ![t] = Task] = Hand /\ ~Holding(todo[t])
  <2>1. << >> \in Queues /\ Task \in Operations
    BY DEF Queues, Operations
  <2> QED
    BY <2>1, LoopingStep, HandsAfter DEF TypeInv
<1>3. /\ AtMostOne(queue, priv, Hand, S) => AtMostOne(r, pr, Hand, S)
      /\ SomeOf(r, pr, Hand, S) <=> SomeOf(queue, priv, Hand, S)
  BY <1>2, Flush
<1> HIDE DEF r, pr
<1>4. LET qq == Append(r, Hand[t])
          hhd == [Hand EXCEPT ![t] = Task]
      IN  /\ AtMostOne(r, pr, Hand, S) => AtMostOne(qq, pr, hhd, S)
          /\ SomeOf(qq, pr, hhd, S) <=> SomeOf(r, pr, Hand, S)
  BY <1>2, Put
<1>5. /\ AtMostOne(r, pr, Hand, S) => AtMostOne(q, pr, Hand, S)
      /\ SomeOf(q, pr, Hand, S) <=> SomeOf(r, pr, Hand, S)
  BY <1>1, <1>2, <1>4 DEF r
<1>6. /\ AtMostOne(q, pr, Hand, S) => AtMostOne(queue', pr, Hand', S)
      /\ SomeOf(queue', pr, Hand', S) <=> SomeOf(q, pr, Hand, S)
  BY <1>1, <1>2, FindsKeeps
<1> QED
  BY <1>2, <1>3, <1>5, <1>6 DEF Kept

(* post_immediate_completion *)
LEMMA EnqueueStep ==
  ASSUME TypeInv, NEW t \in Threads, Enqueue(t)
  PROVE  /\ queue' = Append(queue, op[t]) /\ queue' \in Queues
         /\ UNCHANGED <<stopped, work, op, priv, privWork, socket, asked>>
         /\ Others(t)
         /\ \/ Goes(t, {<<"enqueue", "leave">>}, LeaveShapes)
            \/ Goes(t, {<<"enqueue", "first", "leave">>}, FirstShapes)
         /\ ~Holding(todo'[t])
<1>1. /\ todo[t] \in Shapes /\ todo \in [Threads -> Shapes]
      /\ op \in [Threads -> Operations]
      /\ todo[t] # << >> /\ Head(todo[t]) = "enqueue"
  BY DEF TypeInv, Enqueue, At
<1>2. todo[t] \in {<<"enqueue", "leave">>, <<"enqueue", "first", "leave">>}
  BY <1>1, ShapeAt DEF EnqShapes
<1>3. PICK r : r = Tail(todo[t])
  OBVIOUS
<1>4. GoTo(t, r) \/ GoTo(t, <<"signal">> \o r)
  BY <1>3 DEF Enqueue, WakeOne
<1>5. \/ Goes(t, {<<"enqueue", "leave">>}, LeaveShapes)
      \/ Goes(t, {<<"enqueue", "first", "leave">>}, FirstShapes)
  <2>1. todo'[t] \in {Tail(todo[t]), <<"signal">> \o Tail(todo[t])}
    BY <1>1, <1>3, <1>4 DEF GoTo
  <2>2. CASE todo[t] = <<"enqueue", "leave">>
    BY <2>1, <2>2, ShapeTails DEF Goes, LeaveShapes
  <2>3. CASE todo[t] = <<"enqueue", "first", "leave">>
    BY <2>1, <2>3, ShapeTails DEF Goes, FirstShapes
  <2> QED
    BY <1>2, <2>2, <2>3
<1>6. todo'[t] \in Shapes /\ ~Holding(todo'[t])
  BY <1>5, ShapeKinds DEF Goes, Shapes
<1>7. \A u \in Threads \ {t} : todo'[u] = todo[u]
  BY <1>1, <1>4 DEF GoTo
<1>8. todo' \in [Threads -> Shapes]
  BY <1>1, <1>4, <1>6 DEF GoTo
<1>9. queue' \in Queues
  BY <1>1 DEF Enqueue, TypeInv, Queues
<1> QED
  BY <1>1, <1>5, <1>6, <1>7, <1>8, <1>9 DEF Enqueue, Others

LEMMA EnqueueKeeps ==
  ASSUME TypeInv, NEW t \in Threads, Enqueue(t), NEW S, Task \notin S
  PROVE  Kept(S)
<1>1. /\ queue \in Queues /\ priv \in [Threads -> Queues]
      /\ Hand \in [Threads -> Operations] /\ priv' = priv
      /\ Hand' = [Hand EXCEPT ![t] = Task]
  BY EnqueueStep, HandsAfter DEF TypeInv
<1>2. Hand[t] = op[t]
  <2>1. todo[t] \in EnqShapes
    BY EnqueueStep DEF Goes, EnqShapes
  <2> QED
    BY <2>1, ShapeKinds, EnqueueStep, HandsAfter
<1>3. queue' = Append(queue, Hand[t])
  BY <1>2, EnqueueStep
<1> QED
  BY <1>1, <1>3, Put DEF Kept

(* Steps that change what a thread holds.                                  *)
LEMMA RunsAt ==
  ASSUME TypeInv, NEW t \in Threads, At(t, "run")
  PROVE  todo[t] = <<"run">> /\ Hand[t] = op[t] /\ op[t] \in Operations
<1>1. todo[t] = <<"run">>
  BY ShapeAt DEF At, TypeInv
<1> QED
  BY <1>1, ShapeKinds DEF Hand, TypeInv, RunShapes

LEMMA LeaveAfter ==
  ASSUME TypeInv, NEW t \in Threads, NEW s \in Shapes,
         todo' = [todo EXCEPT ![t] = s], op' \in [Threads -> Operations],
         \A u \in Threads \ {t} :
           op'[u] = op[u] /\ priv'[u] = priv[u] /\ privWork'[u] = privWork[u]
  PROVE  /\ Others(t)
         /\ Hand' = [Hand EXCEPT ![t] = IF Holding(s) THEN op'[t] ELSE Task]
<1>1. Others(t) /\ todo'[t] = s
  BY DEF Others, TypeInv
<1> QED
  BY <1>1, HandsAfter

LEMMA Positive ==
  ASSUME NEW n
  PROVE  \E ok : ok \in BOOLEAN /\ ok = (n > 0)
<1>1. (n > 0) \in BOOLEAN
  OBVIOUS
<1> DEFINE ok == n > 0
<1>2. ok \in BOOLEAN /\ ok = (n > 0)
  BY <1>1
<1> HIDE DEF ok
<1> WITNESS ok
<1> QED
  BY <1>2

LEMMA PerformStep ==
  ASSUME TypeInv, ProgramInv, NEW t \in Threads, Perform(t)
  PROVE  /\ todo[t] = <<"run">> /\ Others(t)
         /\ UNCHANGED <<queue, stopped, asked, work, priv, timer, alive>>
         /\ \E c \in Sockets :
              /\ Hand[t] = Descriptor(c)
              /\ \/ /\ pending[c] /\ pending' = [pending EXCEPT ![c] = FALSE]
                    /\ \E ok \in BOOLEAN : Hand' = [Hand EXCEPT ![t] = Read(c, ok)]
                    /\ privWork' = privWork /\ todo' = todo
                 \/ /\ pending' = pending
                    /\ Hand' = [Hand EXCEPT ![t] = Task]
                    /\ privWork[t] = 0 /\ privWork' = [privWork EXCEPT ![t] = 1]
                    /\ todo' = [todo EXCEPT ![t] = <<"leave">>]
<1>1. /\ todo[t] = <<"run">> /\ op[t] \in Operations /\ Hand[t] = op[t]
      /\ todo[t] \in Shapes /\ op \in [Threads -> Operations]
      /\ todo \in [Threads -> Shapes] /\ Holding(todo[t]) /\ ~Leaving(todo[t])
  BY RunsAt, ShapeKinds DEF Perform, TypeInv, RunShapes
<1>2. privWork[t] = 0 /\ privWork \in [Threads -> {0, 1}]
  BY <1>1 DEF ProgramInv, ProgramAt, TypeInv
<1>3. PICK c \in Sockets : op[t] = Descriptor(c) /\ op[t][2] = c
  BY <1>1, KindsByName DEF Perform
<1>4. UNCHANGED <<queue, stopped, asked, work, priv, timer, alive>>
  BY DEF Perform, sched
<1>5. CASE /\ pending[c] /\ pending' = [pending EXCEPT ![c] = FALSE]
           /\ op' = [op EXCEPT ![t] = Read(c, inbox[c] > 0)]
           /\ privWork' = privWork /\ todo' = todo
  <2>1. PICK ok : ok \in BOOLEAN /\ ok = (inbox[c] > 0)
    BY Positive
  <2>2. Read(c, ok) \in Operations
    <3>1. ok \in BOOLEAN
      BY <2>1
    <3> QED
      BY <3>1 DEF Operations
  <2>3. op' \in [Threads -> Operations] /\ op'[t] = Read(c, ok)
        /\ \A u \in Threads \ {t} : op'[u] = op[u]
    BY <1>1, <1>5, <2>1, <2>2
  <2>4. todo' = [todo EXCEPT ![t] = todo[t]]
    BY <1>1, <1>5
  <2>5. Others(t) /\ Hand' = [Hand EXCEPT ![t] = Read(c, ok)]
    BY <1>1, <1>4, <1>5, <2>3, <2>4, LeaveAfter
  <2> QED
    BY <1>1, <1>3, <1>4, <1>5, <2>1, <2>5
<1>6. CASE /\ pending' = pending /\ op' = op
           /\ privWork' = [privWork EXCEPT ![t] = @ + 1]
           /\ todo' = [todo EXCEPT ![t] = <<"leave">>]
  <2>1. <<"leave">> \in Shapes /\ ~Holding(<<"leave">>)
    BY ShapeKinds DEF Shapes, LeaveShapes
  <2>2. privWork' = [privWork EXCEPT ![t] = 1]
    BY <1>2, <1>6
  <2>3. Others(t) /\ Hand' = [Hand EXCEPT ![t] = Task]
    BY <1>1, <1>2, <1>4, <1>6, <2>1, <2>2, LeaveAfter
  <2> QED
    BY <1>1, <1>2, <1>3, <1>4, <1>6, <2>2, <2>3
<1> QED
  BY <1>3, <1>5, <1>6 DEF Perform, GoTo

(* start_op: Cleared is the state of the hands once the handler's own      *)
(* operation is done with.                                                 *)
Cleared(t) == [Hand EXCEPT ![t] = Task]

StartEffect(t, c, rest) ==
  \E ok \in BOOLEAN :
    \/ /\ c # Listener
       /\ priv' = [priv EXCEPT ![t] = Append(@, Read(c, ok))]
       /\ privWork' = [privWork EXCEPT ![t] = 1]
       /\ todo'[t] = rest /\ Hand' = Cleared(t)
       /\ UNCHANGED <<work, pending>>
    \/ /\ Hand' = [Cleared(t) EXCEPT ![t] = Read(c, ok)]
       /\ op'[t] = Read(c, ok)
       /\ todo'[t] = <<"enqueue">> \o rest /\ work' = work + 1
       /\ UNCHANGED <<priv, privWork, pending>>
    \/ /\ pending' = [pending EXCEPT ![c] = TRUE] /\ Hand' = Cleared(t)
       /\ todo'[t] = rest /\ work' = work + 1
       /\ UNCHANGED <<priv, privWork>>

LEMMA StartReadStep ==
  ASSUME TypeInv, NEW t \in Threads, NEW c \in Sockets, privWork[t] = 0,
         NEW rest \in {<<"leave">>, <<"first", "leave">>},
         StartRead(t, c, rest)
  PROVE  Others(t) /\ StartEffect(t, c, rest)
<1>1. /\ todo \in [Threads -> Shapes] /\ op \in [Threads -> Operations]
      /\ priv \in [Threads -> Queues] /\ privWork \in [Threads -> {0, 1}]
      /\ Hand \in [Threads -> Operations]
  BY DEF TypeInv, Hand, Operations
<1>2. PICK ok : ok \in BOOLEAN /\ ok = (inbox[c] > 0)
  BY Positive
<1>3. Read(c, ok) \in Operations
  <2>1. ok \in BOOLEAN
    BY <1>2
  <2> QED
    BY <2>1 DEF Operations
<1>4. PICK next : next = <<"enqueue">> \o rest
  OBVIOUS
<1>5. /\ rest \in Shapes /\ next \in Shapes /\ ~Holding(rest) /\ Holding(next)
  BY <1>4, ShapeTails, ShapeKinds
  DEF Shapes, EnqShapes, LeaveShapes, FirstShapes
<1>6. CASE /\ priv' = [priv EXCEPT ![t] = Append(@, Read(c, ok))]
           /\ privWork' = [privWork EXCEPT ![t] = @ + 1]
           /\ todo' = [todo EXCEPT ![t] = rest] /\ c # Listener
           /\ UNCHANGED <<work, op, pending>>
  <2>1. privWork' = [privWork EXCEPT ![t] = 1]
    BY <1>1, <1>6
  <2>2. Others(t) /\ Hand' = Cleared(t)
    BY <1>1, <1>5, <1>6, <2>1, LeaveAfter DEF Cleared
  <2>3. todo'[t] = rest
    BY <1>1, <1>6
  <2> QED
    BY <1>2, <1>6, <2>1, <2>2, <2>3 DEF StartEffect
<1>7. CASE /\ op' = [op EXCEPT ![t] = Read(c, ok)]
           /\ todo' = [todo EXCEPT ![t] = next] /\ work' = work + 1
           /\ UNCHANGED <<priv, privWork, pending>>
  <2>1. op' \in [Threads -> Operations] /\ op'[t] = Read(c, ok)
        /\ \A u \in Threads \ {t} : op'[u] = op[u]
    BY <1>1, <1>3, <1>7
  <2>2. Others(t) /\ Hand' = [Hand EXCEPT ![t] = Read(c, ok)]
    BY <1>1, <1>5, <1>7, <2>1, LeaveAfter
  <2>3. Hand' = [Cleared(t) EXCEPT ![t] = Read(c, ok)]
    BY <1>1, <2>2 DEF Cleared
  <2>4. todo'[t] = next
    BY <1>1, <1>7
  <2> QED
    BY <1>2, <1>4, <1>7, <2>1, <2>2, <2>3, <2>4 DEF StartEffect
<1>8. CASE /\ pending' = [pending EXCEPT ![c] = TRUE]
           /\ todo' = [todo EXCEPT ![t] = rest] /\ work' = work + 1
           /\ UNCHANGED <<op, priv, privWork>>
  <2>1. Others(t) /\ Hand' = Cleared(t)
    BY <1>1, <1>5, <1>8, LeaveAfter DEF Cleared
  <2>2. todo'[t] = rest
    BY <1>1, <1>8
  <2> QED
    BY <1>8, <2>1, <2>2 DEF StartEffect
<1> QED
  BY <1>2, <1>4, <1>6, <1>7, <1>8 DEF StartRead, GoTo

LEMMA ReadsOnStep ==
  ASSUME TypeInv, ProgramInv, NEW t \in Threads, ReadsOn(t)
  PROVE  /\ todo[t] = <<"run">> /\ privWork[t] = 0 /\ Others(t)
         /\ UNCHANGED <<queue, stopped, asked, timer, alive>>
         /\ \E c \in Sockets :
              /\ Hand[t] = Read(c, TRUE)
              /\ \E rest \in {<<"leave">>, <<"first", "leave">>} :
                   /\ rest = <<"first", "leave">> => c = Listener
                   /\ StartEffect(t, c, rest)
<1>1. /\ todo[t] = <<"run">> /\ op[t] \in Operations /\ Hand[t] = op[t]
      /\ ~Leaving(todo[t]) /\ privWork \in [Threads -> {0, 1}]
  BY RunsAt, ShapeKinds DEF ReadsOn, TypeInv, RunShapes
<1>2. privWork[t] = 0
  BY <1>1 DEF ProgramInv, ProgramAt
<1>3. PICK c \in Sockets : op[t] = Read(c, TRUE) /\ op[t][2] = c
  BY <1>1, KindsByName DEF ReadsOn
<1>4. PICK rest \in {<<"leave">>, <<"first", "leave">>} :
        /\ rest = <<"first", "leave">> => c = Listener
        /\ StartRead(t, c, rest)
  BY <1>3 DEF ReadsOn
<1>5. Others(t) /\ StartEffect(t, c, rest)
  BY <1>2, <1>4, StartReadStep
<1>6. UNCHANGED <<queue, stopped, asked, timer, alive>>
  BY DEF ReadsOn, sched
<1> QED
  BY <1>1, <1>2, <1>3, <1>4, <1>5, <1>6

LEMMA FirstReadStep ==
  ASSUME TypeInv, ProgramInv, NEW t \in Threads, FirstRead(t)
  PROVE  /\ todo[t] = <<"first", "leave">> /\ privWork[t] = 0 /\ Others(t)
         /\ Hand[t] = Task
         /\ UNCHANGED <<queue, stopped, asked, timer>>
         /\ \E c \in Conns :
              /\ alive[c] = "new" /\ alive' = [alive EXCEPT ![c] = "open"]
              /\ StartEffect(t, c, <<"leave">>)
<1>1. todo[t] = <<"first", "leave">>
  BY ShapeAt DEF FirstRead, At, TypeInv
<1>2. privWork[t] = 0 /\ Hand[t] = Task
  BY <1>1, ShapeKinds DEF ProgramInv, ProgramAt, Accepting, FirstShapes, Hand
<1>3. PICK c \in Conns : /\ alive[c] = "new"
                         /\ alive' = [alive EXCEPT ![c] = "open"]
                         /\ StartRead(t, c, <<"leave">>)
  BY DEF FirstRead
<1>4. c \in Sockets
  BY DEF Sockets
<1>5. Others(t) /\ StartEffect(t, c, <<"leave">>)
  BY <1>2, <1>3, <1>4, StartReadStep
<1>6. UNCHANGED <<queue, stopped, asked, timer>>
  BY DEF FirstRead, sched
<1> QED
  BY <1>1, <1>2, <1>3, <1>5, <1>6

LEMMA DropsStep ==
  ASSUME TypeInv, NEW t \in Threads, Drops(t)
  PROVE  /\ todo[t] = <<"run">> /\ Others(t)
         /\ UNCHANGED <<queue, stopped, asked, work, priv, privWork, pending>>
         /\ \E c \in Sockets, ok \in BOOLEAN :
              /\ Hand[t] = Read(c, ok)
              /\ alive' = [alive EXCEPT ![c] = "gone"]
              /\ timer' = [timer EXCEPT ![c] = "out"]
              /\ \/ /\ timer[c] = "out" /\ todo'[t] = <<"leave">>
                    /\ Hand' = [Hand EXCEPT ![t] = Task]
                 \/ /\ timer[c] # "out" /\ todo'[t] = <<"enqueue", "leave">>
                    /\ op'[t] = Wait(c, FALSE)
                    /\ Hand' = [Hand EXCEPT ![t] = Wait(c, FALSE)]
<1>1. /\ todo[t] = <<"run">> /\ op[t] \in Operations /\ Hand[t] = op[t]
      /\ op \in [Threads -> Operations] /\ todo \in [Threads -> Shapes]
  BY RunsAt DEF Drops, TypeInv
<1>2. PICK c \in Sockets, ok \in BOOLEAN : op[t] = Read(c, ok) /\ op[t][2] = c
  BY <1>1, KindsByName DEF Drops
<1>3. UNCHANGED <<queue, stopped, asked, work, priv, privWork, pending>>
  BY DEF Drops, sched
<1>4. /\ <<"leave">> \in Shapes /\ ~Holding(<<"leave">>)
      /\ <<"enqueue", "leave">> \in Shapes /\ Holding(<<"enqueue", "leave">>)
      /\ Wait(c, FALSE) \in Operations
  <2>1. Wait(c, FALSE) \in Operations
    BY OperationKinds
  <2> QED
    BY <2>1, ShapeKinds DEF Shapes, LeaveShapes, EnqShapes
<1>5. CASE timer[c] = "out"
  <2>1. todo' = [todo EXCEPT ![t] = <<"leave">>] /\ op' = op
    BY <1>2, <1>5 DEF Drops, GoTo
  <2>2. Others(t) /\ Hand' = [Hand EXCEPT ![t] = Task] /\ todo'[t] = <<"leave">>
    BY <1>1, <1>3, <1>4, <2>1, LeaveAfter
  <2> QED
    BY <1>1, <1>2, <1>3, <1>5, <2>2 DEF Drops
<1>6. CASE timer[c] # "out"
  <2>1. /\ todo' = [todo EXCEPT ![t] = <<"enqueue", "leave">>]
        /\ op' = [op EXCEPT ![t] = Wait(c, FALSE)]
    BY <1>2, <1>6 DEF Drops, GoTo
  <2>2. /\ op' \in [Threads -> Operations] /\ op'[t] = Wait(c, FALSE)
        /\ \A u \in Threads \ {t} : op'[u] = op[u]
        /\ todo'[t] = <<"enqueue", "leave">>
    BY <1>1, <1>4, <2>1
  <2>3. Others(t) /\ Hand' = [Hand EXCEPT ![t] = Wait(c, FALSE)]
    BY <1>1, <1>3, <1>4, <2>1, <2>2, LeaveAfter
  <2> QED
    BY <1>1, <1>2, <1>3, <1>6, <2>2, <2>3 DEF Drops
<1> QED
  BY <1>5, <1>6

LEMMA TimesOutStep ==
  ASSUME TypeInv, NEW t \in Threads, TimesOut(t)
  PROVE  /\ todo[t] = <<"run">> /\ Others(t)
         /\ UNCHANGED <<sched, work, op, priv, privWork, socket, asked>>
         /\ Hand' = [Hand EXCEPT ![t] = Task]
         /\ \E c \in Sockets, ok \in BOOLEAN :
              /\ Hand[t] = Wait(c, ok) /\ op[t] = Wait(c, ok)
              /\ todo'[t] \in {<<"shutdown", "cancel", "leave">>, <<"leave">>}
              /\ todo'[t] # <<"leave">> => ok
<1>1. /\ todo[t] = <<"run">> /\ op[t] \in Operations /\ Hand[t] = op[t]
      /\ op \in [Threads -> Operations] /\ todo \in [Threads -> Shapes]
  BY RunsAt DEF TimesOut, TypeInv
<1>2. PICK c \in Sockets, ok \in BOOLEAN :
        op[t] = Wait(c, ok) /\ op[t][2] = c /\ op[t][3] = ok
  BY <1>1, KindsByName DEF TimesOut
<1>3. UNCHANGED <<sched, work, op, priv, privWork, socket, asked>>
  BY DEF TimesOut
<1>4. PICK s \in {<<"shutdown", "cancel", "leave">>, <<"leave">>} :
        todo' = [todo EXCEPT ![t] = s] /\ (s # <<"leave">> => ok)
  BY <1>2 DEF TimesOut, GoTo
<1>5. s \in Shapes /\ ~Holding(s)
  BY ShapeKinds DEF Shapes, LeaveShapes, CloseShapes
<1>6. Others(t) /\ Hand' = [Hand EXCEPT ![t] = Task] /\ todo'[t] = s
  BY <1>1, <1>3, <1>4, <1>5, LeaveAfter
<1> QED
  BY <1>1, <1>2, <1>3, <1>4, <1>6

LEMMA CalledStep ==
  ASSUME TypeInv, NEW t \in Threads, Called(t)
  PROVE  /\ todo[t] = <<"run">> /\ Others(t) /\ todo'[t] = <<"leave">>
         /\ UNCHANGED <<sched, work, op, priv, privWork, socket, asked>>
         /\ Hand[t] = Callback /\ Hand' = [Hand EXCEPT ![t] = Task]
<1>1. /\ todo[t] = <<"run">> /\ Hand[t] = op[t]
      /\ op \in [Threads -> Operations] /\ todo \in [Threads -> Shapes]
  BY RunsAt DEF Called, TypeInv
<1>2. UNCHANGED <<sched, work, op, priv, privWork, socket, asked>>
  BY DEF Called
<1>3. <<"leave">> \in Shapes /\ ~Holding(<<"leave">>)
  BY ShapeKinds DEF Shapes, LeaveShapes
<1>4. todo' = [todo EXCEPT ![t] = <<"leave">>] /\ op[t] = Callback
  BY DEF Called, GoTo
<1>5. Others(t) /\ Hand' = [Hand EXCEPT ![t] = Task] /\ todo'[t] = <<"leave">>
  BY <1>1, <1>2, <1>3, <1>4, LeaveAfter
<1> QED
  BY <1>1, <1>2, <1>4, <1>5

LEMMA CancelStep ==
  ASSUME TypeInv, ProgramInv, NEW t \in Threads, Cancel(t)
  PROVE  /\ todo[t] = <<"cancel", "leave">> /\ Others(t) /\ Hand[t] = Task
         /\ UNCHANGED <<queue, stopped, asked, work, priv, privWork, timer, alive>>
         /\ \/ /\ UNCHANGED pending /\ Hand' = Hand /\ todo'[t] = <<"leave">>
            \/ \E c \in Sockets :
                 /\ pending[c] /\ pending' = [pending EXCEPT ![c] = FALSE]
                 /\ todo'[t] = <<"enqueue", "leave">> /\ op'[t] = Read(c, FALSE)
                 /\ Hand' = [Hand EXCEPT ![t] = Read(c, FALSE)]
<1>1. /\ todo[t] = <<"cancel", "leave">>
      /\ op \in [Threads -> Operations] /\ todo \in [Threads -> Shapes]
  BY ShapeAt DEF Cancel, At, TypeInv
<1>2. Hand[t] = Task /\ Hand \in [Threads -> Operations]
  <2>1. Hand \in [Threads -> Operations]
    BY DEF Hand, TypeInv, Operations
  <2> QED
    BY <1>1, <2>1, ShapeKinds DEF Hand, CloseShapes
<1>3. PICK c \in Sockets : op[t] = Wait(c, TRUE)
  BY <1>1 DEF ProgramInv, ProgramAt, CloseShapes
<1>4. op[t][2] = c
  BY <1>3 DEF Wait
<1>5. UNCHANGED <<queue, stopped, asked, work, priv, privWork, timer, alive>>
  BY DEF Cancel, sched
<1>6. /\ <<"leave">> \in Shapes /\ ~Holding(<<"leave">>)
      /\ <<"enqueue", "leave">> \in Shapes /\ Holding(<<"enqueue", "leave">>)
      /\ Read(c, FALSE) \in Operations
  <2>1. Read(c, FALSE) \in Operations
    BY OperationKinds
  <2> QED
    BY <2>1, ShapeKinds DEF Shapes, LeaveShapes, EnqShapes
<1>7. CASE pending[c]
  <2>1. /\ todo' = [todo EXCEPT ![t] = <<"enqueue", "leave">>]
        /\ op' = [op EXCEPT ![t] = Read(c, FALSE)]
        /\ pending' = [pending EXCEPT ![c] = FALSE]
    BY <1>4, <1>7 DEF Cancel, GoTo
  <2>2. /\ op' \in [Threads -> Operations] /\ op'[t] = Read(c, FALSE)
        /\ \A u \in Threads \ {t} : op'[u] = op[u]
        /\ todo'[t] = <<"enqueue", "leave">>
    BY <1>1, <1>6, <2>1
  <2>3. Others(t) /\ Hand' = [Hand EXCEPT ![t] = Read(c, FALSE)]
    BY <1>1, <1>5, <1>6, <2>1, <2>2, LeaveAfter
  <2> QED
    BY <1>1, <1>2, <1>5, <1>7, <2>1, <2>2, <2>3
<1>8. CASE ~pending[c]
  <2>1. Tail(todo[t]) = <<"leave">>
    BY <1>1, ShapeTails
  <2>2. todo' = [todo EXCEPT ![t] = <<"leave">>] /\ op' = op /\ pending' = pending
    BY <1>4, <1>8, <2>1 DEF Cancel, Continue, GoTo
  <2>3. Others(t) /\ Hand' = [Hand EXCEPT ![t] = Task] /\ todo'[t] = <<"leave">>
    BY <1>1, <1>5, <1>6, <2>2, LeaveAfter
  <2>4. Hand' = Hand
    BY <1>2, <2>3
  <2> QED
    BY <1>1, <1>2, <1>5, <2>2, <2>3, <2>4
<1> QED
  BY <1>7, <1>8

(* What epoll_wait returns: each event, once, in any order.                *)
LEMMA ListsAll ==
  ASSUME NEW S, IsFiniteSet(S), NEW f \in SetToSeqs(S)
  PROVE  /\ f \in Seq(S)
         /\ \A i, j \in 1 .. Len(f) : f[i] = f[j] => i = j
         /\ \A x \in S : \E i \in 1 .. Len(f) : f[i] = x
<1>1. PICK n \in Nat : n = Cardinality(S)
  BY FS_CardinalityType
<1>2. f \in [1 .. n -> S] /\ \A i, j \in 1 .. n : i # j => f[i] # f[j]
  BY <1>1 DEF SetToSeqs
<1>3. f \in Seq(S) /\ Len(f) = n
  BY <1>2
<1>4. f \in Injection(1 .. n, S)
  BY <1>2 DEF Injection, IsInjective
<1>5. Cardinality(1 .. n) = n
  BY FS_Interval
<1>6. f \in Surjection(1 .. n, S)
  BY <1>1, <1>4, <1>5, FS_Injection
<1> QED
  BY <1>2, <1>3, <1>6 DEF Surjection

LEMMA SocketsFinite == IsFiniteSet(Sockets)
BY ThreadsAssumption, FS_AddElement DEF Sockets

LEMMA PollStep ==
  ASSUME TypeInv, ProgramInv, NEW t \in Threads, Poll(t)
  PROVE  /\ todo[t] \in {<<"poll">>, <<"peek">>} /\ todo'[t] = <<"cleanup">>
         /\ Others(t) /\ Hand' = Hand /\ priv[t] = << >>
         /\ UNCHANGED <<queue, stopped, asked, work, privWork, pending, alive>>
         /\ timer' = [c \in Sockets |-> IF timer[c] = "due" THEN "out" ELSE timer[c]]
         /\ \E s \in Queues :
              /\ priv' = [priv EXCEPT ![t] = s]
              /\ \A i, j \in 1 .. Len(s) : s[i] = s[j] => i = j
              /\ \A i \in 1 .. Len(s) : \E c \in Sockets :
                   \/ s[i] = Descriptor(c)
                   \/ s[i] = Wait(c, TRUE) /\ timer[c] = "due"
              /\ \A c \in Sockets : timer[c] = "due" =>
                   \E i \in 1 .. Len(s) : s[i] = Wait(c, TRUE)
<1>1. /\ todo[t] \in {<<"poll">>, <<"peek">>}
      /\ todo \in [Threads -> Shapes] /\ op \in [Threads -> Operations]
      /\ priv \in [Threads -> Queues]
  BY ShapeAt DEF Poll, At, TypeInv
<1>2. ~Holding(todo[t]) /\ ~Keeping(todo[t])
  BY <1>1, ShapeKinds DEF TaskShapes
<1>3. priv[t] = << >>
  BY <1>2 DEF ProgramInv, ProgramAt
<1> DEFINE ready == {c \in Sockets : edge[c]}
           due == {c \in Sockets : timer[c] = "due"}
           D == {Descriptor(c) : c \in ready}
           W == {Wait(c, TRUE) : c \in due}
<1>4. IsFiniteSet(D) /\ IsFiniteSet(W)
  <2>1. IsFiniteSet(ready) /\ IsFiniteSet(due)
    BY SocketsFinite, FS_Subset
  <2>2. [c \in ready |-> Descriptor(c)] \in Surjection(ready, D)
    BY DEF Surjection
  <2>3. [c \in due |-> Wait(c, TRUE)] \in Surjection(due, W)
    BY DEF Surjection
  <2> QED
    BY <2>1, <2>2, <2>3, FS_Surjection
<1>5. PICK ds \in SetToSeqs(D), ws \in SetToSeqs(W) :
        priv' = [priv EXCEPT ![t] = ds \o ws]
  BY DEF Poll
<1>6. D \subseteq Operations /\ W \subseteq Operations
  BY OperationKinds
<1>7. /\ \A x \in D : \E c \in Sockets : x = Descriptor(c)
      /\ \A x \in W : \E c \in Sockets : x = Wait(c, TRUE) /\ timer[c] = "due"
      /\ \A c \in Sockets : timer[c] = "due" => Wait(c, TRUE) \in W
  OBVIOUS
<1> HIDE DEF D, W
<1>8. \A x \in D, y \in W : x # y
  <2>1. \A c, d : Descriptor(c) # Wait(d, TRUE)
    BY DEF Descriptor, Wait
  <2> QED
    BY <1>7, <2>1
<1>9. /\ ds \in Seq(D) /\ \A i, j \in 1 .. Len(ds) : ds[i] = ds[j] => i = j
      /\ ws \in Seq(W) /\ \A i, j \in 1 .. Len(ws) : ws[i] = ws[j] => i = j
      /\ \A x \in W : \E i \in 1 .. Len(ws) : ws[i] = x
  BY <1>4, ListsAll, SMTT(30)
<1>10. PICK m \in Nat, n \in Nat : m = Len(ds) /\ n = Len(ws)
  BY <1>9
<1>11. ds \in Queues /\ ws \in Queues
  BY <1>6, <1>9 DEF Queues
<1>12. PICK s \in Queues : s = ds \o ws
  <2>1. ds \o ws \in Queues
    BY <1>11 DEF Queues
  <2> QED
    BY <2>1
<1>13. /\ Len(s) = m + n
       /\ \A i \in 1 .. m : s[i] = ds[i] /\ s[i] \in D
       /\ \A i \in m + 1 .. m + n : s[i] = ws[i - m] /\ s[i] \in W
       /\ \A i \in 1 .. n : s[i + m] = ws[i]
  BY <1>9, <1>10, <1>11, <1>12 DEF Queues
<1>14. \A i, j \in 1 .. Len(s) : s[i] = s[j] => i = j
  <2> SUFFICES ASSUME NEW i \in 1 .. m + n, NEW j \in 1 .. m + n, s[i] = s[j]
               PROVE  i = j
    BY <1>13
  <2>1. CASE i \in 1 .. m /\ j \in 1 .. m
    BY <1>9, <1>10, <1>13, <2>1
  <2>2. CASE i \in m + 1 .. m + n /\ j \in m + 1 .. m + n
    <3>1. i - m \in 1 .. n /\ j - m \in 1 .. n /\ ws[i - m] = ws[j - m]
      BY <1>13, <2>2
    <3>2. i - m = j - m
      BY <1>9, <1>10, <3>1
    <3> QED
      BY <3>2
  <2>3. CASE i \in 1 .. m /\ j \in m + 1 .. m + n
    BY <1>8, <1>13, <2>3
  <2>4. CASE j \in 1 .. m /\ i \in m + 1 .. m + n
    BY <1>8, <1>13, <2>4
  <2> QED
    BY <2>1, <2>2, <2>3, <2>4
<1>15. \A i \in 1 .. Len(s) : \E c \in Sockets :
         \/ s[i] = Descriptor(c)
         \/ s[i] = Wait(c, TRUE) /\ timer[c] = "due"
  <2> SUFFICES ASSUME NEW i \in 1 .. m + n
               PROVE  \E c \in Sockets :
                        \/ s[i] = Descriptor(c)
                        \/ s[i] = Wait(c, TRUE) /\ timer[c] = "due"
    BY <1>13
  <2>1. s[i] \in D \/ s[i] \in W
    BY <1>13
  <2> QED
    BY <1>7, <2>1
<1>16. ASSUME NEW c \in Sockets, timer[c] = "due"
       PROVE  \E i \in 1 .. Len(s) : s[i] = Wait(c, TRUE)
  <2>1. PICK i \in 1 .. n : ws[i] = Wait(c, TRUE)
    BY <1>7, <1>9, <1>10, <1>16
  <2>2. s[i + m] = Wait(c, TRUE)
    BY <1>13, <2>1
  <2>3. i + m \in 1 .. m + n
    OBVIOUS
  <2> QED
    BY <1>13, <2>2, <2>3
<1>17. <<"cleanup">> \in Shapes /\ ~Holding(<<"cleanup">>)
  BY ShapeKinds DEF Shapes, RestShapes
<1>18. todo' = [todo EXCEPT ![t] = <<"cleanup">>] /\ op' = op
  BY DEF Poll, GoTo
<1>19. UNCHANGED <<queue, stopped, asked, work, privWork, pending, alive>>
  BY DEF Poll
<1>20. Others(t) /\ Hand' = [Hand EXCEPT ![t] = Task] /\ todo'[t] = <<"cleanup">>
  BY <1>1, <1>5, <1>17, <1>18, <1>19, LeaveAfter
<1>21. Hand' = Hand
  BY <1>2, <1>20, HandsAfter
<1>22. timer' = [c \in Sockets |-> IF timer[c] = "due" THEN "out" ELSE timer[c]]
  BY DEF Poll
<1> QED
  BY <1>1, <1>3, <1>5, <1>12, <1>14, <1>15, <1>16, <1>19, <1>20, <1>21, <1>22

(* The world changes no thread and no queue. *)
World == Connect \/ \E c \in Conns : Send(c) \/ Expires(c)

LEMMA WorldStep ==
  ASSUME TypeInv, World \/ UNCHANGED vars
  PROVE  /\ UNCHANGED <<queue, stopped, asked, work, thread, pending, alive>>
         /\ Hand' = Hand
         /\ timer' \in [Sockets -> {"armed", "due", "out"}]
         /\ \A c \in Sockets : timer'[c] = "out" <=> timer[c] = "out"
<1>1. UNCHANGED <<queue, stopped, asked, work, thread, pending, alive>>
  BY DEF World, Connect, Send, Expires, vars, sched, thread, socket
<1>2. Hand' = Hand
  BY <1>1 DEF Hand, thread
<1>3. UNCHANGED timer \/ \E c \in Conns : Expires(c)
  BY DEF World, Connect, Send, Expires, vars, socket
<1>4. /\ timer' \in [Sockets -> {"armed", "due", "out"}]
      /\ \A c \in Sockets : timer'[c] = "out" <=> timer[c] = "out"
  <2>1. CASE UNCHANGED timer
    BY <2>1 DEF TypeInv
  <2>2. ASSUME NEW c \in Conns, Expires(c)
        PROVE  /\ timer' \in [Sockets -> {"armed", "due", "out"}]
               /\ \A d \in Sockets : timer'[d] = "out" <=> timer[d] = "out"
    BY <2>2 DEF Expires, TypeInv
  <2> QED
    BY <1>3, <2>1, <2>2
<1> QED
  BY <1>1, <1>2, <1>4

LEMMA Cases ==
  ASSUME [Next]_vars
  PROVE  \/ World \/ UNCHANGED vars
         \/ \E t \in Threads :
              \/ Quiet(t) \/ Looping(t) \/ Enqueue(t) \/ Perform(t) \/ ReadsOn(t)
              \/ FirstRead(t) \/ Drops(t) \/ TimesOut(t) \/ Cancel(t)
              \/ Called(t) \/ Poll(t)
<1>1. \A t \in Threads : Wakes(t) => Quiet(t) \/ Looping(t)
  BY DEF Quiet, Looping
<1> QED
  BY <1>1 DEF Next, Step, World, Quiet, Looping

LEMMA QuietSockets ==
  ASSUME TypeInv, NEW t \in Threads, Quiet(t)
  PROVE  /\ UNCHANGED <<pending, timer, alive>>
         /\ \/ UNCHANGED <<work, privWork>>
            \/ Leave(t) /\ work' = work + privWork[t] - 1
                 /\ privWork' = [privWork EXCEPT ![t] = 0]
                 /\ (todo'[t] = <<"stop", "loop">> =>
                       work' = 0 /\ privWork[t] = 0)
         /\ \/ UNCHANGED <<stopped, asked>>
            \/ Stop(t) /\ UNCHANGED asked
            \/ Sigint(t) /\ asked' = TRUE
         /\ Begin(t) /\ todo'[t] = <<"stop">> => work = 0 /\ work' = 0
         /\ Others(t)
<1>1. UNCHANGED <<pending, timer, alive>>
  BY DEF Quiet, Begin, Signal, Spurious, Shutdown, Leave, Stop, Sigint, Wakes,
         socket
<1>2. \/ UNCHANGED <<work, privWork>>
      \/ Leave(t) /\ work' = work + privWork[t] - 1
           /\ privWork' = [privWork EXCEPT ![t] = 0]
  BY DEF Quiet, Begin, Signal, Spurious, Shutdown, Leave, Stop, Sigint, Wakes
<1>3. ASSUME Leave(t), todo'[t] = <<"stop", "loop">>
      PROVE  work' = 0 /\ privWork[t] = 0
  BY <1>3 DEF Leave, GoTo, TypeInv
<1>4. \/ UNCHANGED <<stopped, asked>>
      \/ Stop(t) /\ UNCHANGED asked
      \/ Sigint(t) /\ asked' = TRUE
  BY DEF Quiet, Begin, Signal, Spurious, Shutdown, Leave, Stop, Sigint, Wakes,
         sched
<1>5. Begin(t) /\ todo'[t] = <<"stop">> => work = 0 /\ work' = 0
  BY DEF Begin, GoTo, TypeInv
<1>6. \A u \in Threads \ {t} : privWork'[u] = privWork[u]
  BY <1>2 DEF TypeInv
<1>7. Others(t)
  BY <1>6, QuietStep DEF Others, TypeInv
<1> QED
  BY <1>1, <1>2, <1>3, <1>4, <1>5, <1>7

LEMMA TypePreserved ==
  ASSUME TypeInv, ProgramInv, [Next]_vars
  PROVE  TypeInv'
<1> USE DEF TypeInv
<1>0. << >> \in Queues
  BY DEF Queues
<1>1. CASE World \/ UNCHANGED vars
  BY <1>1, WorldStep DEF thread
<1>2. ASSUME NEW t \in Threads, Quiet(t) PROVE TypeInv'
  <2>1. CASE UNCHANGED <<work, privWork>>
    BY <1>2, <2>1, QuietStep, QuietSockets
  <2>2. CASE /\ work' = work + privWork[t] - 1
             /\ privWork' = [privWork EXCEPT ![t] = 0]
    <3>1. work' \in Int /\ privWork' \in [Threads -> {0, 1}]
      BY <2>2
    <3> QED
      BY <1>2, <3>1, QuietStep, QuietSockets
  <2> QED
    BY <1>2, <2>1, <2>2, QuietSockets
<1>3. ASSUME NEW t \in Threads, Looping(t) PROVE TypeInv'
  <2>1. queue' \in Queues
    BY <1>3, LoopingStep, FindsTakes
  <2>2. priv' \in [Threads -> Queues]
    BY <1>0, <1>3, LoopingStep
  <2> QED
    BY <1>3, <2>1, <2>2, LoopingStep DEF Others, socket
<1>4. ASSUME NEW t \in Threads, Enqueue(t) PROVE TypeInv'
  BY <1>4, EnqueueStep DEF Others, socket
<1>5. ASSUME NEW t \in Threads, Perform(t) PROVE TypeInv'
  <2>1. PICK c \in Sockets :
              \/ /\ pending[c] /\ pending' = [pending EXCEPT ![c] = FALSE]
                 /\ privWork' = privWork
              \/ /\ pending' = pending
                 /\ privWork' = [privWork EXCEPT ![t] = 1]
    BY <1>5, PerformStep
  <2> QED
    BY <1>5, <2>1, PerformStep DEF Others
<1>6. ASSUME NEW t \in Threads, NEW c \in Sockets, NEW rest, Others(t),
             StartEffect(t, c, rest), queue' = queue, timer' = timer,
             alive' \in [Sockets -> {"new", "open", "gone"}]
      PROVE  TypeInv'
  <2>1. PICK ok \in BOOLEAN :
         \/ /\ priv' = [priv EXCEPT ![t] = Append(@, Read(c, ok))]
            /\ privWork' = [privWork EXCEPT ![t] = 1]
            /\ UNCHANGED <<work, pending>>
         \/ work' = work + 1 /\ UNCHANGED <<priv, privWork, pending>>
         \/ /\ pending' = [pending EXCEPT ![c] = TRUE]
            /\ work' = work + 1 /\ UNCHANGED <<priv, privWork>>
    BY <1>6 DEF StartEffect
  <2>2. Append(priv[t], Read(c, ok)) \in Queues
    <3>1. Read(c, ok) \in Operations /\ priv[t] \in Queues
      BY OperationKinds
    <3> QED
      BY <3>1 DEF Queues
  <2>3. /\ priv' \in [Threads -> Queues] /\ privWork' \in [Threads -> {0, 1}]
        /\ work' \in Int /\ pending' \in [Sockets -> BOOLEAN]
    <3>1. CASE /\ priv' = [priv EXCEPT ![t] = Append(@, Read(c, ok))]
               /\ privWork' = [privWork EXCEPT ![t] = 1]
               /\ UNCHANGED <<work, pending>>
      BY <2>2, <3>1
    <3>2. CASE work' = work + 1 /\ UNCHANGED <<priv, privWork, pending>>
      BY <3>2
    <3>3. CASE /\ pending' = [pending EXCEPT ![c] = TRUE]
               /\ work' = work + 1 /\ UNCHANGED <<priv, privWork>>
      BY <3>3
    <3> QED
      BY <2>1, <3>1, <3>2, <3>3
  <2> QED
    BY <1>6, <2>3 DEF Others
<1>7. ASSUME NEW t \in Threads, ReadsOn(t) PROVE TypeInv'
  BY <1>6, <1>7, ReadsOnStep
<1>8. ASSUME NEW t \in Threads, FirstRead(t) PROVE TypeInv'
  <2>1. PICK c \in Conns : /\ alive' = [alive EXCEPT ![c] = "open"]
                           /\ StartEffect(t, c, <<"leave">>)
    BY <1>8, FirstReadStep
  <2>2. c \in Sockets
    BY DEF Sockets
  <2> QED
    BY <1>6, <1>8, <2>1, <2>2, FirstReadStep
<1>9. ASSUME NEW t \in Threads, Drops(t) PROVE TypeInv'
  BY <1>9, DropsStep DEF Others
<1>10. ASSUME NEW t \in Threads, TimesOut(t) \/ Called(t) PROVE TypeInv'
  BY <1>10, TimesOutStep, CalledStep DEF Others, sched, socket
<1>11. ASSUME NEW t \in Threads, Cancel(t) PROVE TypeInv'
  BY <1>11, CancelStep DEF Others
<1>12. ASSUME NEW t \in Threads, Poll(t) PROVE TypeInv'
  <2>1. priv' \in [Threads -> Queues]
    BY <1>12, PollStep
  <2>2. timer' \in [Sockets -> {"armed", "due", "out"}]
    <3>1. timer' = [c \in Sockets |-> IF timer[c] = "due" THEN "out"
                                      ELSE timer[c]]
      BY <1>12, PollStep
    <3>2. timer \in [Sockets -> {"armed", "due", "out"}]
      BY DEF TypeInv
    <3> QED
      BY <3>1, <3>2
  <2> QED
    BY <1>12, <2>1, <2>2, PollStep DEF Others
<1> QED
  BY <1>1, <1>2, <1>3, <1>4, <1>5, <1>7, <1>8, <1>9, <1>10, <1>11, <1>12, Cases

----------------------------------------------------------------------------
(* Each part of the invariant is preserved                                 *)

LEMMA ShapesApart ==
  /\ \A s \in RunShapes \cup TaskShapes \cup LeaveShapes \cup StopShapes
               \cup RestShapes :
       s \notin CloseShapes /\ s \notin EnqShapes /\ ~Accepting(s)
  /\ \A s \in CloseShapes : s \notin EnqShapes /\ ~Accepting(s)
  /\ \A s \in EnqShapes : s \notin CloseShapes
  /\ \A s \in FirstShapes : s \notin CloseShapes /\ s \notin EnqShapes /\ Accepting(s)
  /\ Accepting(<<"enqueue", "first", "leave">>)
  /\ ~Accepting(<<"enqueue", "leave">>)
  /\ Keeping(<<"loop">>) /\ Keeping(<<"stop", "loop">>) /\ Keeping(<<"cleanup">>)
BY DEF RunShapes, EnqShapes, TaskShapes, CloseShapes, FirstShapes, LeaveShapes,
       StopShapes, RestShapes, Accepting, Keeping

LEMMA ProgramPreserved ==
  ASSUME TypeInv, ProgramInv, [Next]_vars
  PROVE  ProgramInv'
<1>0. privWork \in [Threads -> {0, 1}] /\ priv \in [Threads -> Queues]
  BY DEF TypeInv
<1>1. CASE World \/ UNCHANGED vars
  BY <1>1, WorldStep DEF thread, ProgramInv, ProgramAt
<1>2. ASSUME NEW t \in Threads, Others(t), ProgramAt(t)' PROVE ProgramInv'
  <2>1. ASSUME NEW u \in Threads \ {t} PROVE ProgramAt(u)'
    BY <1>2, OthersKeep DEF Others, ProgramInv, ProgramAt
  <2> QED
    BY <1>2, <2>1 DEF ProgramInv
<1>16. ASSUME NEW t \in Threads, priv'[t] = << >> \/ Keeping(todo'[t]),
              privWork'[t] = 0 \/ Leaving(todo'[t]),
              todo'[t] \in RunShapes \cup TaskShapes \cup LeaveShapes
                             \cup StopShapes \cup RestShapes
       PROVE  ProgramAt(t)'
  <2>1. /\ todo'[t] \notin CloseShapes /\ todo'[t] \notin EnqShapes
        /\ ~Accepting(todo'[t])
    BY <1>16, ShapesApart
  <2>2. (priv[t] # << >> => Keeping(todo[t]))'
    BY <1>16
  <2>3. (privWork[t] = 1 => Leaving(todo[t]))'
    BY <1>16
  <2>4. (todo[t] \in CloseShapes => \E c \in Sockets : op[t] = Wait(c, TRUE))'
    BY <2>1
  <2>5. (todo[t] \in EnqShapes =>
            \E c \in Sockets : op[t] \in ReadsOf(c) \cup WaitsOf(c))'
    BY <2>1
  <2>6. (Accepting(todo[t]) => privWork[t] = 0)'
    BY <2>1
  <2> QED
    BY <2>2, <2>3, <2>4, <2>5, <2>6 DEF ProgramAt
<1>17. ASSUME NEW t \in Threads, Leaving(todo'[t]), Keeping(todo'[t]),
              todo'[t] \in CloseShapes => \E c \in Sockets : op'[t] = Wait(c, TRUE),
              todo'[t] \in EnqShapes => \E c \in Sockets :
                                          op'[t] \in ReadsOf(c) \cup WaitsOf(c),
              Accepting(todo'[t]) => privWork'[t] = 0
       PROVE  ProgramAt(t)'
  <2>1. (priv[t] # << >> => Keeping(todo[t]))'
    BY <1>17
  <2>2. (privWork[t] = 1 => Leaving(todo[t]))'
    BY <1>17
  <2>3. (todo[t] \in CloseShapes => \E c \in Sockets : op[t] = Wait(c, TRUE))'
    BY <1>17
  <2>4. (todo[t] \in EnqShapes =>
            \E c \in Sockets : op[t] \in ReadsOf(c) \cup WaitsOf(c))'
    BY <1>17
  <2>5. (Accepting(todo[t]) => privWork[t] = 0)'
    BY <1>17
  <2> QED
    BY <2>1, <2>2, <2>3, <2>4, <2>5 DEF ProgramAt
<1>18. ASSUME NEW t \in Threads, todo'[t] = <<"leave">> PROVE ProgramAt(t)'
  <2>1. todo'[t] \in LeaveShapes
    BY <1>18 DEF LeaveShapes
  <2> QED
    BY <1>16, <2>1, ShapeKinds
<1>3. ASSUME NEW t \in Threads, Quiet(t) PROVE ProgramAt(t)'
  <2>1. priv' = priv /\ op' = op /\ ProgramAt(t)
        /\ (privWork'[t] = privWork[t] \/ (Leave(t) /\ privWork'[t] = 0))
    BY <1>0, <1>3, QuietStep, QuietSockets DEF ProgramInv
  <2>2. /\ Keeping(todo[t]) => Keeping(todo'[t]) \/ todo[t] = <<"leave">>
        /\ Leaving(todo[t]) => Leaving(todo'[t]) \/ Leave(t)
    BY <1>3, QuietStep, ShapeKinds, ShapesApart
    DEF Goes, RunShapes, TaskShapes, CloseShapes, FirstShapes, LeaveShapes,
        StopShapes, RestShapes
  <2>3. CASE Sigint(t) /\ todo'[t] = todo[t]
    <3>1. /\ todo'[t] = todo[t] /\ priv'[t] = priv[t] /\ op'[t] = op[t]
          /\ privWork'[t] = privWork[t]
      BY <2>1, <2>3 DEF Sigint
    <3> QED
      BY <2>1, <3>1 DEF ProgramAt
  <2>4. CASE Goes(t, {<<"signal", "first", "leave">>}, {<<"first", "leave">>})
    <3>1. todo[t] \in FirstShapes /\ todo'[t] \in FirstShapes
      BY <2>4 DEF Goes, FirstShapes
    <3>2. Accepting(todo[t])
      BY <3>1, ShapesApart
    <3>3. privWork[t] = 0
      BY <2>1, <3>2 DEF ProgramAt
    <3>4. privWork'[t] = 0
      BY <2>1, <3>3
    <3> QED
      BY <1>17, <3>1, <3>4, ShapeKinds, ShapesApart
  <2>5. CASE Goes(t, {<<"shutdown", "cancel", "leave">>}, {<<"cancel", "leave">>})
    <3>1. todo[t] \in CloseShapes /\ todo'[t] \in CloseShapes
      BY <2>5 DEF Goes, CloseShapes
    <3>2. \E c \in Sockets : op'[t] = Wait(c, TRUE)
      BY <2>1, <3>1 DEF ProgramAt
    <3> QED
      BY <1>17, <3>1, <3>2, ShapeKinds, ShapesApart
  <2>6. CASE \/ Begin(t) /\ Goes(t, {<<"begin">>}, {<<"stop">>, <<"loop">>})
             \/ Signal(t) /\ Goes(t, {<<"signal", "run">>}, {<<"run">>})
             \/ Signal(t) /\ Goes(t, {<<"signal", "peek">>}, {<<"peek">>})
             \/ Signal(t) /\ Goes(t, {<<"signal", "leave">>}, {<<"leave">>})
             \/ Spurious(t) /\ Goes(t, {<<"wait">>}, {<<"woken">>})
             \/ Leave(t) /\ Goes(t, {<<"leave">>}, {<<"stop", "loop">>, <<"loop">>})
             \/ Stop(t) /\ Goes(t, {<<"stop">>}, {<< >>})
             \/ Stop(t) /\ Goes(t, {<<"stop", "loop">>}, {<<"loop">>})
             \/ Sigint(t) /\ Goes(t, {<<"wait">>}, {<<"woken">>})
             \/ Sigint(t) /\ Goes(t, {<<"poll">>}, {<<"cleanup">>})
             \/ Wakes(t) /\ ~signalled /\ Goes(t, {<<"woken">>}, {<<"wait">>})
    <3>1. todo'[t] \in RunShapes \cup TaskShapes \cup LeaveShapes
                         \cup StopShapes \cup RestShapes
      BY <2>6 DEF Goes, RunShapes, TaskShapes, LeaveShapes, StopShapes, RestShapes
    <3>2. priv'[t] = << >> \/ Keeping(todo'[t])
      <4>1. todo[t] = <<"leave">> => Keeping(todo'[t])
        BY <2>6, ShapesApart DEF Goes
      <4>2. Keeping(todo[t]) \/ priv[t] = << >>
        BY <2>1 DEF ProgramAt
      <4> QED
        BY <2>1, <2>2, <4>1, <4>2
    <3>3. privWork'[t] = 0 \/ Leaving(todo'[t])
      <4>1. Leaving(todo[t]) \/ privWork[t] = 0
        BY <1>0, <2>1 DEF ProgramAt
      <4>2. Leave(t) => privWork'[t] = 0
        BY <1>0 DEF Leave
      <4> QED
        BY <2>1, <2>2, <4>1, <4>2
    <3> QED
      BY <1>16, <3>1, <3>2, <3>3
  <2> QED
    BY <1>3, <2>3, <2>4, <2>5, <2>6, QuietStep
<1>4. ASSUME NEW t \in Threads, Looping(t) PROVE ProgramAt(t)'
  <2>1. priv'[t] = << >> /\ privWork'[t] = 0
    BY <1>0, <1>4, LoopingStep
  <2>2. todo'[t] \in RunShapes \cup TaskShapes \cup RestShapes
    BY <1>4, LoopingStep, FindsTakes DEF RestShapes
  <2> QED
    BY <1>16, <2>1, <2>2
<1>5. ASSUME NEW t \in Threads, Enqueue(t) PROVE ProgramAt(t)'
  <2>1. /\ todo[t] \in EnqShapes /\ ProgramAt(t)
        /\ priv' = priv /\ privWork' = privWork
    BY <1>5, EnqueueStep DEF Goes, EnqShapes, ProgramInv
  <2>2. \/ todo[t] = <<"enqueue", "leave">> /\ todo'[t] \in LeaveShapes
        \/ todo[t] = <<"enqueue", "first", "leave">> /\ todo'[t] \in FirstShapes
    BY <1>5, EnqueueStep DEF Goes
  <2> QED
    BY <2>1, <2>2, ShapeKinds, ShapesApart DEF ProgramAt
<1>6. ASSUME NEW t \in Threads, todo[t] = <<"run">>
      PROVE  priv[t] = << >> /\ privWork[t] = 0
  BY <1>0, <1>6, ShapeKinds DEF ProgramInv, ProgramAt, RunShapes
<1>7. ASSUME NEW t \in Threads, Perform(t) PROVE ProgramAt(t)'
  <2>1. \/ todo' = todo /\ privWork' = privWork
        \/ todo' = [todo EXCEPT ![t] = <<"leave">>]
    BY <1>7, PerformStep
  <2>2. /\ todo[t] = <<"run">> /\ priv' = priv
        /\ \/ todo'[t] = <<"run">> /\ privWork'[t] = 0
           \/ todo'[t] = <<"leave">>
    BY <1>6, <1>7, <2>1, PerformStep DEF TypeInv
  <2>3. CASE todo'[t] = <<"run">> /\ privWork'[t] = 0
    <3>1. priv'[t] = << >> /\ todo'[t] \in RunShapes
      BY <1>6, <2>2, <2>3 DEF RunShapes
    <3> QED
      BY <1>16, <2>3, <3>1
  <2> QED
    BY <1>18, <2>2, <2>3
<1>8. ASSUME NEW t \in Threads, NEW c \in Sockets,
             NEW rest \in {<<"leave">>, <<"first", "leave">>}, privWork[t] = 0,
             rest = <<"first", "leave">> => c = Listener,
             StartEffect(t, c, rest)
      PROVE  ProgramAt(t)'
  <2>1. PICK ok \in BOOLEAN :
         \/ todo'[t] = rest /\ c # Listener
         \/ /\ todo'[t] = <<"enqueue">> \o rest /\ op'[t] = Read(c, ok)
            /\ privWork' = privWork
         \/ todo'[t] = rest /\ privWork' = privWork
    BY <1>8 DEF StartEffect
  <2>2. Read(c, ok) \in ReadsOf(c)
    BY DEF ReadsOf
  <2>3. /\ rest \in LeaveShapes \cup FirstShapes
        /\ <<"enqueue">> \o rest \in EnqShapes
        /\ rest = <<"leave">> \/ rest = <<"first", "leave">>
    BY ShapeTails DEF LeaveShapes, FirstShapes, EnqShapes
  <2>4. todo'[t] = rest => ProgramAt(t)'
    BY <1>8, <2>1, <2>3, ShapeKinds, ShapesApart DEF ProgramAt, LeaveShapes, FirstShapes
  <2>5. ASSUME todo'[t] = <<"enqueue">> \o rest, op'[t] = Read(c, ok),
               privWork' = privWork
        PROVE  ProgramAt(t)'
    <3>1. todo'[t] \in EnqShapes
      BY <2>3, <2>5
    <3>2. op'[t] \in ReadsOf(c) \cup WaitsOf(c) /\ privWork'[t] = 0
      BY <1>8, <2>2, <2>5
    <3> QED
      BY <1>17, <3>1, <3>2, ShapeKinds, ShapesApart
  <2> QED
    BY <2>1, <2>4, <2>5
<1>9. ASSUME NEW t \in Threads, ReadsOn(t) PROVE ProgramAt(t)'
  BY <1>8, <1>9, ReadsOnStep
<1>10. ASSUME NEW t \in Threads, FirstRead(t) PROVE ProgramAt(t)'
  <2>1. PICK c \in Conns : StartEffect(t, c, <<"leave">>)
    BY <1>10, FirstReadStep
  <2>2. c \in Sockets /\ privWork[t] = 0 /\ <<"leave">> # <<"first", "leave">>
    BY <1>10, FirstReadStep DEF Sockets
  <2> QED
    BY <1>8, <2>1, <2>2
<1>11. ASSUME NEW t \in Threads, Drops(t) PROVE ProgramAt(t)'
  <2>1. PICK c \in Sockets :
          \/ todo'[t] = <<"leave">>
          \/ todo'[t] = <<"enqueue", "leave">> /\ op'[t] = Wait(c, FALSE)
    BY <1>11, DropsStep
  <2>2. priv'[t] = << >> /\ privWork'[t] = 0
    BY <1>6, <1>11, DropsStep
  <2>3. Wait(c, FALSE) \in WaitsOf(c)
    BY DEF WaitsOf
  <2> QED
    <3>1. CASE todo'[t] = <<"enqueue", "leave">> /\ op'[t] = Wait(c, FALSE)
      <4>1. todo'[t] \in EnqShapes
        BY <3>1 DEF EnqShapes
      <4>2. op'[t] \in ReadsOf(c) \cup WaitsOf(c)
        BY <2>3, <3>1
      <4> QED
        BY <1>17, <2>2, <4>1, <4>2, ShapeKinds, ShapesApart
    <3> QED
      BY <1>18, <2>1, <3>1
<1>12. ASSUME NEW t \in Threads, TimesOut(t) PROVE ProgramAt(t)'
  <2>1. PICK c \in Sockets, ok \in BOOLEAN :
          /\ op'[t] = Wait(c, ok)
          /\ todo'[t] \in {<<"shutdown", "cancel", "leave">>, <<"leave">>}
          /\ todo'[t] # <<"leave">> => ok
    BY <1>12, TimesOutStep
  <2>2. priv'[t] = << >> /\ privWork'[t] = 0
    BY <1>6, <1>12, TimesOutStep
  <2>3. CASE todo'[t] = <<"leave">>
    BY <1>18, <2>3
  <2>4. CASE todo'[t] = <<"shutdown", "cancel", "leave">> /\ ok = TRUE
    <3>1. todo'[t] \in CloseShapes
      BY <2>4 DEF CloseShapes
    <3>2. op'[t] = Wait(c, TRUE)
      BY <2>1, <2>4
    <3> QED
      BY <1>17, <3>1, <3>2, ShapeKinds, ShapesApart
  <2> QED
    BY <2>1, <2>3, <2>4
<1>13. ASSUME NEW t \in Threads, Called(t) PROVE ProgramAt(t)'
  BY <1>13, <1>18, CalledStep
<1>14. ASSUME NEW t \in Threads, Cancel(t) PROVE ProgramAt(t)'
  <2>1. /\ todo'[t] = <<"leave">>
           \/ \E c \in Sockets :
                todo'[t] = <<"enqueue", "leave">> /\ op'[t] = Read(c, FALSE)
    BY <1>14, CancelStep
  <2>2. \A c : Read(c, FALSE) \in ReadsOf(c)
    BY DEF ReadsOf
  <2>3. ASSUME NEW c \in Sockets, todo'[t] = <<"enqueue", "leave">>,
               op'[t] = Read(c, FALSE)
        PROVE  ProgramAt(t)'
    <3>1. todo'[t] \in EnqShapes
      BY <2>3 DEF EnqShapes
    <3>2. op'[t] \in ReadsOf(c) \cup WaitsOf(c)
      BY <2>2, <2>3
    <3> QED
      BY <1>17, <2>3, <3>1, <3>2, ShapeKinds, ShapesApart
  <2> QED
    BY <1>18, <2>1, <2>3
<1>15. ASSUME NEW t \in Threads, Poll(t) PROVE ProgramAt(t)'
  <2>1. ~Leaving(todo[t])
    BY <1>15, PollStep, ShapeKinds DEF TaskShapes
  <2>2. privWork'[t] = 0 /\ todo'[t] = <<"cleanup">>
    BY <1>0, <1>15, <2>1, PollStep DEF ProgramInv, ProgramAt
  <2> QED
    <3>1. todo'[t] \in RestShapes
      BY <2>2 DEF RestShapes
    <3> QED
      BY <1>16, <2>2, <3>1, ShapesApart
<1> QED
  BY <1>1, <1>2, <1>3, <1>4, <1>5, <1>7, <1>9, <1>10, <1>11, <1>12, <1>13,
     <1>14, <1>15, Cases, QuietSockets, LoopingStep, EnqueueStep, PerformStep,
     ReadsOnStep, FirstReadStep, DropsStep, TimesOutStep, CalledStep,
     CancelStep, PollStep

LEMMA TaskShapesApart ==
  /\ \A s \in RunShapes \cup EnqShapes \cup CloseShapes \cup FirstShapes
               \cup LeaveShapes \cup StopShapes :
       ~Polling(s) /\ s # <<"cleanup">>
  /\ \A s \in {<< >>, <<"begin">>, <<"loop">>, <<"wait">>, <<"woken">>} :
       ~Polling(s) /\ s # <<"cleanup">>
BY DEF RunShapes, EnqShapes, TaskShapes, CloseShapes, FirstShapes, LeaveShapes,
       StopShapes, Polling

(* Steps that do not touch the queues, or add a read to a thread's own.    *)
Aside(t) ==
  /\ Others(t) /\ queue' = queue
  /\ HasTask(t)' <=> HasTask(t)
  /\ todo[t] = <<"cleanup">> => todo'[t] = <<"cleanup">>
  /\ \/ priv' = priv
     \/ \E c \in Sockets, ok \in BOOLEAN :
          priv' = [priv EXCEPT ![t] = Append(@, Read(c, ok))]

LEMMA StartAside ==
  ASSUME TypeInv, NEW t \in Threads, NEW c \in Sockets,
         NEW rest \in {<<"leave">>, <<"first", "leave">>},
         Others(t), queue' = queue, StartEffect(t, c, rest),
         todo[t] \in RunShapes \cup FirstShapes
  PROVE  Aside(t)
<1>1. todo'[t] \in LeaveShapes \cup FirstShapes \cup EnqShapes
  BY ShapeTails DEF StartEffect, LeaveShapes, FirstShapes, EnqShapes
<1>2. \/ priv' = priv
      \/ \E ok \in BOOLEAN : priv' = [priv EXCEPT ![t] = Append(@, Read(c, ok))]
  BY DEF StartEffect
<1>3. /\ ~HasTask(t) /\ ~HasTask(t)' /\ todo[t] # <<"cleanup">>
  BY <1>1, TaskShapesApart DEF HasTask
<1> QED
  BY <1>2, <1>3 DEF Aside

LEMMA StepsAside ==
  ASSUME TypeInv, ProgramInv, NEW t \in Threads,
         \/ Quiet(t) \/ Perform(t) \/ ReadsOn(t) \/ FirstRead(t) \/ Drops(t)
         \/ TimesOut(t) \/ Called(t) \/ Cancel(t)
  PROVE  Aside(t)
<1>1. CASE Quiet(t)
  <2>1. /\ HasTask(t)' <=> HasTask(t)
        /\ todo[t] = <<"cleanup">> => todo'[t] = <<"cleanup">>
    BY <1>1, QuietStep, ShapeKinds, TaskShapesApart, SMTT(30)
    DEF HasTask, Goes, RunShapes, TaskShapes, CloseShapes, FirstShapes,
        LeaveShapes, StopShapes
  <2> QED
    BY <1>1, <2>1, QuietStep, QuietSockets DEF Aside
<1>2. ASSUME Others(t), queue' = queue, priv' = priv,
             todo[t] \in RunShapes \cup CloseShapes,
             todo'[t] \in {<<"run">>, <<"leave">>, <<"enqueue", "leave">>,
                           <<"shutdown", "cancel", "leave">>}
      PROVE  Aside(t)
  <2>1. todo'[t] \in RunShapes \cup LeaveShapes \cup EnqShapes \cup CloseShapes
    BY <1>2 DEF RunShapes, LeaveShapes, EnqShapes, CloseShapes
  <2>2. ~HasTask(t) /\ ~HasTask(t)' /\ todo[t] # <<"cleanup">>
    BY <1>2, <2>1, TaskShapesApart DEF HasTask
  <2> QED
    BY <1>2, <2>2 DEF Aside
<1>3. <<"run">> \in RunShapes /\ <<"cancel", "leave">> \in CloseShapes
      /\ <<"first", "leave">> \in FirstShapes
  BY DEF RunShapes, CloseShapes, FirstShapes
<1>4. CASE Perform(t)
  <2>1. todo' = todo \/ todo' = [todo EXCEPT ![t] = <<"leave">>]
    BY <1>4, PerformStep
  <2>2. todo'[t] \in {<<"run">>, <<"leave">>}
    BY <1>4, <2>1, PerformStep DEF TypeInv
  <2> QED
    BY <1>2, <1>3, <1>4, <2>2, PerformStep
<1>5. CASE ReadsOn(t)
  BY <1>3, <1>5, ReadsOnStep, StartAside
<1>6. CASE FirstRead(t)
  <2>1. PICK c \in Conns : StartEffect(t, c, <<"leave">>)
    BY <1>6, FirstReadStep
  <2>2. c \in Sockets
    BY DEF Sockets
  <2> QED
    BY <1>3, <1>6, <2>1, <2>2, FirstReadStep, StartAside
<1>7. CASE Drops(t)
  BY <1>2, <1>3, <1>7, DropsStep
<1>8. CASE TimesOut(t)
  BY <1>2, <1>3, <1>8, TimesOutStep DEF sched
<1>9. CASE Called(t)
  BY <1>2, <1>3, <1>9, CalledStep DEF sched
<1>10. CASE Cancel(t)
  BY <1>2, <1>3, <1>10, CancelStep
<1> QED
  BY <1>1, <1>4, <1>5, <1>6, <1>7, <1>8, <1>9, <1>10

LEMMA EnqueuesOne ==
  ASSUME TypeInv, ProgramInv, NEW t \in Threads, Enqueue(t)
  PROVE  /\ op[t] # Task /\ op[t] # Callback /\ op[t] \notin Descriptors
         /\ ~HasTask(t) /\ ~HasTask(t)' /\ todo[t] # <<"cleanup">>
<1>1. todo[t] \in EnqShapes /\ todo'[t] \in LeaveShapes \cup FirstShapes
  BY EnqueueStep DEF Goes, EnqShapes
<1>2. PICK c \in Sockets : op[t] \in ReadsOf(c) \cup WaitsOf(c)
  BY <1>1 DEF ProgramInv, ProgramAt
<1>3. PICK ok \in BOOLEAN : op[t] = Read(c, ok) \/ op[t] = Wait(c, ok)
  BY <1>2 DEF ReadsOf, WaitsOf
<1>4. op[t] # Task /\ op[t] # Callback /\ op[t] \notin Descriptors
  BY <1>3, Kinds DEF Descriptors
<1> QED
  BY <1>1, <1>4, TaskShapesApart DEF HasTask

LEMMA TaskPreserved ==
  ASSUME TypeInv, ProgramInv, TaskInv, [Next]_vars
  PROVE  TaskInv'
<1>0. queue \in Queues /\ priv \in [Threads -> Queues]
  BY DEF TypeInv
<1>1. CASE World \/ UNCHANGED vars
  BY <1>1, WorldStep DEF TaskInv, HasTask, thread
<1>2. ASSUME NEW t \in Threads, Others(t), NEW u \in Threads \ {t}
      PROVE  (HasTask(u)' <=> HasTask(u)) /\ priv'[u] = priv[u]
  BY <1>2, OthersKeep DEF HasTask, Others
<1>3. ASSUME NEW t \in Threads, Aside(t) PROVE TaskInv'
  <2>1. \A u \in Threads : HasTask(u)' <=> HasTask(u)
    BY <1>2, <1>3 DEF Aside
  <2>2. \A i \in 1 .. Len(priv'[t]) : priv'[t][i] # Task
    <3>1. CASE priv' = priv
      BY <3>1 DEF TaskInv
    <3>2. ASSUME NEW c \in Sockets, NEW ok \in BOOLEAN,
                 priv' = [priv EXCEPT ![t] = Append(@, Read(c, ok))]
          PROVE  \A i \in 1 .. Len(priv'[t]) : priv'[t][i] # Task
      <4>1. PICK n \in Nat : n = Len(priv[t])
        BY <1>0 DEF Queues
      <4>2. /\ Len(priv'[t]) = n + 1 /\ priv'[t][n + 1] = Read(c, ok)
            /\ \A i \in 1 .. n : priv'[t][i] = priv[t][i]
        BY <1>0, <3>2, <4>1 DEF Queues
      <4>3. Read(c, ok) # Task
        BY Kinds
      <4> QED
        BY <4>1, <4>2, <4>3 DEF TaskInv
    <3> QED
      BY <1>3, <3>1, <3>2 DEF Aside
  <2> QED
    BY <1>2, <1>3, <2>1, <2>2 DEF TaskInv, Aside
<1>4. ASSUME NEW t \in Threads, Enqueue(t) PROVE TaskInv'
  <2>1. PICK n \in Nat : n = Len(queue)
    BY <1>0 DEF Queues
  <2>2. /\ Len(queue') = n + 1 /\ queue'[n + 1] # Task
        /\ \A i \in 1 .. n : queue'[i] = queue[i]
    <3>1. PICK o \in Operations : o = op[t] /\ o # Task
      BY <1>4, EnqueuesOne DEF TypeInv
    <3>2. queue' = Append(queue, o)
      BY <1>4, <3>1, EnqueueStep
    <3> QED
      BY <1>0, <2>1, <3>1, <3>2 DEF Queues
  <2>3. \A u \in Threads : (HasTask(u)' <=> HasTask(u)) /\ priv'[u] = priv[u]
    BY <1>2, <1>4, EnqueueStep, EnqueuesOne
  <2> QED
    BY <2>1, <2>2, <2>3 DEF TaskInv
<1>5. ASSUME NEW t \in Threads, Poll(t) PROVE TaskInv'
  <2>1. HasTask(t) /\ HasTask(t)'
    BY <1>5, PollStep DEF HasTask, Polling, TaskShapes
  <2>2. \A u \in Threads : HasTask(u)' <=> HasTask(u)
    BY <1>2, <1>5, <2>1, PollStep
  <2>3. \A i \in 1 .. Len(priv'[t]) : priv'[t][i] # Task
    <3>1. PICK s \in Queues :
            /\ priv' = [priv EXCEPT ![t] = s]
            /\ \A i \in 1 .. Len(s) : \E c \in Sockets :
                 \/ s[i] = Descriptor(c)
                 \/ s[i] = Wait(c, TRUE) /\ timer[c] = "due"
      BY <1>5, PollStep
    <3>2. priv'[t] = s
      BY <1>0, <3>1
    <3>3. \A c : Descriptor(c) # Task /\ Wait(c, TRUE) # Task
      BY DEF Descriptor, Wait, Task
    <3> QED
      BY <3>1, <3>2, <3>3
  <2>4. queue' = queue /\ \A u \in Threads \ {t} : priv'[u] = priv[u]
    BY <1>2, <1>5, PollStep
  <2> QED
    BY <2>2, <2>3, <2>4 DEF TaskInv
<1>6. ASSUME NEW t \in Threads, Looping(t) PROVE TaskInv'
  <2>1. PICK q, i0 :
          /\ q \in Queues
          /\ Finds(t, q, i0)
          /\ \/ q = queue \o priv[t] /\ todo[t] # <<"cleanup">>
             \/ q = Append(queue \o priv[t], Task) /\ todo[t] = <<"cleanup">>
    BY <1>6, LoopingStep
  <2>2. PICK m \in Nat, n \in Nat : m = Len(queue) /\ n = Len(priv[t])
    BY <1>0 DEF Queues
  <2>3. /\ \A i \in 1 .. m : q[i] = queue[i]
        /\ \A i \in m + 1 .. m + n : q[i] # Task
        /\ \/ todo[t] # <<"cleanup">> /\ Len(q) = m + n
           \/ todo[t] = <<"cleanup">> /\ Len(q) = m + n + 1
    <3>1. PICK r \in Queues : r = queue \o priv[t]
      BY <1>6, LoopingStep
    <3>2. /\ Len(r) = m + n
          /\ \A i \in 1 .. m : r[i] = queue[i]
          /\ \A i \in m + 1 .. m + n : r[i] = priv[t][i - m]
      BY <1>0, <2>2, <3>1 DEF Queues
    <3>3. \A i \in m + 1 .. m + n : r[i] # Task
      <4> TAKE i \in m + 1 .. m + n
      <4>1. i - m \in 1 .. n
        OBVIOUS
      <4> QED
        BY <2>2, <3>2, <4>1 DEF TaskInv
    <3>4. CASE q = r /\ todo[t] # <<"cleanup">>
      BY <3>2, <3>3, <3>4
    <3>5. CASE q = Append(r, Task) /\ todo[t] = <<"cleanup">>
      <4>1. Len(q) = m + n + 1 /\ \A i \in 1 .. m + n : q[i] = r[i]
        BY <3>2, <3>5 DEF Queues
      <4> QED
        BY <3>2, <3>3, <3>5, <4>1
    <3> QED
      BY <2>1, <3>1, <3>4, <3>5
  <2>4. PICK k \in Nat : k = Len(q)
    BY <2>1 DEF Queues
  <2>5. ~Polling(todo[t])
    BY <1>6, LoopingStep
  <2>6. \A i, j \in 1 .. k : q[i] = Task /\ q[j] = Task => i = j
    <3>1. CASE todo[t] # <<"cleanup">>
      BY <2>2, <2>3, <2>4, <3>1 DEF TaskInv
    <3>2. CASE todo[t] = <<"cleanup">>
      <4>1. \A i \in 1 .. m : q[i] # Task
        BY <2>2, <2>3, <3>2 DEF TaskInv, HasTask
      <4> QED
        BY <2>3, <2>4, <3>2, <4>1
    <3> QED
      BY <3>1, <3>2
  <2>7. ASSUME NEW u \in Threads \ {t}, HasTask(u)
        PROVE  \A i \in 1 .. k : q[i] # Task
    <3>1. todo[t] # <<"cleanup">>
      BY <2>7 DEF TaskInv, HasTask
    <3>2. \A i \in 1 .. m : queue[i] # Task
      BY <2>2, <2>7 DEF TaskInv
    <3> QED
      BY <2>3, <2>4, <3>1, <3>2
  <2>8. /\ \A u \in Threads \ {t} : (HasTask(u)' <=> HasTask(u))
        /\ \A u \in Threads : \A i \in 1 .. Len(priv'[u]) : priv'[u][i] # Task
    <3>1. Len(priv'[t]) = 0
      BY <1>0, <1>6, LoopingStep
    <3> QED
      BY <1>2, <1>6, <3>1, LoopingStep DEF TaskInv
  <2>9. CASE queue' = q /\ todo'[t] \in {<< >>, <<"wait">>}
    <3>1. ~HasTask(t)'
      BY <2>9, TaskShapesApart DEF HasTask
    <3> QED
      BY <2>4, <2>6, <2>7, <2>8, <2>9, <3>1 DEF TaskInv
  <2>10. CASE q # << >> /\ queue' = Tail(q)
    <3>1. /\ k > 0 /\ Len(queue') = k - 1 /\ Head(q) = q[1]
          /\ \A i \in 1 .. k - 1 : queue'[i] = q[i + 1]
      BY <2>4, <2>10 DEF Queues
    <3>2. \A i, j \in 1 .. k - 1 : queue'[i] = Task /\ queue'[j] = Task => i = j
      BY <2>6, <3>1
    <3>3. ASSUME NEW u \in Threads, HasTask(u)' PROVE \A i \in 1 .. k - 1 : queue'[i] # Task
      <4>1. CASE u # t
        <5>1. \A i \in 1 .. k : q[i] # Task
          BY <2>7, <2>8, <3>3, <4>1
        <5> QED
          BY <3>1, <5>1
      <4>2. CASE u = t
        <5>1. todo'[t] \notin RunShapes
          BY <3>3, <4>2, TaskShapesApart DEF HasTask
        <5>2. q[1] = Task
          BY <1>6, <2>1, <3>1, <5>1, <2>10, LoopingStep, FindsTakes, <3>3, <4>2,
             TaskShapesApart DEF HasTask
        <5> QED
          BY <2>6, <3>1, <5>2
      <4> QED
        BY <4>1, <4>2
    <3>4. ASSUME NEW u \in Threads \ {t}, HasTask(u)' PROVE ~HasTask(t)'
      <4>1. q[1] # Task
        BY <2>7, <2>8, <3>1, <3>4
      <4>2. todo'[t] \in RunShapes \cup {<< >>, <<"wait">>}
        BY <1>6, <2>1, <3>1, <4>1, LoopingStep, FindsTakes
      <4> QED
        BY <4>2, TaskShapesApart DEF HasTask
    <3>5. ASSUME NEW u \in Threads, NEW v \in Threads, HasTask(u)', HasTask(v)'
          PROVE  u = v
      <4>1. u # t /\ v # t => u = v
        BY <2>8, <3>5 DEF TaskInv
      <4> QED
        BY <3>4, <3>5, <4>1
    <3> QED
      BY <2>8, <3>1, <3>2, <3>3, <3>5 DEF TaskInv
  <2> QED
    BY <1>6, <2>1, <2>9, <2>10, LoopingStep, FindsTakes
<1> QED
  BY <1>1, <1>3, <1>4, <1>5, <1>6, Cases, StepsAside

LEMMA NoHandKind ==
  /\ NoHand \in [Threads -> Operations]
  /\ \A t \in Threads : NoHand[t] = Task /\ [NoHand EXCEPT ![t] = Task] = NoHand
  /\ NoHand' = NoHand
BY DEF NoHand, Operations

(* An operation that leaves the queue is gone, or it was another one. *)
LEMMA TailKeeps ==
  ASSUME NEW q \in Queues, NEW pr \in [Threads -> Queues], NEW S, Task \notin S,
         NEW t \in Threads, q # << >>, AtMostOne(q, pr, NoHand, S)
  PROVE  AtMostOne(Tail(q), pr, NoHand, S)
<1> DEFINE hd == [NoHand EXCEPT ![t] = Head(q)]
<1>1. hd \in [Threads -> Operations] /\ NoHand[t] = Task
      /\ [hd EXCEPT ![t] = Task] = NoHand
  <2>1. Head(q) \in Operations
    BY DEF Queues
  <2> QED
    BY <2>1, NoHandKind
<1>2. AtMostOne(Tail(q), pr, hd, S)
  BY <1>1, NoHandKind, Take
<1> HIDE DEF hd
<1> DEFINE hhd == [hd EXCEPT ![t] = Task]
<1>3. /\ hd[t] \notin S /\ AtMostOne(Tail(q), pr, hd, S) => AtMostOne(Tail(q), pr, hhd, S)
      /\ hd[t] \in S /\ AtMostOne(Tail(q), pr, hd, S) => ~SomeOf(Tail(q), pr, hhd, S)
  BY <1>1, Hold
<1>4. ~SomeOf(Tail(q), pr, hhd, S) => AtMostOne(Tail(q), pr, hhd, S)
  BY DEF SomeOf, AtMostOne
<1>5. AtMostOne(Tail(q), pr, hhd, S)
  BY <1>2, <1>3, <1>4
<1> QED
  BY <1>1, <1>5

LEMMA DescriptorPreserved ==
  ASSUME TypeInv, ProgramInv, TaskInv, DescriptorInv, [Next]_vars
  PROVE  DescriptorInv'
<1> DEFINE S(c) == {Descriptor(c)}
<1>0. queue \in Queues /\ priv \in [Threads -> Queues] /\ NoHand' = NoHand
  BY NoHandKind DEF TypeInv
<1>1. CASE World \/ UNCHANGED vars
  BY <1>0, <1>1, WorldStep DEF DescriptorInv, thread
<1>2. \A c : Task \notin S(c) /\ (\A ok \in BOOLEAN : \A d : Read(d, ok) \notin S(c))
  BY DEF Task, Descriptor, Read
<1>3. \A c \in Sockets, ok \in BOOLEAN : Read(c, ok) \notin Descriptors
  BY Kinds DEF Descriptors
<1>4. ASSUME NEW t \in Threads, Others(t), NEW u \in Threads \ {t}
      PROVE  (todo'[u] = <<"cleanup">> <=> todo[u] = <<"cleanup">>)
             /\ priv'[u] = priv[u]
  BY <1>4, OthersKeep DEF Others
<1>5. ASSUME NEW t \in Threads, Aside(t) PROVE DescriptorInv'
  <2>1. CASE priv' = priv
    BY <1>0, <1>4, <1>5, <2>1 DEF DescriptorInv, Aside
  <2>2. ASSUME NEW d \in Sockets, NEW ok \in BOOLEAN,
               priv' = [priv EXCEPT ![t] = Append(@, Read(d, ok))]
        PROVE  DescriptorInv'
    <3>1. \A c \in Sockets : AtMostOne(queue', priv', NoHand', S(c))
      <4> TAKE c \in Sockets
      <4>1. AtMostOne(queue, priv, NoHand, S(c))
        BY DEF DescriptorInv
      <4>2. Read(d, ok) \notin S(c)
        BY <1>2
      <4> HIDE DEF S
      <4>3. AtMostOne(queue, [priv EXCEPT ![t] = Append(@, Read(d, ok))], NoHand, S(c))
        BY <1>0, <4>1, <4>2, Keep
      <4> QED
        BY <1>0, <1>5, <2>2, <4>3 DEF Aside
    <3>2. PICK n \in Nat : n = Len(priv[t])
      BY <1>0 DEF Queues
    <3>3. /\ Len(priv'[t]) = n + 1 /\ priv'[t][n + 1] = Read(d, ok)
          /\ \A i \in 1 .. n : priv'[t][i] = priv[t][i]
      BY <1>0, <2>2, <3>2 DEF Queues
    <3>4. \A i \in 1 .. Len(priv'[t]) :
            priv'[t][i] \in Descriptors => todo'[t] = <<"cleanup">>
      BY <1>3, <1>5, <3>2, <3>3 DEF DescriptorInv, Aside
    <3>5. \A u \in Threads : \A i \in 1 .. Len(priv'[u]) :
            priv'[u][i] \in Descriptors => todo'[u] = <<"cleanup">>
      BY <1>4, <1>5, <3>4 DEF DescriptorInv, Aside
    <3> QED
      BY <1>5, <3>1, <3>5 DEF DescriptorInv, Aside
  <2> QED
    BY <1>5, <2>1, <2>2 DEF Aside
<1>6. ASSUME NEW t \in Threads, Enqueue(t) PROVE DescriptorInv'
  <2>1. PICK o \in Operations : o = op[t] /\ o \notin Descriptors
    BY <1>6, EnqueuesOne DEF TypeInv
  <2>2. queue' = Append(queue, o) /\ priv' = priv
    BY <1>6, <2>1, EnqueueStep
  <2>3. PICK n \in Nat : n = Len(queue)
    BY <1>0 DEF Queues
  <2>4. /\ Len(queue') = n + 1 /\ queue'[n + 1] = o
        /\ \A i \in 1 .. n : queue'[i] = queue[i]
    BY <1>0, <2>2, <2>3 DEF Queues
  <2>5. \A i \in 1 .. Len(queue') : queue'[i] \in Descriptors =>
          \E j \in 1 .. Len(queue') : i < j /\ queue'[j] = Task
    <3> SUFFICES ASSUME NEW i \in 1 .. n + 1, queue'[i] \in Descriptors
                 PROVE  \E j \in 1 .. n + 1 : i < j /\ queue'[j] = Task
      BY <2>4
    <3>1. i \in 1 .. n /\ queue[i] \in Descriptors
      BY <2>1, <2>4
    <3>2. PICK j \in 1 .. n : i < j /\ queue[j] = Task
      BY <2>3, <3>1 DEF DescriptorInv
    <3> QED
      BY <2>4, <3>2
  <2>6. \A c \in Sockets : AtMostOne(queue', priv', NoHand', S(c))
    <3> TAKE c \in Sockets
    <3> DEFINE hd == [NoHand EXCEPT ![t] = o]
    <3>1. AtMostOne(queue, priv, NoHand, S(c)) /\ o \notin S(c) /\ Task \notin S(c)
      BY <1>2, <2>1 DEF DescriptorInv, Descriptors
    <3>2. hd \in [Threads -> Operations] /\ hd[t] = o /\ NoHand[t] = Task
          /\ [hd EXCEPT ![t] = Task] = NoHand
      BY NoHandKind
    <3> HIDE DEF S
    <3>3. AtMostOne(queue, priv, hd, S(c))
      BY <3>1, <3>2, NoHandKind, Hold
    <3> HIDE DEF hd
    <3>4. AtMostOne(Append(queue, hd[t]), priv, [hd EXCEPT ![t] = Task], S(c))
      BY <1>0, <3>1, <3>2, <3>3, Put
    <3> QED
      BY <1>0, <2>2, <3>2, <3>4
  <2>7. \A u \in Threads : todo[u] = <<"cleanup">> => todo'[u] = <<"cleanup">>
    BY <1>4, <1>6, EnqueueStep, EnqueuesOne
  <2> QED
    BY <2>2, <2>5, <2>6, <2>7 DEF DescriptorInv
<1>7. ASSUME NEW t \in Threads, Poll(t) PROVE DescriptorInv'
  <2>1. HasTask(t) /\ todo[t] # <<"cleanup">>
    <3>1. todo[t] \in {<<"poll">>, <<"peek">>}
      BY <1>7, PollStep
    <3>2. todo[t] \in TaskShapes
      BY <3>1 DEF TaskShapes
    <3>3. todo[t] # <<"cleanup">>
      BY <3>1
    <3> QED
      BY <3>2, <3>3 DEF HasTask, Polling
  <2>2. \A i \in 1 .. Len(queue) : queue[i] \notin Descriptors
    BY <2>1 DEF TaskInv, DescriptorInv
  <2>3. \A u \in Threads : \A i \in 1 .. Len(priv[u]) : priv[u][i] \notin Descriptors
    BY <2>1 DEF TaskInv, DescriptorInv, HasTask
  <2>4. PICK s \in Queues :
          /\ priv' = [priv EXCEPT ![t] = s]
          /\ \A i, j \in 1 .. Len(s) : s[i] = s[j] => i = j
    BY <1>7, PollStep
  <2>5. \A c \in Sockets : AtMostOne(queue', priv', NoHand', S(c))
    <3> TAKE c \in Sockets
    <3>1. ~SomeOf(queue, priv, NoHand, S(c))
      <4>1. \A w \in Who, i \in Nat : ~Spot(queue, priv, NoHand, w, i, S(c))
        BY <1>2, <2>2, <2>3, NoHandKind DEF Spot, Descriptors
      <4> QED
        BY <4>1 DEF SomeOf
    <3>2. AtMostOne(queue, priv, NoHand, S(c))
      BY DEF DescriptorInv
    <3>3. \A i, j \in 1 .. Len(s) : s[i] \in S(c) /\ s[j] \in S(c) => i = j
      BY <2>4
    <3>4. priv[t] = << >>
      BY <1>7, PollStep
    <3> HIDE DEF S
    <3>5. AtMostOne(queue, [priv EXCEPT ![t] = s], NoHand, S(c))
      BY <1>0, <3>1, <3>2, <3>3, <3>4, Fill
    <3>6. queue' = queue
      BY <1>7, PollStep
    <3> QED
      BY <1>0, <2>4, <3>5, <3>6
  <2>6. \A u \in Threads \ {t} : priv'[u] = priv[u]
    BY <2>4
  <2> QED
    BY <1>7, <2>2, <2>3, <2>5, <2>6, PollStep DEF DescriptorInv
<1>8. ASSUME NEW t \in Threads, Looping(t) PROVE DescriptorInv'
  <2>1. PICK q, i0 :
          /\ q \in Queues
          /\ Finds(t, q, i0)
          /\ \/ q = queue \o priv[t] /\ todo[t] # <<"cleanup">>
             \/ q = Append(queue \o priv[t], Task) /\ todo[t] = <<"cleanup">>
    BY <1>8, LoopingStep
  <2>2. PICK m \in Nat, n \in Nat : m = Len(queue) /\ n = Len(priv[t])
    BY <1>0 DEF Queues
  <2>3. PICK r \in Queues : r = queue \o priv[t]
    BY <1>8, LoopingStep
  <2>4. /\ Len(r) = m + n
        /\ \A i \in 1 .. m : r[i] = queue[i]
        /\ \A i \in m + 1 .. m + n : r[i] = priv[t][i - m]
    BY <1>0, <2>2, <2>3 DEF Queues
  <2>5. PICK k \in Nat : k = Len(q)
    BY <2>1 DEF Queues
  <2>6. \A i \in 1 .. k : q[i] \in Descriptors => \E j \in 1 .. k : i < j /\ q[j] = Task
    <3>1. CASE q = r /\ todo[t] # <<"cleanup">>
      <4> SUFFICES ASSUME NEW i \in 1 .. k, q[i] \in Descriptors
                   PROVE  \E j \in 1 .. k : i < j /\ q[j] = Task
        OBVIOUS
      <4>1. CASE i \in 1 .. m
        <5>1. PICK j \in 1 .. m : i < j /\ queue[j] = Task
          BY <2>2, <2>4, <3>1, <4>1 DEF DescriptorInv
        <5> QED
          BY <2>4, <2>5, <3>1, <5>1
      <4>2. CASE i \in m + 1 .. m + n
        <5>1. i - m \in 1 .. n /\ priv[t][i - m] \in Descriptors
          BY <2>4, <3>1, <4>2
        <5> QED
          BY <2>2, <3>1, <5>1 DEF DescriptorInv
      <4> QED
        BY <2>4, <2>5, <3>1, <4>1, <4>2
    <3>2. CASE q = Append(r, Task)
      <4>1. k = m + n + 1 /\ q[k] = Task
        <5>1. PICK o \in Operations : o = Task
          BY DEF Operations
        <5> QED
          BY <2>4, <2>5, <3>2, <5>1, SMTT(30) DEF Queues
      <4>2. Task \notin Descriptors
        BY Kinds DEF Descriptors
      <4> QED
        BY <4>1, <4>2
    <3> QED
      BY <2>1, <2>3, <3>1, <3>2
  <2>7. /\ priv' \in [Threads -> Queues] /\ priv' = [priv EXCEPT ![t] = << >>]
        /\ Len(priv'[t]) = 0 /\ Others(t)
    <3>1. << >> \in Queues
      BY DEF Queues
    <3> QED
      BY <1>0, <1>8, <3>1, LoopingStep
  <2>8. \A c \in Sockets : AtMostOne(q, priv', NoHand, S(c))
    <3> TAKE c \in Sockets
    <3>1. AtMostOne(queue, priv, NoHand, S(c)) /\ Task \notin S(c)
      BY <1>2 DEF DescriptorInv
    <3> HIDE DEF S
    <3>2. AtMostOne(queue \o priv[t], [priv EXCEPT ![t] = << >>], NoHand, S(c))
      BY <1>0, <3>1, Flush
    <3>3. AtMostOne(r, priv', NoHand, S(c))
      BY <2>3, <2>7, <3>2
    <3>4. AtMostOne(Append(r, NoHand[t]), priv', [NoHand EXCEPT ![t] = Task], S(c))
      BY <2>7, <3>1, <3>3, NoHandKind, Put
    <3>5. AtMostOne(Append(r, Task), priv', NoHand, S(c))
      BY <3>4, NoHandKind
    <3> QED
      BY <2>1, <2>3, <3>3, <3>5
  <2>9. queue' = q \/ (q # << >> /\ queue' = Tail(q))
    BY <1>8, <2>1, LoopingStep, FindsTakes
  <2>10. \A c \in Sockets : AtMostOne(queue', priv', NoHand', S(c))
    <3> TAKE c \in Sockets
    <3>1. AtMostOne(q, priv', NoHand, S(c)) /\ Task \notin S(c)
      BY <1>2, <2>8
    <3> HIDE DEF S
    <3>2. q # << >> => AtMostOne(Tail(q), priv', NoHand, S(c))
      BY <2>1, <2>7, <3>1, TailKeeps
    <3> QED
      BY <1>0, <2>9, <3>1, <3>2
  <2>11. \A i \in 1 .. Len(queue') : queue'[i] \in Descriptors =>
           \E j \in 1 .. Len(queue') : i < j /\ queue'[j] = Task
    <3>1. CASE queue' = q
      BY <2>5, <2>6, <3>1
    <3>2. CASE q # << >> /\ queue' = Tail(q)
      <4>1. /\ k > 0 /\ Len(queue') = k - 1
            /\ \A i \in 1 .. k - 1 : queue'[i] = q[i + 1]
        BY <2>5, <3>2 DEF Queues
      <4> SUFFICES ASSUME NEW i \in 1 .. k - 1, queue'[i] \in Descriptors
                   PROVE  \E j \in 1 .. k - 1 : i < j /\ queue'[j] = Task
        BY <4>1
      <4>2. PICK j \in 1 .. k : i + 1 < j /\ q[j] = Task
        BY <2>6, <4>1
      <4>3. j - 1 \in 1 .. k - 1 /\ i < j - 1 /\ (j - 1) + 1 = j
        BY <4>2
      <4>4. queue'[j - 1] = Task
        BY <4>1, <4>2, <4>3
      <4> QED
        BY <4>3, <4>4
    <3> QED
      BY <2>9, <3>1, <3>2
  <2>12. \A u \in Threads : \A i \in 1 .. Len(priv'[u]) :
            priv'[u][i] \in Descriptors => todo'[u] = <<"cleanup">>
    BY <1>4, <2>7 DEF DescriptorInv
  <2> QED
    BY <2>10, <2>11, <2>12 DEF DescriptorInv
<1> QED
  BY <1>1, <1>5, <1>6, <1>7, <1>8, Cases, StepsAside

(* What the steps that hand over operations do to those of a set S.        *)
Has(S)    == SomeOf(queue, priv, Hand, S)
Single(S) == AtMostOne(queue, priv, Hand, S)

LEMMA HandMoves ==
  ASSUME TypeInv, NEW t \in Threads, NEW o, queue' = queue, priv' = priv,
         Hand' = [Hand EXCEPT ![t] = o], NEW S
  PROVE  /\ (Hand[t] \in S <=> o \in S) => Kept(S)
         /\ o \notin S /\ Hand[t] \in S /\ Single(S) =>
              AtMostOne(queue', priv', Hand', S) /\ ~SomeOf(queue', priv', Hand', S)
         /\ ~Has(S) /\ o \in S =>
              AtMostOne(queue', priv', Hand', S) /\ SomeOf(queue', priv', Hand', S)
<1>1. Hand \in [Threads -> Operations]
  BY DEF Hand, TypeInv, Operations
<1>2. ~SomeOf(queue', priv', Hand', S) => AtMostOne(queue', priv', Hand', S)
  BY DEF SomeOf, AtMostOne
<1> QED
  BY <1>1, <1>2, Hold DEF Kept, Has, Single

LEMMA ClearMoves ==
  ASSUME TypeInv, NEW t \in Threads, NEW S, Task \notin S
  PROVE  /\ Hand[t] \notin S =>
              /\ Single(S) => AtMostOne(queue, priv, Cleared(t), S)
              /\ SomeOf(queue, priv, Cleared(t), S) <=> Has(S)
         /\ Hand[t] \in S /\ Single(S) => ~SomeOf(queue, priv, Cleared(t), S)
<1>1. Hand \in [Threads -> Operations]
  BY DEF Hand, TypeInv, Operations
<1> QED
  BY <1>1, Hold DEF Cleared, Has, Single

LEMMA StartMoves ==
  ASSUME TypeInv, NEW t \in Threads, NEW c \in Sockets, NEW rest,
         queue' = queue, StartEffect(t, c, rest), NEW S, Task \notin S
  PROVE  /\ (\A ok \in BOOLEAN : Read(c, ok) \notin S) =>
              /\ AtMostOne(queue, priv, Cleared(t), S) =>
                   AtMostOne(queue', priv', Hand', S)
              /\ SomeOf(queue', priv', Hand', S) <=>
                   SomeOf(queue, priv, Cleared(t), S)
         /\ /\ \A ok \in BOOLEAN : Read(c, ok) \in S
            /\ ~SomeOf(queue, priv, Cleared(t), S)
            => /\ AtMostOne(queue', priv', Hand', S)
               /\ \/ pending' = pending /\ SomeOf(queue', priv', Hand', S)
                  \/ /\ pending' = [pending EXCEPT ![c] = TRUE]
                     /\ ~SomeOf(queue', priv', Hand', S)
<1>1. PICK hd : hd = Cleared(t)
  OBVIOUS
<1>2. hd \in [Threads -> Operations] /\ hd[t] = Task /\ priv \in [Threads -> Queues]
  <2>1. Hand \in [Threads -> Operations] /\ Task \in Operations
    BY DEF Hand, TypeInv, Operations
  <2> QED
    BY <1>1, <2>1 DEF Cleared, TypeInv
<1>3. PICK ok \in BOOLEAN :
        \/ /\ priv' = [priv EXCEPT ![t] = Append(@, Read(c, ok))] /\ Hand' = hd
           /\ pending' = pending
        \/ /\ priv' = priv /\ Hand' = [hd EXCEPT ![t] = Read(c, ok)]
           /\ pending' = pending
        \/ /\ priv' = priv /\ Hand' = hd
           /\ pending' = [pending EXCEPT ![c] = TRUE]
  BY <1>1 DEF StartEffect
<1>4. CASE /\ priv' = [priv EXCEPT ![t] = Append(@, Read(c, ok))] /\ Hand' = hd
           /\ pending' = pending
  <2>1. /\ Read(c, ok) \notin S =>
             /\ AtMostOne(queue, priv, hd, S) => AtMostOne(queue', priv', Hand', S)
             /\ SomeOf(queue', priv', Hand', S) <=> SomeOf(queue, priv, hd, S)
        /\ ~SomeOf(queue, priv, hd, S) /\ Read(c, ok) \in S =>
             AtMostOne(queue', priv', Hand', S) /\ SomeOf(queue', priv', Hand', S)
    BY <1>2, <1>4, Keep
  <2> QED
    BY <1>1, <1>4, <2>1
<1>5. CASE /\ priv' = priv /\ Hand' = [hd EXCEPT ![t] = Read(c, ok)]
           /\ pending' = pending
  <2>1. /\ Read(c, ok) \notin S =>
             /\ AtMostOne(queue, priv, hd, S) => AtMostOne(queue', priv', Hand', S)
             /\ SomeOf(queue', priv', Hand', S) <=> SomeOf(queue, priv, hd, S)
        /\ ~SomeOf(queue, priv, hd, S) /\ Read(c, ok) \in S =>
             AtMostOne(queue', priv', Hand', S) /\ SomeOf(queue', priv', Hand', S)
    BY <1>2, <1>5, Hold
  <2> QED
    BY <1>1, <1>5, <2>1
<1>6. CASE /\ priv' = priv /\ Hand' = hd
           /\ pending' = [pending EXCEPT ![c] = TRUE]
  <2>1. ~SomeOf(queue, priv, hd, S) => AtMostOne(queue, priv, hd, S)
    BY DEF SomeOf, AtMostOne
  <2> QED
    BY <1>1, <1>6, <2>1
<1> QED
  BY <1>3, <1>4, <1>5, <1>6

LEMMA PollMoves ==
  ASSUME TypeInv, ProgramInv, NEW t \in Threads, Poll(t)
  PROVE  /\ \A S : (\A c \in Sockets : /\ Descriptor(c) \notin S
                                       /\ timer[c] = "due" => Wait(c, TRUE) \notin S)
                     => Kept(S)
         /\ \A c \in Sockets :
              timer[c] = "due" /\ Single(WaitsOf(c)) /\ ~Has(WaitsOf(c)) =>
                /\ AtMostOne(queue', priv', Hand', WaitsOf(c))
                /\ SomeOf(queue', priv', Hand', WaitsOf(c))
<1>1. PICK s \in Queues :
        /\ priv' = [priv EXCEPT ![t] = s]
        /\ \A i, j \in 1 .. Len(s) : s[i] = s[j] => i = j
        /\ \A i \in 1 .. Len(s) : \E c \in Sockets :
             \/ s[i] = Descriptor(c)
             \/ s[i] = Wait(c, TRUE) /\ timer[c] = "due"
        /\ \A c \in Sockets : timer[c] = "due" =>
             \E i \in 1 .. Len(s) : s[i] = Wait(c, TRUE)
  BY PollStep
<1>2. priv[t] = << >> /\ queue' = queue /\ Hand' = Hand /\ priv \in [Threads -> Queues]
  BY PollStep DEF TypeInv
<1>3. ASSUME NEW S, \A c \in Sockets : /\ Descriptor(c) \notin S
                                       /\ timer[c] = "due" => Wait(c, TRUE) \notin S
      PROVE  Kept(S)
  <2>1. \A i \in 1 .. Len(s) : s[i] \notin S
    BY <1>1, <1>3
  <2> QED
    BY <1>1, <1>2, <2>1, Fill DEF Kept
<1>4. ASSUME NEW c \in Sockets, timer[c] = "due", Single(WaitsOf(c)), ~Has(WaitsOf(c))
      PROVE  /\ AtMostOne(queue', priv', Hand', WaitsOf(c))
             /\ SomeOf(queue', priv', Hand', WaitsOf(c))
  <2>1. \A i \in 1 .. Len(s) : s[i] \in WaitsOf(c) <=> s[i] = Wait(c, TRUE)
    <3>1. \A d : Descriptor(d) \notin WaitsOf(c) /\
                 (Wait(d, TRUE) \in WaitsOf(c) <=> d = c)
      BY DEF Descriptor, Wait, WaitsOf
    <3> TAKE i \in 1 .. Len(s)
    <3>2. PICK d \in Sockets : s[i] = Descriptor(d) \/ s[i] = Wait(d, TRUE)
      BY <1>1
    <3>3. CASE s[i] = Descriptor(d)
      BY <3>1, <3>3
    <3>4. CASE s[i] = Wait(d, TRUE)
      <4>1. Wait(d, TRUE) = Wait(c, TRUE) => d = c
        BY DEF Wait
      <4> QED
        BY <3>1, <3>4, <4>1
    <3> QED
      BY <3>2, <3>3, <3>4
  <2>2. \A i, j \in 1 .. Len(s) : s[i] \in WaitsOf(c) /\ s[j] \in WaitsOf(c) => i = j
    BY <1>1, <2>1
  <2>3. \E i \in 1 .. Len(s) : s[i] \in WaitsOf(c)
    BY <1>1, <1>4, <2>1
  <2> QED
    BY <1>1, <1>2, <1>4, <2>2, <2>3, Fill DEF Single, Has
<1> QED
  BY <1>3, <1>4

(* Reads *)
ReadAt(c) ==
  /\ Single(ReadsOf(c))
  /\ Has(ReadsOf(c)) <=> alive[c] = "open" /\ ~pending[c]
  /\ pending[c] => alive[c] = "open"

LEMMA ReadInvAt == ReadInv <=> \A c \in Sockets : ReadAt(c)
BY DEF ReadInv, ReadAt, Single, Has

LEMMA ReadAfter ==
  ASSUME NEW c \in Sockets,
         AtMostOne(queue', priv', Hand', ReadsOf(c)),
         SomeOf(queue', priv', Hand', ReadsOf(c)) <=>
           alive'[c] = "open" /\ ~pending'[c],
         pending'[c] => alive'[c] = "open"
  PROVE  ReadAt(c)'
<1>1. (Single(ReadsOf(c)))'
  BY DEF Single, ReadsOf, Read
<1>2. (Has(ReadsOf(c)) <=> alive[c] = "open" /\ ~pending[c])'
  BY DEF Has, ReadsOf, Read
<1>3. (pending[c] => alive[c] = "open")'
  OBVIOUS
<1> QED
  BY <1>1, <1>2, <1>3 DEF ReadAt

LEMMA ReadKept ==
  ASSUME NEW c \in Sockets, ReadAt(c), Kept(ReadsOf(c)),
         pending'[c] = pending[c],
         (alive'[c] = "open") <=> (alive[c] = "open")
  PROVE  ReadAt(c)'
<1>1. AtMostOne(queue', priv', Hand', ReadsOf(c))
  BY DEF ReadAt, Kept, Single
<1>2. SomeOf(queue', priv', Hand', ReadsOf(c)) <=>
           alive'[c] = "open" /\ ~pending'[c]
  BY DEF ReadAt, Kept, Has
<1>3. pending'[c] => alive'[c] = "open"
  BY DEF ReadAt
<1> QED
  BY <1>1, <1>2, <1>3, ReadAfter

LEMMA ReadsApart ==
  ASSUME NEW c
  PROVE  /\ Task \notin ReadsOf(c) /\ Callback \notin ReadsOf(c)
         /\ \A d : Descriptor(d) \notin ReadsOf(c)
         /\ \A d : \A ok \in BOOLEAN : Wait(d, ok) \notin ReadsOf(c)
         /\ \A d : \A ok \in BOOLEAN : Read(d, ok) \in ReadsOf(c) <=> d = c
         /\ \A d : Wait(d, TRUE) \notin ReadsOf(c) /\ Wait(d, FALSE) \notin ReadsOf(c)
         /\ \A d : Read(d, TRUE) \in ReadsOf(c) <=> d = c
         /\ \A d : Read(d, FALSE) \in ReadsOf(c) <=> d = c
BY DEF ReadsOf, Read, Wait, Descriptor, Task, Callback

LEMMA ReadPreserved ==
  ASSUME TypeInv, ProgramInv, ReadInv, [Next]_vars
  PROVE  ReadInv'
<1> SUFFICES ASSUME NEW d \in Sockets PROVE ReadAt(d)'
  BY DEF ReadInv, ReadAt, Single, Has
<1> DEFINE S == ReadsOf(d)
<1>0. /\ ReadAt(d) /\ Task \notin S /\ \A c \in Sockets : ReadAt(c)
      /\ pending \in [Sockets -> BOOLEAN]
      /\ alive \in [Sockets -> {"new", "open", "gone"}]
  BY ReadInvAt, ReadsApart DEF TypeInv
<1>1. CASE World \/ UNCHANGED vars
  BY <1>0, <1>1, WorldStep, ReadKept DEF thread, Kept
<1>2. ASSUME NEW t \in Threads, Quiet(t) PROVE ReadAt(d)'
  BY <1>0, <1>2, QuietKeeps, QuietSockets, ReadKept
<1>3. ASSUME NEW t \in Threads, Looping(t) PROVE ReadAt(d)'
  BY <1>0, <1>3, LoopingKeeps, LoopingStep, ReadKept DEF socket
<1>4. ASSUME NEW t \in Threads, Enqueue(t) PROVE ReadAt(d)'
  BY <1>0, <1>4, EnqueueKeeps, EnqueueStep, ReadKept DEF socket
<1>5. ASSUME NEW t \in Threads, Perform(t) PROVE ReadAt(d)'
  <2>1. PICK c \in Sockets :
          /\ Hand[t] = Descriptor(c)
          /\ \/ /\ pending[c] /\ pending' = [pending EXCEPT ![c] = FALSE]
                /\ \E ok \in BOOLEAN : Hand' = [Hand EXCEPT ![t] = Read(c, ok)]
             \/ /\ pending' = pending
                /\ Hand' = [Hand EXCEPT ![t] = Task]
    BY <1>5, PerformStep
  <2>2. UNCHANGED <<queue, priv, alive>> /\ Hand[t] \notin S
    <3>1. Descriptor(c) \notin S
      BY ReadsApart
    <3> QED
      BY <1>5, <2>1, <3>1, PerformStep
  <2>3. CASE pending' = pending /\ Hand' = [Hand EXCEPT ![t] = Task]
    <3>1. Kept(S)
      BY <1>0, <2>2, <2>3, HandMoves
    <3> QED
      BY <1>0, <2>2, <2>3, <3>1, ReadKept
  <2>4. ASSUME NEW ok \in BOOLEAN, Hand' = [Hand EXCEPT ![t] = Read(c, ok)],
               pending[c], pending' = [pending EXCEPT ![c] = FALSE]
        PROVE  ReadAt(d)'
    <3>1. CASE c = d
      <4>1. Read(c, ok) \in S /\ ~Has(S) /\ alive[d] = "open"
        BY <1>0, <2>4, <3>1, ReadsApart DEF ReadAt
      <4>2. AtMostOne(queue', priv', Hand', S) /\ SomeOf(queue', priv', Hand', S)
        BY <2>2, <2>4, <4>1, HandMoves
      <4>3. alive'[d] = "open" /\ ~pending'[d]
        BY <1>0, <2>2, <2>4, <3>1, <4>1
      <4> QED
        BY <4>2, <4>3, ReadAfter
    <3>2. CASE c # d
      <4>1. Read(c, ok) \notin S
        BY <3>2, ReadsApart
      <4>2. Kept(S)
        BY <2>2, <2>4, <4>1, HandMoves
      <4> QED
        BY <1>0, <2>2, <2>4, <3>2, <4>2, ReadKept
    <3> QED
      BY <3>1, <3>2
  <2> QED
    BY <2>1, <2>3, <2>4
<1>6. ASSUME NEW t \in Threads, NEW c \in Sockets, NEW rest, queue' = queue,
             StartEffect(t, c, rest), alive'[c] = "open", ~pending[c],
             \A b \in Sockets \ {c} : alive'[b] = alive[b],
             IF Hand[t] = Task THEN alive[c] # "open"
             ELSE Hand[t] = Read(c, TRUE)
      PROVE  ReadAt(d)'
  <2>1. CASE c = d
    <3>1. ~SomeOf(queue, priv, Cleared(t), S)
      <4>1. Read(c, TRUE) \in S
        BY <2>1, ReadsApart
      <4>2. Hand[t] \in S => ~SomeOf(queue, priv, Cleared(t), S)
        BY <1>0, ClearMoves DEF ReadAt
      <4>3. Hand[t] \notin S /\ ~Has(S) => ~SomeOf(queue, priv, Cleared(t), S)
        BY <1>0, ClearMoves
      <4> QED
        BY <1>0, <1>6, <2>1, <4>1, <4>2, <4>3 DEF ReadAt
    <3>2. \A ok \in BOOLEAN : Read(c, ok) \in S
      BY <2>1, ReadsApart
    <3>3. /\ AtMostOne(queue', priv', Hand', S)
          /\ \/ pending' = pending /\ SomeOf(queue', priv', Hand', S)
             \/ /\ pending' = [pending EXCEPT ![c] = TRUE]
                /\ ~SomeOf(queue', priv', Hand', S)
      BY <1>0, <1>6, <3>1, <3>2, StartMoves
    <3> QED
      BY <1>0, <1>6, <2>1, <3>3, ReadAfter
  <2>2. CASE c # d
    <3>1. /\ Hand[t] \notin S /\ \A ok \in BOOLEAN : Read(c, ok) \notin S
      <4>1. \A ok \in BOOLEAN : Read(c, ok) \notin S
        BY <2>2, ReadsApart
      <4>2. Read(c, TRUE) \notin S
        BY <2>2, ReadsApart
      <4> QED
        BY <1>0, <1>6, <4>1, <4>2
    <3>2. Kept(S)
      BY <1>0, <1>6, <3>1, ClearMoves, StartMoves DEF Kept, Has, Single
    <3>3. pending'[d] = pending[d]
      BY <1>0, <1>6, <2>2 DEF StartEffect
    <3> QED
      BY <1>0, <1>6, <2>2, <3>2, <3>3, ReadKept
  <2> QED
    BY <2>1, <2>2
<1>7. ASSUME NEW t \in Threads, ReadsOn(t) PROVE ReadAt(d)'
  <2>1. PICK c \in Sockets, rest \in {<<"leave">>, <<"first", "leave">>} :
          Hand[t] = Read(c, TRUE) /\ StartEffect(t, c, rest)
    BY <1>7, ReadsOnStep
  <2>2. Has(ReadsOf(c))
    <3>2. Read(c, TRUE) \in ReadsOf(c)
      BY ReadsApart
    <3>3. Hand[t] \in ReadsOf(c)
      BY <2>1, <3>2
    <3>1. Spot(queue, priv, Hand, t, 0, ReadsOf(c)) /\ t \in Who
      BY <3>3 DEF Spot, Who
    <3> QED
      BY <3>1 DEF Has, SomeOf
  <2>3. alive[c] = "open" /\ ~pending[c]
    BY <1>0, <2>2 DEF ReadAt
  <2>4. Hand[t] # Task
    BY <2>1 DEF Read, Task
  <2> QED
    BY <1>6, <1>7, <2>1, <2>3, <2>4, ReadsOnStep
<1>8. ASSUME NEW t \in Threads, FirstRead(t) PROVE ReadAt(d)'
  <2>1. PICK c \in Conns : /\ alive[c] = "new"
                           /\ alive' = [alive EXCEPT ![c] = "open"]
                           /\ StartEffect(t, c, <<"leave">>)
    BY <1>8, FirstReadStep
  <2>2. c \in Sockets
    BY DEF Sockets
  <2>3. ~pending[c]
    BY <1>0, <2>1, <2>2 DEF ReadAt
  <2> QED
    BY <1>0, <1>6, <1>8, <2>1, <2>2, <2>3, FirstReadStep
<1>9. ASSUME NEW t \in Threads, Drops(t) PROVE ReadAt(d)'
  <2>0. PICK c \in Sockets, ok \in BOOLEAN :
          /\ Hand[t] = Read(c, ok)
          /\ alive' = [alive EXCEPT ![c] = "gone"]
          /\ timer' = [timer EXCEPT ![c] = "out"]
          /\ \/ /\ timer[c] = "out" /\ todo'[t] = <<"leave">>
                /\ Hand' = [Hand EXCEPT ![t] = Task]
             \/ /\ timer[c] # "out" /\ todo'[t] = <<"enqueue", "leave">>
                /\ op'[t] = Wait(c, FALSE)
                /\ Hand' = [Hand EXCEPT ![t] = Wait(c, FALSE)]
    BY <1>9, DropsStep
  <2>1. PICK o \in {Task, Wait(c, FALSE)} :
          /\ Hand[t] = Read(c, ok) /\ Hand' = [Hand EXCEPT ![t] = o]
          /\ alive' = [alive EXCEPT ![c] = "gone"]
    BY <2>0
  <2>2. UNCHANGED <<queue, priv, pending>> /\ o \notin S
    <3>1. Wait(c, FALSE) \notin S
      BY ReadsApart
    <3> QED
      BY <1>0, <1>9, <2>1, <3>1, DropsStep
  <2>3. CASE c = d
    <3>1. Hand[t] \in S
      <4>1. Read(c, ok) \in S
        BY <2>3, ReadsApart
      <4> QED
        BY <2>1, <4>1
    <3>2. Spot(queue, priv, Hand, t, 0, S) /\ t \in Who
      BY <3>1 DEF Spot, Who
    <3>3. Has(S) /\ ~pending[d]
      BY <1>0, <3>2 DEF Has, SomeOf, ReadAt
    <3>4. AtMostOne(queue', priv', Hand', S) /\ ~SomeOf(queue', priv', Hand', S)
      BY <1>0, <2>1, <2>2, <3>1, HandMoves DEF ReadAt
    <3> QED
      BY <1>0, <2>1, <2>2, <2>3, <3>3, <3>4, ReadAfter
  <2>4. CASE c # d
    <3>1. Hand[t] \notin S
      <4>1. Read(c, ok) \notin S
        BY <2>4, ReadsApart
      <4> QED
        BY <2>1, <4>1
    <3>2. Kept(S)
      BY <2>1, <2>2, <3>1, HandMoves
    <3> QED
      BY <1>0, <2>1, <2>2, <2>4, <3>2, ReadKept
  <2> QED
    BY <2>3, <2>4
<1>10. ASSUME NEW t \in Threads, TimesOut(t) \/ Called(t) PROVE ReadAt(d)'
  <2>1. /\ Hand' = [Hand EXCEPT ![t] = Task] /\ Hand[t] \notin S
        /\ UNCHANGED <<queue, priv, pending, alive>>
    <3>1. Callback \notin S /\ \A c : \A ok \in BOOLEAN : Wait(c, ok) \notin S
      BY ReadsApart
    <3>2. CASE TimesOut(t)
      BY <3>1, <3>2, TimesOutStep DEF sched, socket
    <3>3. CASE Called(t)
      BY <3>1, <3>3, CalledStep DEF sched, socket
    <3> QED
      BY <1>10, <3>2, <3>3
  <2>2. Kept(S)
    BY <1>0, <2>1, HandMoves
  <2> QED
    BY <1>0, <2>1, <2>2, ReadKept
<1>11. ASSUME NEW t \in Threads, Cancel(t) PROVE ReadAt(d)'
  <2>1. UNCHANGED <<queue, priv, alive>> /\ Hand[t] \notin S
    BY <1>0, <1>11, CancelStep
  <2>2. CASE UNCHANGED pending /\ Hand' = Hand
    <3>1. Kept(S)
      BY <2>1, <2>2 DEF Kept
    <3> QED
      BY <1>0, <2>1, <2>2, <3>1, ReadKept
  <2>3. ASSUME NEW c \in Sockets, pending[c],
               pending' = [pending EXCEPT ![c] = FALSE],
               Hand' = [Hand EXCEPT ![t] = Read(c, FALSE)]
        PROVE  ReadAt(d)'
    <3>1. CASE c = d
      <4>1. Read(c, FALSE) \in S /\ ~Has(S) /\ alive[d] = "open"
        BY <1>0, <2>3, <3>1, ReadsApart DEF ReadAt
      <4>2. AtMostOne(queue', priv', Hand', S) /\ SomeOf(queue', priv', Hand', S)
        BY <2>1, <2>3, <4>1, HandMoves
      <4>3. alive'[d] = "open" /\ ~pending'[d]
        BY <1>0, <2>1, <2>3, <3>1, <4>1
      <4> QED
        BY <4>2, <4>3, ReadAfter
    <3>2. CASE c # d
      <4>1. Read(c, FALSE) \notin S
        BY <3>2, ReadsApart
      <4>2. Kept(S)
        BY <2>1, <2>3, <4>1, HandMoves
      <4> QED
        BY <1>0, <2>1, <2>3, <3>2, <4>2, ReadKept
    <3> QED
      BY <3>1, <3>2
  <2> QED
    BY <1>11, <2>2, <2>3, CancelStep
<1>12. ASSUME NEW t \in Threads, Poll(t) PROVE ReadAt(d)'
  <2>1. \A c : Descriptor(c) \notin S /\ Wait(c, TRUE) \notin S
    BY ReadsApart
  <2>2. Kept(S)
    BY <1>12, <2>1, PollMoves
  <2> QED
    BY <1>0, <1>12, <2>2, PollStep, ReadKept
<1> QED
  BY <1>1, <1>2, <1>3, <1>4, <1>5, <1>7, <1>8, <1>9, <1>10, <1>11, <1>12, Cases

(* Waits *)
WaitAt(c) == Single(WaitsOf(c)) /\ (Has(WaitsOf(c)) => timer[c] = "out")

LEMMA WaitAfter ==
  ASSUME NEW c \in Sockets,
         AtMostOne(queue', priv', Hand', WaitsOf(c)),
         SomeOf(queue', priv', Hand', WaitsOf(c)) => timer'[c] = "out"
  PROVE  WaitAt(c)'
<1>1. (Single(WaitsOf(c)))'
  BY DEF Single, WaitsOf, Wait
<1>2. (Has(WaitsOf(c)) => timer[c] = "out")'
  BY DEF Has, WaitsOf, Wait
<1> QED
  BY <1>1, <1>2 DEF WaitAt

LEMMA WaitKept ==
  ASSUME NEW c \in Sockets, WaitAt(c), Kept(WaitsOf(c)),
         timer[c] = "out" => timer'[c] = "out"
  PROVE  WaitAt(c)'
<1>1. AtMostOne(queue', priv', Hand', WaitsOf(c))
  BY DEF WaitAt, Kept, Single
<1>2. SomeOf(queue', priv', Hand', WaitsOf(c)) => timer'[c] = "out"
  BY DEF WaitAt, Kept, Has
<1> QED
  BY <1>1, <1>2, WaitAfter

LEMMA WaitsApart ==
  ASSUME NEW c
  PROVE  /\ Task \notin WaitsOf(c) /\ Callback \notin WaitsOf(c)
         /\ \A d : Descriptor(d) \notin WaitsOf(c)
         /\ \A d : \A ok \in BOOLEAN : Read(d, ok) \notin WaitsOf(c)
         /\ \A d : \A ok \in BOOLEAN : Wait(d, ok) \in WaitsOf(c) <=> d = c
         /\ \A d : Read(d, TRUE) \notin WaitsOf(c) /\ Read(d, FALSE) \notin WaitsOf(c)
         /\ \A d : Wait(d, TRUE) \in WaitsOf(c) <=> d = c
         /\ \A d : Wait(d, FALSE) \in WaitsOf(c) <=> d = c
BY DEF WaitsOf, Read, Wait, Descriptor, Task, Callback

(* A step that starts, completes or cancels a read leaves other operations *)
(* where they are.                                                         *)
LEMMA ReadingKeeps ==
  ASSUME TypeInv, ProgramInv, NEW t \in Threads, NEW S, Task \notin S,
         \A c : Descriptor(c) \notin S,
         \A c : \A ok \in BOOLEAN : Read(c, ok) \notin S,
         \A c : Read(c, TRUE) \notin S /\ Read(c, FALSE) \notin S,
         Perform(t) \/ ReadsOn(t) \/ FirstRead(t) \/ Cancel(t)
  PROVE  Kept(S)
<1>1. CASE Perform(t)
  <2>1. PICK c \in Sockets :
          /\ Hand[t] = Descriptor(c)
          /\ \/ /\ pending[c] /\ pending' = [pending EXCEPT ![c] = FALSE]
                /\ \E ok \in BOOLEAN : Hand' = [Hand EXCEPT ![t] = Read(c, ok)]
             \/ /\ pending' = pending
                /\ Hand' = [Hand EXCEPT ![t] = Task]
    BY <1>1, PerformStep
  <2>2. PICK o : o \notin S /\ Hand' = [Hand EXCEPT ![t] = o]
    BY <2>1
  <2>3. queue' = queue /\ priv' = priv /\ Hand[t] \notin S
    BY <1>1, <2>1, PerformStep
  <2> QED
    BY <2>2, <2>3, HandMoves
<1>2. ASSUME NEW c \in Sockets, NEW rest, queue' = queue,
             StartEffect(t, c, rest), Hand[t] \notin S
      PROVE  Kept(S)
  BY <1>2, ClearMoves, StartMoves DEF Kept, Has, Single
<1>3. CASE ReadsOn(t)
  <2>1. PICK c \in Sockets, rest \in {<<"leave">>, <<"first", "leave">>} :
          Hand[t] = Read(c, TRUE) /\ StartEffect(t, c, rest)
    BY <1>3, ReadsOnStep
  <2>2. Hand[t] \notin S
    BY <2>1
  <2> QED
    BY <1>2, <1>3, <2>1, <2>2, ReadsOnStep
<1>4. CASE FirstRead(t)
  <2>1. PICK c \in Conns : StartEffect(t, c, <<"leave">>)
    BY <1>4, FirstReadStep
  <2>2. c \in Sockets
    BY DEF Sockets
  <2> QED
    BY <1>2, <1>4, <2>1, <2>2, FirstReadStep
<1>5. CASE Cancel(t)
  <2>1. CASE Hand' = Hand
    BY <1>5, <2>1, CancelStep DEF Kept
  <2>2. ASSUME NEW c \in Sockets, Hand' = [Hand EXCEPT ![t] = Read(c, FALSE)]
        PROVE  Kept(S)
    <3>1. queue' = queue /\ priv' = priv /\ Hand[t] = Task
      BY <1>5, CancelStep
    <3>2. Hand[t] \notin S /\ Read(c, FALSE) \notin S
      BY <3>1
    <3> QED
      BY <2>2, <3>1, <3>2, HandMoves
  <2> QED
    BY <1>5, <2>1, <2>2, CancelStep
<1> QED
  BY <1>1, <1>3, <1>4, <1>5

LEMMA WaitPreserved ==
  ASSUME TypeInv, ProgramInv, WaitInv, [Next]_vars
  PROVE  WaitInv'
<1> SUFFICES ASSUME NEW d \in Sockets PROVE WaitAt(d)'
  BY DEF WaitInv, WaitAt, Single, Has
<1> DEFINE S == WaitsOf(d)
<1>0. /\ WaitAt(d) /\ Task \notin S /\ \A c \in Sockets : WaitAt(c)
      /\ timer \in [Sockets -> {"armed", "due", "out"}]
  BY WaitsApart DEF TypeInv, WaitInv, WaitAt, Single, Has
<1>1. CASE World \/ UNCHANGED vars
  BY <1>0, <1>1, WorldStep, WaitKept DEF thread, Kept
<1>2. ASSUME NEW t \in Threads, Quiet(t) PROVE WaitAt(d)'
  BY <1>0, <1>2, QuietKeeps, QuietSockets, WaitKept
<1>3. ASSUME NEW t \in Threads, Looping(t) PROVE WaitAt(d)'
  BY <1>0, <1>3, LoopingKeeps, LoopingStep, WaitKept DEF socket
<1>4. ASSUME NEW t \in Threads, Enqueue(t) PROVE WaitAt(d)'
  BY <1>0, <1>4, EnqueueKeeps, EnqueueStep, WaitKept DEF socket
<1>5. ASSUME NEW t \in Threads,
             Perform(t) \/ ReadsOn(t) \/ FirstRead(t) \/ Cancel(t)
      PROVE  WaitAt(d)'
  <2>1. /\ \A c : Descriptor(c) \notin S
        /\ \A c : \A ok \in BOOLEAN : Read(c, ok) \notin S
        /\ \A c : Read(c, TRUE) \notin S /\ Read(c, FALSE) \notin S
    BY WaitsApart
  <2>2. Kept(S)
    BY <1>0, <1>5, <2>1, ReadingKeeps
  <2>3. timer' = timer
    BY <1>5, PerformStep, ReadsOnStep, FirstReadStep, CancelStep
  <2> QED
    BY <1>0, <2>2, <2>3, WaitKept
<1>6. ASSUME NEW t \in Threads, Drops(t) PROVE WaitAt(d)'
  <2>1. PICK c \in Sockets, ok \in BOOLEAN :
          /\ Hand[t] = Read(c, ok)
          /\ alive' = [alive EXCEPT ![c] = "gone"]
          /\ timer' = [timer EXCEPT ![c] = "out"]
          /\ \/ /\ timer[c] = "out" /\ todo'[t] = <<"leave">>
                /\ Hand' = [Hand EXCEPT ![t] = Task]
             \/ /\ timer[c] # "out" /\ todo'[t] = <<"enqueue", "leave">>
                /\ op'[t] = Wait(c, FALSE)
                /\ Hand' = [Hand EXCEPT ![t] = Wait(c, FALSE)]
    BY <1>6, DropsStep
  <2>2. queue' = queue /\ priv' = priv
    BY <1>6, DropsStep
  <2>3. Hand[t] \notin S /\ timer'[c] = "out"
    <3>1. Read(c, ok) \notin S
      BY WaitsApart
    <3> QED
      BY <1>0, <2>1, <3>1
  <2>4. CASE Hand' = [Hand EXCEPT ![t] = Task]
    <3>1. Kept(S)
      BY <1>0, <2>2, <2>3, <2>4, HandMoves
    <3> QED
      BY <1>0, <2>1, <3>1, WaitKept
  <2>5. CASE timer[c] # "out" /\ Hand' = [Hand EXCEPT ![t] = Wait(c, FALSE)]
    <3>1. CASE c = d
      <4>1. Wait(c, FALSE) \in S
        BY <3>1, WaitsApart
      <4>2. ~Has(S)
        BY <1>0, <2>5, <3>1 DEF WaitAt
      <4>3. AtMostOne(queue', priv', Hand', S)
        BY <2>2, <2>5, <4>1, <4>2, HandMoves
      <4> QED
        BY <2>3, <3>1, <4>3, WaitAfter
    <3>2. CASE c # d
      <4>1. Wait(c, FALSE) \notin S
        BY <3>2, WaitsApart
      <4>2. Kept(S)
        BY <2>2, <2>3, <2>5, <4>1, HandMoves
      <4> QED
        BY <1>0, <2>1, <4>2, WaitKept
    <3> QED
      BY <3>1, <3>2
  <2> QED
    BY <2>1, <2>4, <2>5
<1>7. ASSUME NEW t \in Threads, TimesOut(t) \/ Called(t) PROVE WaitAt(d)'
  <2>1. /\ Hand' = [Hand EXCEPT ![t] = Task]
        /\ UNCHANGED <<queue, priv, timer>>
    BY <1>7, TimesOutStep, CalledStep DEF sched, socket
  <2>2. CASE Hand[t] \in S
    <3>1. /\ AtMostOne(queue', priv', Hand', S)
          /\ ~SomeOf(queue', priv', Hand', S)
      BY <1>0, <2>1, <2>2, HandMoves DEF WaitAt
    <3> QED
      BY <3>1, WaitAfter
  <2>3. CASE Hand[t] \notin S
    <3>1. Kept(S)
      BY <1>0, <2>1, <2>3, HandMoves
    <3> QED
      BY <1>0, <2>1, <3>1, WaitKept
  <2> QED
    BY <2>2, <2>3
<1>8. ASSUME NEW t \in Threads, Poll(t) PROVE WaitAt(d)'
  <2>1. timer' = [c \in Sockets |-> IF timer[c] = "due" THEN "out" ELSE timer[c]]
    BY <1>8, PollStep
  <2>2. CASE timer[d] = "due"
    <3>1. Single(S) /\ ~Has(S)
      BY <1>0, <2>2 DEF WaitAt
    <3>2. AtMostOne(queue', priv', Hand', S)
      BY <1>8, <2>2, <3>1, PollMoves
    <3>3. timer'[d] = "out"
      BY <2>1, <2>2
    <3> QED
      BY <3>2, <3>3, WaitAfter
  <2>3. CASE timer[d] # "due"
    <3>1. \A c \in Sockets : /\ Descriptor(c) \notin S
                             /\ timer[c] = "due" => Wait(c, TRUE) \notin S
      BY <2>3, WaitsApart
    <3>2. Kept(S)
      BY <1>8, <3>1, PollMoves
    <3>3. timer'[d] = timer[d]
      BY <2>1, <2>3
    <3> QED
      BY <1>0, <3>2, <3>3, WaitKept
  <2> QED
    BY <2>2, <2>3
<1> QED
  BY <1>1, <1>2, <1>3, <1>4, <1>5, <1>6, <1>7, <1>8, Cases

(* The callback posted by start. *)
LEMMA CallbackApart ==
  /\ Task \notin {Callback} /\ \A c : Descriptor(c) \notin {Callback}
  /\ \A c : \A ok \in BOOLEAN : /\ Read(c, ok) \notin {Callback}
                                /\ Wait(c, ok) \notin {Callback}
  /\ \A c : Read(c, TRUE) \notin {Callback} /\ Read(c, FALSE) \notin {Callback}
  /\ \A c : Wait(c, TRUE) \notin {Callback} /\ Wait(c, FALSE) \notin {Callback}
BY DEF Callback, Read, Wait, Descriptor, Task

LEMMA CallbackMoves ==
  ASSUME TypeInv, ProgramInv, CallbackInv, NEW t \in Threads
  PROVE  /\ \/ Perform(t) \/ ReadsOn(t) \/ FirstRead(t) \/ Cancel(t)
            \/ Drops(t) \/ TimesOut(t) \/ Poll(t)
            \/ Quiet(t) \/ Looping(t) \/ Enqueue(t)
            => Kept({Callback})
         /\ Called(t) => /\ Has({Callback})
                         /\ AtMostOne(queue', priv', Hand', {Callback})
                         /\ ~SomeOf(queue', priv', Hand', {Callback})
<1> DEFINE S == {Callback}
<1>1. /\ Task \notin S /\ \A c : Descriptor(c) \notin S
      /\ \A c : \A ok \in BOOLEAN : Read(c, ok) \notin S /\ Wait(c, ok) \notin S
      /\ \A c : Read(c, TRUE) \notin S /\ Read(c, FALSE) \notin S
      /\ \A c : Wait(c, TRUE) \notin S /\ Wait(c, FALSE) \notin S
      /\ Callback \in S /\ Single(S)
  BY CallbackApart DEF CallbackInv, Single
<1> HIDE DEF S
<1>3. Drops(t) => Kept(S)
  <2> SUFFICES ASSUME Drops(t) PROVE Kept(S)
    OBVIOUS
  <2>1. PICK c \in Sockets, ok \in BOOLEAN :
          /\ Hand[t] = Read(c, ok)
          /\ alive' = [alive EXCEPT ![c] = "gone"]
          /\ timer' = [timer EXCEPT ![c] = "out"]
          /\ \/ /\ timer[c] = "out" /\ todo'[t] = <<"leave">>
                /\ Hand' = [Hand EXCEPT ![t] = Task]
             \/ /\ timer[c] # "out" /\ todo'[t] = <<"enqueue", "leave">>
                /\ op'[t] = Wait(c, FALSE)
                /\ Hand' = [Hand EXCEPT ![t] = Wait(c, FALSE)]
    BY DropsStep
  <2>2. PICK o : o \notin S /\ Hand' = [Hand EXCEPT ![t] = o]
    BY <1>1, <2>1
  <2>3. Hand[t] \notin S
    BY <1>1, <2>1
  <2> QED
    BY <2>2, <2>3, DropsStep, HandMoves
<1>4. TimesOut(t) => Kept(S)
  <2> SUFFICES ASSUME TimesOut(t) PROVE Kept(S)
    OBVIOUS
  <2>1. Hand[t] \notin S
    BY <1>1, TimesOutStep
  <2>2. /\ Hand' = [Hand EXCEPT ![t] = Task] /\ UNCHANGED <<queue, priv>>
    BY TimesOutStep DEF sched
  <2> QED
    BY <1>1, <2>1, <2>2, HandMoves
<1>5. Poll(t) => Kept(S)
  BY <1>1, PollMoves
<1>6. Quiet(t) => Kept(S)
  BY QuietKeeps
<1>7. Looping(t) => Kept(S)
  BY <1>1, LoopingKeeps
<1>8. Enqueue(t) => Kept(S)
  BY <1>1, EnqueueKeeps
<1>9. ASSUME Called(t)
      PROVE  /\ Has(S) /\ AtMostOne(queue', priv', Hand', S)
             /\ ~SomeOf(queue', priv', Hand', S)
  <2>1. /\ Hand[t] \in S /\ Hand' = [Hand EXCEPT ![t] = Task]
        /\ UNCHANGED <<queue, priv>>
    BY <1>1, <1>9, CalledStep DEF sched
  <2>2. Spot(queue, priv, Hand, t, 0, S) /\ t \in Who
    BY <2>1 DEF Spot, Who
  <2> QED
    BY <1>1, <2>1, <2>2, HandMoves DEF Has, SomeOf
<1>10. Perform(t) \/ ReadsOn(t) \/ FirstRead(t) \/ Cancel(t) => Kept(S)
  BY <1>1, ReadingKeeps
<1> QED
  BY <1>3, <1>4, <1>5, <1>6, <1>7, <1>8, <1>9, <1>10 DEF S

LEMMA CallbackPreserved ==
  ASSUME TypeInv, ProgramInv, CallbackInv, [Next]_vars
  PROVE  CallbackInv'
<1>1. CASE World \/ UNCHANGED vars
  BY <1>1, WorldStep DEF CallbackInv, thread, Callback
<1>2. ASSUME Kept({Callback}) PROVE CallbackInv'
  BY <1>2 DEF CallbackInv, Kept, Callback
<1>3. ASSUME AtMostOne(queue', priv', Hand', {Callback}) PROVE CallbackInv'
  BY <1>3 DEF CallbackInv, Callback
<1> QED
  BY <1>1, <1>2, <1>3, CallbackMoves, Cases

LEMMA PlacePreserved == PlaceInv /\ [Next]_vars => PlaceInv'
BY TypePreserved, ProgramPreserved, TaskPreserved, DescriptorPreserved,
   ReadPreserved, WaitPreserved, CallbackPreserved DEF PlaceInv

----------------------------------------------------------------------------
(* The start, with any of the threads, sockets and timers                  *)

SomeStart == \E ts \in SUBSET Threads, cs \in SUBSET Sockets :
               \E tm \in SUBSET cs, m \in Nat : Starts(ts, cs, tm, m)
AnySpec == SomeStart /\ [][Next]_vars

LEMMA StartStep ==
  ASSUME NEW ts \in SUBSET Threads, NEW cs \in SUBSET Sockets,
         NEW tm \in SUBSET cs, NEW m \in Nat, Starts(ts, cs, tm, m)
  PROVE  /\ TypeInv /\ Hand = NoHand
         /\ \A t \in Threads : todo[t] \in {<<"begin">>, << >>}
         /\ \A t \in Threads : priv[t] = << >> /\ privWork[t] = 0
         /\ \A S : Task \notin S /\ Callback \notin S =>
              /\ AtMostOne(queue, priv, Hand, S)
              /\ ~SomeOf(queue, priv, Hand, S)
         /\ CallbackInv /\ SomeOf(queue, priv, Hand, {Callback})
<1>1. /\ queue = <<Task, Callback>> /\ Len(queue) = 2
      /\ queue[1] = Task /\ queue[2] = Callback
      /\ todo = [t \in Threads |-> IF t \in ts THEN <<"begin">> ELSE << >>]
      /\ op = [t \in Threads |-> Task]
      /\ priv = [t \in Threads |-> << >>]
      /\ privWork = [t \in Threads |-> 0]
  BY DEF Starts
<1>2. \A t \in Threads : todo[t] \in {<<"begin">>, << >>} /\ todo[t] \in Shapes
  BY <1>1 DEF Shapes, RestShapes
<1>3. Hand = NoHand
  BY <1>1 DEF Hand, NoHand
<1>4. TypeInv
  <2>1. Task \in Operations /\ Callback \in Operations
    BY DEF Operations
  <2>2. queue \in Queues /\ << >> \in Queues
    BY <1>1, <2>1 DEF Queues
  <2>3. IsFiniteSet(cs) /\ IsFiniteSet(tm)
    BY SocketsFinite, FS_Subset
  <2>4. Cardinality(cs) \in Nat /\ Cardinality(tm) \in Nat
    BY <2>3, FS_CardinalityType
  <2>5. work \in Int
    BY <2>4 DEF Starts
  <2>6. /\ pending \in [Sockets -> BOOLEAN]
        /\ timer \in [Sockets -> {"armed", "due", "out"}]
        /\ alive \in [Sockets -> {"new", "open", "gone"}]
    BY DEF Starts
  <2>7. todo \in [Threads -> Shapes]
    BY <1>1, <1>2
  <2> QED
    BY <1>1, <2>1, <2>2, <2>5, <2>6, <2>7 DEF TypeInv
<1>5. \A t \in Threads : Hand[t] = Task /\ Len(priv[t]) = 0
  BY <1>1, <1>3 DEF NoHand
<1>6. \A S, w, i : Task \notin S /\ Spot(queue, priv, Hand, w, i, S) =>
                     w = Nobody /\ i = 2 /\ Callback \in S
  BY <1>1, <1>5 DEF Spot
<1>7. Task \notin {Callback}
  BY CallbackApart
<1>8. CallbackInv
  BY <1>6, <1>7 DEF CallbackInv, AtMostOne
<1>9. SomeOf(queue, priv, Hand, {Callback})
  BY <1>1 DEF SomeOf, Spot, Who
<1>10. \A S : Task \notin S /\ Callback \notin S =>
              /\ AtMostOne(queue, priv, Hand, S)
              /\ ~SomeOf(queue, priv, Hand, S)
  BY <1>6 DEF AtMostOne, SomeOf
<1> QED
  BY <1>1, <1>2, <1>3, <1>4, <1>8, <1>9, <1>10

LEMMA StartPlace == SomeStart => PlaceInv
<1> SUFFICES ASSUME NEW ts \in SUBSET Threads, NEW cs \in SUBSET Sockets,
                    NEW tm \in SUBSET cs, NEW m \in Nat, Starts(ts, cs, tm, m)
             PROVE  PlaceInv
  BY DEF SomeStart
<1>1. /\ TypeInv /\ CallbackInv /\ Hand = NoHand
      /\ \A t \in Threads : todo[t] \in {<<"begin">>, << >>}
      /\ \A t \in Threads : priv[t] = << >> /\ privWork[t] = 0
      /\ \A S : Task \notin S /\ Callback \notin S =>
           /\ AtMostOne(queue, priv, Hand, S)
           /\ ~SomeOf(queue, priv, Hand, S)
  BY StartStep
<1>2. \A s \in {<<"begin">>, << >>} :
        s \notin CloseShapes /\ s \notin EnqShapes /\ ~Accepting(s)
        /\ ~Polling(s) /\ s # <<"cleanup">>
  BY ShapesApart, TaskShapesApart DEF RestShapes
<1>3. ProgramInv
  <2> SUFFICES ASSUME NEW t \in Threads PROVE ProgramAt(t)
    BY DEF ProgramInv
  <2>1. priv[t] = << >> /\ privWork[t] # 1
    BY <1>1
  <2>2. todo[t] \notin CloseShapes /\ todo[t] \notin EnqShapes
        /\ ~Accepting(todo[t])
    BY <1>1, <1>2
  <2> QED
    BY <2>1, <2>2 DEF ProgramAt
<1>4. /\ queue = <<Task, Callback>> /\ Len(queue) = 2
      /\ queue[1] = Task /\ queue[2] = Callback /\ Task # Callback
  BY CallbackApart DEF Starts
<1>5. TaskInv
  <2>1. \A t \in Threads : ~HasTask(t) /\ Len(priv[t]) = 0
    BY <1>1, <1>2 DEF HasTask
  <2> QED
    BY <1>4, <2>1 DEF TaskInv
<1>6. DescriptorInv
  <2>1. \A c \in Sockets : AtMostOne(queue, priv, NoHand, {Descriptor(c)})
    <3> TAKE c \in Sockets
    <3>1. Task \notin {Descriptor(c)} /\ Callback \notin {Descriptor(c)}
      BY CallbackApart DEF Task, Descriptor
    <3> QED
      BY <1>1, <3>1
  <2>2. queue[1] \notin Descriptors /\ queue[2] \notin Descriptors
    BY <1>4, CallbackApart DEF Descriptors, Task, Descriptor
  <2> QED
    BY <1>1, <1>4, <2>1, <2>2 DEF DescriptorInv
<1>7. ReadInv
  BY <1>1, ReadsApart DEF ReadInv, Starts
<1>8. WaitInv
  BY <1>1, WaitsApart DEF WaitInv
<1> QED
  BY <1>1, <1>3, <1>5, <1>6, <1>7, <1>8 DEF PlaceInv

(* init always starts with every thread and the listener. *)
LEMMA AnyStart == Init => SomeStart
<1>1. Listener \in Sockets
  BY DEF Sockets
<1> QED
  BY <1>1 DEF Init, SomeStart

LEMMA SpecIsAny == Spec => AnySpec
BY AnyStart, PTL DEF Spec, AnySpec

(* Whatever the threads and the world do, every operation has its place:   *)
(* the task is in the queue or with the one thread in epoll_reactor::run;  *)
(* a descriptor is linked into at most one queue, before the task; and a   *)
(* read or a wait that has completed is in one queue or in one thread's    *)
(* hands.                                                                  *)
THEOREM PlaceInvariant == AnySpec => []PlaceInv
<1>1. SomeStart => PlaceInv
  BY StartPlace
<1>2. PlaceInv /\ [Next]_vars => PlaceInv'
  BY PlacePreserved
<1> QED
  BY <1>1, <1>2, PTL DEF AnySpec

----------------------------------------------------------------------------
(* An operation is in one place at a time                                  *)

LEMMA ShapeContains ==
  ASSUME NEW s \in Shapes
  PROVE  /\ Contains(s, "enqueue") <=> s \in EnqShapes
         /\ Contains(s, "run") <=> s \in RunShapes
BY DEF Contains, Shapes, RunShapes, EnqShapes, TaskShapes, CloseShapes,
       FirstShapes, LeaveShapes, StopShapes, RestShapes

LEMMA OpsByKind ==
  ASSUME NEW o \in Operations, NEW c \in Sockets
  PROVE  /\ IsOp(o, "read", c) <=> o \in ReadsOf(c)
         /\ IsOp(o, "wait", c) <=> o \in WaitsOf(c)
         /\ IsOp(o, "descriptor", c) <=> o \in {Descriptor(c)}
BY DEF Operations, IsOp, ReadsOf, WaitsOf, Task, Callback, Descriptor, Read, Wait

LEMMA QueuedOps ==
  ASSUME TypeInv, NEW kind, NEW c, NEW S, Task \notin S,
         \A o \in Operations : IsOp(o, kind, c) <=> o \in S
  PROVE  /\ \A x : x \in InQueues(kind, c) <=>
              \E w \in Who, i \in Nat :
                x = <<w, i>> /\ Spot(queue, priv, NoHand, w, i, S)
         /\ \A x : x \in InQueues(kind, c) =>
              \E w \in Who, i \in Nat :
                x = <<w, i>> /\ Spot(queue, priv, Hand, w, i, S)
         /\ \A w \in Who, i \in Nat : Spot(queue, priv, Hand, w, i, S) =>
              \/ <<w, i>> \in InQueues(kind, c)
              \/ w \in Threads /\ i = 0 /\ Hand[w] \in S
<1>1. \A i \in 1 .. Len(queue) : IsOp(queue[i], kind, c) <=> queue[i] \in S
  BY DEF TypeInv, Queues
<1>2. \A t \in Threads : \A i \in 1 .. Len(priv[t]) :
        IsOp(priv[t][i], kind, c) <=> priv[t][i] \in S
  BY DEF TypeInv, Queues
<1>3. DOMAIN queue = 1 .. Len(queue)
      /\ \A t \in Threads : DOMAIN priv[t] = 1 .. Len(priv[t])
  BY DEF TypeInv, Queues
<1>4. \A x : x \in InQueues(kind, c) <=>
        \/ \E i \in 1 .. Len(queue) : x = <<Nobody, i>> /\ queue[i] \in S
        \/ \E t \in Threads : \E i \in 1 .. Len(priv[t]) :
             x = <<t, i>> /\ priv[t][i] \in S
  BY <1>1, <1>2, <1>3 DEF InQueues
<1>5. \A t \in Threads : NoHand[t] \notin S
  BY NoHandKind
<1>6. Len(queue) \in Nat /\ \A t \in Threads : Len(priv[t]) \in Nat
  BY DEF TypeInv, Queues
<1>7. ASSUME NEW w \in Who, NEW i \in Nat
      PROVE  Spot(queue, priv, NoHand, w, i, S)
               <=> \/ w = Nobody /\ i \in 1 .. Len(queue) /\ queue[i] \in S
                   \/ /\ w \in Threads /\ i \in 1 .. Len(priv[w])
                      /\ priv[w][i] \in S
  BY <1>5 DEF Spot
<1>8. \A x : x \in InQueues(kind, c) <=>
        \E w \in Who, i \in Nat :
          x = <<w, i>> /\ Spot(queue, priv, NoHand, w, i, S)
  <2>1. ASSUME NEW x, x \in InQueues(kind, c)
        PROVE  \E w \in Who, i \in Nat :
                 x = <<w, i>> /\ Spot(queue, priv, NoHand, w, i, S)
    BY <1>4, <1>6, <1>7, <2>1 DEF Who
  <2>2. ASSUME NEW w \in Who, NEW i \in Nat,
               Spot(queue, priv, NoHand, w, i, S)
        PROVE  <<w, i>> \in InQueues(kind, c)
    BY <1>4, <1>7, <2>2
  <2> QED
    BY <2>1, <2>2
<1>9. ASSUME NEW w \in Who, NEW i \in Nat
      PROVE  Spot(queue, priv, Hand, w, i, S)
               <=> \/ Spot(queue, priv, NoHand, w, i, S)
                   \/ w \in Threads /\ i = 0 /\ Hand[w] \in S
  BY <1>5 DEF Spot
<1>10. \A x : x \in InQueues(kind, c) =>
         \E w \in Who, i \in Nat :
           x = <<w, i>> /\ Spot(queue, priv, Hand, w, i, S)
  BY <1>8, <1>9
<1>11. \A w \in Who, i \in Nat : Spot(queue, priv, Hand, w, i, S) =>
         \/ <<w, i>> \in InQueues(kind, c)
         \/ w \in Threads /\ i = 0 /\ Hand[w] \in S
  BY <1>8, <1>9
<1> QED
  BY <1>8, <1>10, <1>11

LEMMA OnePlace ==
  ASSUME TypeInv, NEW kind, NEW c, NEW S, Task \notin S, Single(S),
         \A o \in Operations : IsOp(o, kind, c) <=> o \in S
  PROVE  Places(kind, c) = IF Has(S) THEN 1 ELSE 0
<1> DEFINE Q == InQueues(kind, c)  E == Enqueuing(kind, c)  R == Running(kind, c)
<1>1. /\ \A x : x \in Q => \E w \in Who, i \in Nat :
              x = <<w, i>> /\ Spot(queue, priv, Hand, w, i, S)
      /\ \A w \in Who, i \in Nat : Spot(queue, priv, Hand, w, i, S) =>
              \/ <<w, i>> \in Q
              \/ w \in Threads /\ i = 0 /\ Hand[w] \in S
      /\ \A x : x \in Q => \E w \in Who, i \in Nat :
              x = <<w, i>> /\ Spot(queue, priv, NoHand, w, i, S)
  BY QueuedOps
<1>2. /\ \A t : t \in E <=> t \in Threads /\ op[t] \in S /\ todo[t] \in EnqShapes
      /\ \A t : t \in R <=> t \in Threads /\ op[t] \in S /\ todo[t] \in RunShapes
  BY ShapeContains DEF Enqueuing, Running, TypeInv
<1>3. /\ \A t \in E \cup R : t \in Threads /\ Spot(queue, priv, Hand, t, 0, S)
      /\ \A t \in Threads : Hand[t] \in S => t \in E \cup R
  BY <1>2 DEF Hand, Holding, Spot
<1>4. \A s \in EnqShapes : s \notin RunShapes
  BY DEF EnqShapes, RunShapes
<1>5. \A t \in E : t \notin R
  BY <1>2, <1>4
<1>6. \A x \in Q : \A t \in Threads : x # <<t, 0>>
  <2> SUFFICES ASSUME NEW t \in Threads, <<t, 0>> \in Q PROVE FALSE
    OBVIOUS
  <2>1. Spot(queue, priv, NoHand, t, 0, S)
    BY <1>1
  <2> QED
    BY <2>1, NoHandKind, ThreadsAssumption DEF Spot
<1> HIDE DEF Q, E, R
<1>7. \A x, y \in Q : x = y
  BY <1>1 DEF Single, AtMostOne
<1>8. \A t, u \in E \cup R : t = u
  BY <1>3 DEF Single, AtMostOne, Who
<1>9. \A x \in Q : E \cup R = {}
  BY <1>1, <1>3, <1>6 DEF Single, AtMostOne, Who
<1>10. Has(S) <=> Q # {} \/ E \cup R # {}
  BY <1>1, <1>3 DEF Has, SomeOf, Who
<1>11. \A X : \A x \in X : (\A y \in X : y = x) => X = {x}
  OBVIOUS
<1>12. Cardinality({}) = 0 /\ \A x : Cardinality({x}) = 1
  BY FS_EmptySet, FS_Singleton
<1>13. Places(kind, c) = Cardinality(Q) + Cardinality(E) + Cardinality(R)
  BY DEF Places, Q, E, R
<1>14. CASE Q # {}
  <2>1. PICK x \in Q : Q = {x}
    BY <1>7, <1>14
  <2> QED
    BY <1>9, <1>10, <1>12, <1>13, <1>14, <2>1
<1>15. CASE Q = {} /\ E # {}
  <2>1. PICK x \in E : E = {x} /\ R = {}
    BY <1>5, <1>8, <1>15
  <2> QED
    BY <1>10, <1>12, <1>13, <1>15, <2>1
<1>16. CASE Q = {} /\ E = {} /\ R # {}
  <2>1. PICK x \in R : R = {x}
    BY <1>8, <1>16
  <2>2. Has(S)
    BY <1>10, <1>16
  <2>3. Cardinality(R) = 1
    BY <1>12, <2>1
  <2> QED
    BY <1>12, <1>13, <1>16, <2>2, <2>3
<1>17. CASE Q = {} /\ E = {} /\ R = {}
  BY <1>10, <1>12, <1>13, <1>17
<1> QED
  BY <1>14, <1>15, <1>16, <1>17

LEMMA OneInQueues ==
  ASSUME TypeInv, NEW kind, NEW c, NEW S, Task \notin S,
         AtMostOne(queue, priv, NoHand, S),
         \A o \in Operations : IsOp(o, kind, c) <=> o \in S
  PROVE  Cardinality(InQueues(kind, c)) <= 1
<1>1. \A x, y \in InQueues(kind, c) : x = y
  BY QueuedOps DEF AtMostOne
<1>2. CASE InQueues(kind, c) = {}
  BY <1>2, FS_EmptySet
<1>3. CASE InQueues(kind, c) # {}
  <2>1. PICK x : InQueues(kind, c) = {x}
    BY <1>1, <1>3
  <2>2. Cardinality({x}) = 1
    BY FS_Singleton
  <2> QED
    BY <2>1, <2>2
<1> QED
  BY <1>2, <1>3

LEMMA PlacesByKind ==
  ASSUME PlaceInv, NEW c \in Sockets
  PROVE  /\ Places("read", c) = IF Has(ReadsOf(c)) THEN 1 ELSE 0
         /\ Places("wait", c) = IF Has(WaitsOf(c)) THEN 1 ELSE 0
<1>1. Task \notin ReadsOf(c) /\ Task \notin WaitsOf(c)
  BY ReadsApart, WaitsApart
<1>2. Single(ReadsOf(c)) /\ Single(WaitsOf(c)) /\ TypeInv
  BY DEF PlaceInv, ReadInv, WaitInv, Single
<1> QED
  BY <1>1, <1>2, OpsByKind, OnePlace

LEMMA PlaceInvImplies == PlaceInv => OnePlaceEach
<1> SUFFICES ASSUME PlaceInv, NEW c \in Sockets
             PROVE  /\ Places("read", c) + (IF pending[c] THEN 1 ELSE 0)
                         = IF alive[c] = "open" THEN 1 ELSE 0
                    /\ Places("wait", c) + (IF timer[c] = "out" THEN 0 ELSE 1) <= 1
                    /\ Cardinality(InQueues("descriptor", c)) <= 1
  BY DEF OnePlaceEach
<1>1. ReadAt(c) /\ WaitAt(c) /\ TypeInv
  BY DEF PlaceInv, ReadInv, ReadAt, WaitInv, WaitAt, Single, Has
<1>2. Task \notin {Descriptor(c)} /\ AtMostOne(queue, priv, NoHand, {Descriptor(c)})
  BY CallbackApart DEF PlaceInv, DescriptorInv, Task, Descriptor
<1>3. Cardinality(InQueues("descriptor", c)) <= 1
  BY <1>1, <1>2, OpsByKind, OneInQueues
<1>4. Places("read", c) + (IF pending[c] THEN 1 ELSE 0)
        = IF alive[c] = "open" THEN 1 ELSE 0
  BY <1>1, PlacesByKind DEF ReadAt
<1>5. Places("wait", c) + (IF timer[c] = "out" THEN 0 ELSE 1) <= 1
  BY <1>1, PlacesByKind DEF WaitAt
<1> QED
  BY <1>3, <1>4, <1>5

(* No read of a connection and no wait of its timer is lost or duplicated  *)
(* by the queues, the descriptors and the hands of the threads, and the    *)
(* pointer that links a descriptor into a queue is used once at a time,    *)
(* for any number of threads, connections and messages.                    *)
THEOREM OperationsHaveOnePlace == AnySpec => []OnePlaceEach
BY PlaceInvariant, PlaceInvImplies, PTL

----------------------------------------------------------------------------
(* The count of outstanding work                                           *)

LEMMA ServingAfter ==
  ASSUME TypeInv, NEW t \in Threads, Others(t)
  PROVE  /\ Serving' = IF Leaving(todo'[t]) THEN Serving \cup {t} ELSE Serving \ {t}
         /\ t \in Serving <=> Leaving(todo[t])
         /\ privWork' \in [Threads -> {0, 1}] =>
              Owing' = IF privWork'[t] = 1 THEN Owing \cup {t} ELSE Owing \ {t}
         /\ t \in Owing <=> privWork[t] = 1
<1>1. \A u \in Threads \ {t} : Leaving(todo'[u]) <=> Leaving(todo[u])
  BY OthersKeep
<1>2. \A u \in Threads \ {t} : privWork'[u] = privWork[u]
  BY DEF Others
<1>3. Serving' = IF Leaving(todo'[t]) THEN Serving \cup {t} ELSE Serving \ {t}
  BY <1>1 DEF Serving
<1>4. Owing' = IF privWork'[t] = 1 THEN Owing \cup {t} ELSE Owing \ {t}
  BY <1>2 DEF Owing
<1> QED
  BY <1>3, <1>4 DEF Serving, Owing

LEMMA TimedKept ==
  ASSUME \A c \in Sockets : /\ Has(WaitsOf(c))' <=> Has(WaitsOf(c))
                            /\ timer'[c] = "out" <=> timer[c] = "out"
  PROVE  Timed' = Timed
BY DEF Timed, Has

LEMMA TimedStep ==
  ASSUME TypeInv, ProgramInv, WaitInv
  PROVE  /\ World \/ UNCHANGED vars => Timed' = Timed
         /\ \A t \in Threads :
              /\ \/ Quiet(t) \/ Looping(t) \/ Enqueue(t) \/ Perform(t)
                 \/ ReadsOn(t) \/ FirstRead(t) \/ Cancel(t) \/ Drops(t)
                 \/ Called(t) \/ Poll(t)
                 => Timed' = Timed
              /\ TimesOut(t) => \E c \in Timed : /\ Timed' = Timed \ {c}
                                                /\ Hand[t] \in WaitsOf(c)
<1>0. /\ \A c \in Sockets : WaitAt(c) /\ Task \notin WaitsOf(c)
      /\ \A c \in Sockets : Kept(WaitsOf(c)) =>
           (Has(WaitsOf(c))' <=> Has(WaitsOf(c)))
  BY WaitsApart DEF WaitInv, WaitAt, Single, Has, Kept, WaitsOf, Wait
<1>1. World \/ UNCHANGED vars => Timed' = Timed
  BY WorldStep DEF Timed, thread
<1>2. ASSUME NEW t \in Threads, timer' = timer, \A c \in Sockets : Kept(WaitsOf(c))
      PROVE  Timed' = Timed
  BY <1>0, <1>2, TimedKept
<1>3. ASSUME NEW t \in Threads, Quiet(t) PROVE Timed' = Timed
  BY <1>2, <1>3, QuietKeeps, QuietSockets
<1>4. ASSUME NEW t \in Threads, Looping(t) PROVE Timed' = Timed
  BY <1>0, <1>2, <1>4, LoopingKeeps, LoopingStep DEF socket
<1>5. ASSUME NEW t \in Threads, Enqueue(t) PROVE Timed' = Timed
  BY <1>0, <1>2, <1>5, EnqueueKeeps, EnqueueStep DEF socket
<1>6. ASSUME NEW t \in Threads,
             Perform(t) \/ ReadsOn(t) \/ FirstRead(t) \/ Cancel(t)
      PROVE  Timed' = Timed
  <2>1. \A c \in Sockets : Kept(WaitsOf(c))
    <3> TAKE c \in Sockets
    <3> DEFINE S == WaitsOf(c)
    <3>1. /\ \A d : Descriptor(d) \notin S
          /\ \A d : \A ok \in BOOLEAN : Read(d, ok) \notin S
          /\ \A d : Read(d, TRUE) \notin S /\ Read(d, FALSE) \notin S
      BY WaitsApart
    <3> QED
      BY <1>0, <1>6, <3>1, ReadingKeeps
  <2>2. timer' = timer
    BY <1>6, PerformStep, ReadsOnStep, FirstReadStep, CancelStep
  <2> QED
    BY <1>2, <2>1, <2>2
<1>7. ASSUME NEW t \in Threads, Called(t) PROVE Timed' = Timed
  <2>1. /\ Hand[t] = Callback /\ Hand' = [Hand EXCEPT ![t] = Task]
        /\ queue' = queue /\ priv' = priv /\ timer' = timer
    BY <1>7, CalledStep DEF sched, socket
  <2>2. \A c \in Sockets : Hand[t] \notin WaitsOf(c)
    BY <2>1, WaitsApart
  <2>3. \A c \in Sockets : Kept(WaitsOf(c))
    BY <1>0, <2>1, <2>2, HandMoves
  <2> QED
    BY <1>2, <2>1, <2>3
<1>8. ASSUME NEW t \in Threads, Drops(t) PROVE Timed' = Timed
  <2>1. PICK c \in Sockets, ok \in BOOLEAN :
          /\ Hand[t] = Read(c, ok)
          /\ alive' = [alive EXCEPT ![c] = "gone"]
          /\ timer' = [timer EXCEPT ![c] = "out"]
          /\ \/ /\ timer[c] = "out" /\ todo'[t] = <<"leave">>
                /\ Hand' = [Hand EXCEPT ![t] = Task]
             \/ /\ timer[c] # "out" /\ todo'[t] = <<"enqueue", "leave">>
                /\ op'[t] = Wait(c, FALSE)
                /\ Hand' = [Hand EXCEPT ![t] = Wait(c, FALSE)]
    BY <1>8, DropsStep
  <2>2. queue' = queue /\ priv' = priv
    BY <1>8, DropsStep
  <2>3. \A d \in Sockets : Hand[t] \notin WaitsOf(d)
    <3>1. \A d \in Sockets : Read(c, ok) \notin WaitsOf(d)
      BY WaitsApart
    <3> QED
      BY <2>1, <3>1
  <2>4. timer \in [Sockets -> {"armed", "due", "out"}]
    BY DEF TypeInv
  <2>5. CASE timer[c] = "out" /\ Hand' = [Hand EXCEPT ![t] = Task]
    <3>1. \A d \in Sockets : Kept(WaitsOf(d))
      BY <1>0, <2>2, <2>3, <2>5, HandMoves
    <3>2. timer' = timer
      BY <2>1, <2>4, <2>5
    <3> QED
      BY <1>2, <3>1, <3>2
  <2>6. CASE timer[c] # "out" /\ Hand' = [Hand EXCEPT ![t] = Wait(c, FALSE)]
    <3>1. \A d \in Sockets \ {c} : Kept(WaitsOf(d)) /\ timer'[d] = timer[d]
      <4> SUFFICES ASSUME NEW d \in Sockets \ {c} PROVE Kept(WaitsOf(d))
        BY <2>1, <2>4
      <4>1. Wait(c, FALSE) \notin WaitsOf(d)
        BY WaitsApart
      <4> QED
        BY <2>2, <2>3, <2>6, <4>1, HandMoves
    <3>2. SomeOf(queue', priv', Hand', WaitsOf(c))
      <4>1. Wait(c, FALSE) \in WaitsOf(c) /\ ~Has(WaitsOf(c))
        BY <1>0, <2>6, WaitsApart DEF WaitAt
      <4> QED
        BY <2>2, <2>6, <4>1, HandMoves
    <3>3. \A d \in Sockets \ {c} : Has(WaitsOf(d))' <=> Has(WaitsOf(d))
      BY <1>0, <3>1
    <3> QED
      BY <2>6, <3>1, <3>2, <3>3 DEF Timed, Has
  <2> QED
    BY <2>1, <2>5, <2>6
<1>9. ASSUME NEW t \in Threads, Poll(t) PROVE Timed' = Timed
  <2>1. timer' = [c \in Sockets |-> IF timer[c] = "due" THEN "out" ELSE timer[c]]
    BY <1>9, PollStep
  <2>2. \A c \in Sockets : timer[c] = "due" => SomeOf(queue', priv', Hand', WaitsOf(c))
    BY <1>0, <1>9, PollMoves DEF WaitAt
  <2>3. \A c \in Sockets : timer[c] # "due" =>
          (SomeOf(queue', priv', Hand', WaitsOf(c)) <=> Has(WaitsOf(c)))
    <3> SUFFICES ASSUME NEW c \in Sockets, timer[c] # "due" PROVE Kept(WaitsOf(c))
      BY DEF Kept, Has
    <3>1. \A d \in Sockets : /\ Descriptor(d) \notin WaitsOf(c)
                             /\ timer[d] = "due" => Wait(d, TRUE) \notin WaitsOf(c)
      BY WaitsApart
    <3> QED
      BY <1>9, <3>1, PollMoves
  <2> QED
    BY <2>1, <2>2, <2>3 DEF Timed, Has
<1>10. ASSUME NEW t \in Threads, TimesOut(t)
       PROVE  \E c \in Timed : Timed' = Timed \ {c} /\ Hand[t] \in WaitsOf(c)
  <2>1. PICK c \in Sockets, ok \in BOOLEAN : Hand[t] = Wait(c, ok)
    BY <1>10, TimesOutStep
  <2>2. /\ Hand' = [Hand EXCEPT ![t] = Task]
        /\ queue' = queue /\ priv' = priv /\ timer' = timer
    BY <1>10, TimesOutStep DEF sched, socket
  <2>3. \A d \in Sockets : Hand[t] \in WaitsOf(d) <=> d = c
    <3>1. \A d \in Sockets : Wait(c, ok) \in WaitsOf(d) <=> d = c
      BY WaitsApart
    <3> QED
      BY <2>1, <3>1
  <2>4. \A d \in Sockets \ {c} : SomeOf(queue', priv', Hand', WaitsOf(d)) <=> Has(WaitsOf(d))
    <3> SUFFICES ASSUME NEW d \in Sockets \ {c} PROVE Kept(WaitsOf(d))
      BY DEF Kept, Has
    <3> QED
      BY <1>0, <2>2, <2>3, HandMoves
  <2>5. ~SomeOf(queue', priv', Hand', WaitsOf(c))
    BY <1>0, <2>2, <2>3, HandMoves DEF WaitAt
  <2>6. Has(WaitsOf(c))
    BY <2>3 DEF Has, SomeOf, Spot, Who
  <2>7. timer[c] = "out"
    BY <1>0, <2>6 DEF WaitAt
  <2>8. c \in Timed
    BY <2>6 DEF Timed, Has
  <2>9. Timed' = Timed \ {c}
    BY <2>2, <2>4, <2>5, <2>7 DEF Timed, Has
  <2>10. Hand[t] \in WaitsOf(c)
    BY <2>3, <2>8 DEF Timed
  <2> QED
    BY <2>8, <2>9, <2>10
<1> QED
  BY <1>1, <1>3, <1>4, <1>5, <1>6, <1>7, <1>8, <1>9, <1>10

LEMMA PostedStep ==
  ASSUME TypeInv, ProgramInv, CallbackInv
  PROVE  /\ World \/ UNCHANGED vars => Posted' = Posted
         /\ \A t \in Threads :
              /\ \/ Quiet(t) \/ Looping(t) \/ Enqueue(t) \/ Perform(t)
                 \/ ReadsOn(t) \/ FirstRead(t) \/ Cancel(t) \/ Drops(t)
                 \/ TimesOut(t) \/ Poll(t)
                 => Posted' = Posted
              /\ Called(t) => Posted = {Callback} /\ Posted' = {}
<1>1. World \/ UNCHANGED vars => Posted' = Posted
  BY WorldStep DEF Posted, thread
<1>2. Kept({Callback}) => Posted' = Posted
  BY DEF Kept, Posted
<1>3. Has({Callback}) => Posted = {Callback}
  BY DEF Has, Posted
<1>4. ~SomeOf(queue', priv', Hand', {Callback}) => Posted' = {}
  BY DEF Posted
<1> QED
  BY <1>1, <1>2, <1>3, <1>4, CallbackMoves

LEMMA OpenStep ==
  ASSUME TypeInv, ProgramInv, ReadInv
  PROVE  /\ World \/ UNCHANGED vars => Open' = Open
         /\ \A t \in Threads :
              \/ Quiet(t) \/ Looping(t) \/ Enqueue(t) \/ Perform(t) \/ ReadsOn(t)
              \/ Cancel(t) \/ TimesOut(t) \/ Called(t) \/ Poll(t)
              => Open' = Open
         /\ \A t \in Threads :
              /\ FirstRead(t) => \E c \in Sockets \ Open : Open' = Open \cup {c}
              /\ Drops(t) => \E c \in Open : Open' = Open \ {c}
<1>1. alive' = alive => Open' = Open
  BY DEF Open
<1>2. World \/ UNCHANGED vars => Open' = Open
  BY <1>1, WorldStep
<1>3. \A t \in Threads :
        \/ Quiet(t) \/ Looping(t) \/ Enqueue(t) \/ Perform(t) \/ ReadsOn(t)
        \/ Cancel(t) \/ TimesOut(t) \/ Called(t) \/ Poll(t)
        => Open' = Open
  BY <1>1, QuietSockets, LoopingStep, EnqueueStep, PerformStep, ReadsOnStep,
     CancelStep, TimesOutStep, CalledStep, PollStep DEF socket
<1>4. ASSUME NEW t \in Threads, FirstRead(t)
      PROVE  \E c \in Sockets \ Open : Open' = Open \cup {c}
  <2>1. PICK c \in Conns : alive[c] = "new" /\ alive' = [alive EXCEPT ![c] = "open"]
    BY <1>4, FirstReadStep
  <2>2. c \in Sockets \ Open
    BY <2>1 DEF Open, Sockets
  <2>3. Open' = Open \cup {c}
    BY <2>1, <2>2 DEF Open, TypeInv
  <2> QED
    BY <2>2, <2>3
<1>5. ASSUME NEW t \in Threads, Drops(t)
      PROVE  \E c \in Open : Open' = Open \ {c}
  <2>1. PICK c \in Sockets, ok \in BOOLEAN :
          /\ Hand[t] = Read(c, ok)
          /\ alive' = [alive EXCEPT ![c] = "gone"]
          /\ timer' = [timer EXCEPT ![c] = "out"]
          /\ \/ /\ timer[c] = "out" /\ todo'[t] = <<"leave">>
                /\ Hand' = [Hand EXCEPT ![t] = Task]
             \/ /\ timer[c] # "out" /\ todo'[t] = <<"enqueue", "leave">>
                /\ op'[t] = Wait(c, FALSE)
                /\ Hand' = [Hand EXCEPT ![t] = Wait(c, FALSE)]
    BY <1>5, DropsStep
  <2>2. Hand[t] \in ReadsOf(c)
    <3>1. Read(c, ok) \in ReadsOf(c)
      BY ReadsApart
    <3> QED
      BY <2>1, <3>1
  <2>3. Has(ReadsOf(c))
    BY <2>2 DEF Has, SomeOf, Spot, Who
  <2>4. c \in Open
    BY <2>3 DEF ReadInv, Has, Open
  <2>5. Open' = Open \ {c}
    BY <2>1 DEF Open, TypeInv
  <2> QED
    BY <2>4, <2>5
<1>6. \A t \in Threads :
        /\ FirstRead(t) => \E c \in Sockets \ Open : Open' = Open \cup {c}
        /\ Drops(t) => \E c \in Open : Open' = Open \ {c}
  BY <1>4, <1>5
<1> QED
  BY <1>2, <1>3, <1>6

LEMMA Counts ==
  /\ IsFiniteSet(Open) /\ Cardinality(Open) \in Nat
  /\ IsFiniteSet(Timed) /\ Cardinality(Timed) \in Nat
  /\ IsFiniteSet(Posted) /\ Cardinality(Posted) \in Nat
  /\ IsFiniteSet(Serving) /\ Cardinality(Serving) \in Nat
  /\ IsFiniteSet(Owing) /\ Cardinality(Owing) \in Nat
<1>1. Open \subseteq Sockets /\ Timed \subseteq Sockets
  BY DEF Open, Timed
<1>2. Posted \subseteq {Callback} /\ IsFiniteSet({Callback})
  BY FS_Singleton DEF Posted
<1>3. Serving \subseteq Threads /\ Owing \subseteq Threads /\ IsFiniteSet(Threads)
  BY ThreadsAssumption DEF Serving, Owing
<1>4. /\ IsFiniteSet(Open) /\ IsFiniteSet(Timed) /\ IsFiniteSet(Posted)
      /\ IsFiniteSet(Serving) /\ IsFiniteSet(Owing)
  BY <1>1, <1>2, <1>3, SocketsFinite, FS_Subset
<1> QED
  BY <1>4, FS_CardinalityType

LEMMA CountMoves ==
  ASSUME NEW A, IsFiniteSet(A), NEW x
  PROVE  /\ x \notin A => Cardinality(A \cup {x}) = Cardinality(A) + 1
         /\ x \in A => Cardinality(A \ {x}) = Cardinality(A) - 1
         /\ x \in A => A \cup {x} = A
         /\ x \notin A => A \ {x} = A
BY FS_AddElement, FS_RemoveElement

(* What a step of t does to the count, when the operations under way       *)
(* change by n, what t serves from s to s1, and what it owes from p to p1. *)
LEMMA WorkAfter ==
  ASSUME TypeInv, WorkInv, NEW t \in Threads, Others(t),
         privWork' \in [Threads -> {0, 1}], NEW n \in Int, NEW w \in Int,
         NEW s \in {0, 1}, NEW s1 \in {0, 1}, NEW p \in {0, 1}, NEW p1 \in {0, 1},
         s = 1 <=> Leaving(todo[t]), s1 = 1 <=> Leaving(todo'[t]),
         p = privWork[t], p1 = privWork'[t],
         Cardinality(Open') + Cardinality(Timed') + Cardinality(Posted')
           = Cardinality(Open) + Cardinality(Timed) + Cardinality(Posted) + n,
         work' = work + w, w + p1 - p = n + s1 - s
  PROVE  WorkInv'
<1>1. PICK so \in Int, ow \in Int :
        so = Cardinality(Serving) /\ ow = Cardinality(Owing)
  BY Counts
<1>2. Cardinality(Serving') = so + s1 - s
  <2>1. /\ Serving' = IF Leaving(todo'[t]) THEN Serving \cup {t} ELSE Serving \ {t}
        /\ t \in Serving <=> Leaving(todo[t])
    BY ServingAfter
  <2>2. /\ t \notin Serving => Cardinality(Serving \cup {t}) = so + 1
        /\ t \in Serving => Cardinality(Serving \ {t}) = so - 1
        /\ t \in Serving => Serving \cup {t} = Serving
        /\ t \notin Serving => Serving \ {t} = Serving
    BY <1>1, Counts, CountMoves
  <2>3. CASE s1 = s
    <3>1. Serving' = Serving
      BY <2>1, <2>2, <2>3
    <3> QED
      BY <1>1, <2>3, <3>1
  <2>4. CASE s1 = 1 /\ s = 0
    BY <1>1, <2>1, <2>2, <2>4
  <2>5. CASE s1 = 0 /\ s = 1
    BY <1>1, <2>1, <2>2, <2>5
  <2> QED
    BY <2>3, <2>4, <2>5
<1>3. Cardinality(Owing') = ow + p1 - p
  <2>1. /\ Owing' = IF privWork'[t] = 1 THEN Owing \cup {t} ELSE Owing \ {t}
        /\ t \in Owing <=> privWork[t] = 1
    BY ServingAfter
  <2>2. /\ t \notin Owing => Cardinality(Owing \cup {t}) = ow + 1
        /\ t \in Owing => Cardinality(Owing \ {t}) = ow - 1
        /\ t \in Owing => Owing \cup {t} = Owing
        /\ t \notin Owing => Owing \ {t} = Owing
    BY <1>1, Counts, CountMoves
  <2>3. CASE p1 = p
    <3>1. Owing' = Owing
      BY <2>1, <2>2, <2>3
    <3> QED
      BY <1>1, <2>3, <3>1
  <2>4. CASE p1 = 1 /\ p = 0
    BY <1>1, <2>1, <2>2, <2>4
  <2>5. CASE p1 = 0 /\ p = 1
    BY <1>1, <2>1, <2>2, <2>5
  <2> QED
    BY <2>3, <2>4, <2>5
<1>4. PICK k \in Int, v \in Int :
        k = Cardinality(Open) + Cardinality(Timed) + Cardinality(Posted)
        /\ v = work
  BY Counts DEF TypeInv
<1>5. v + ow = k + so
  BY <1>1, <1>4 DEF WorkInv
<1>6. work' + Cardinality(Owing') = (k + n) + Cardinality(Serving')
  BY <1>1, <1>2, <1>3, <1>4, <1>5
<1> QED
  BY <1>4, <1>6 DEF WorkInv

(* Where a thread has called a handler, and where it has not. *)
LEMMA LeavingAt ==
  /\ ~Leaving(<<"run">>) /\ ~Leaving(<<"signal", "run">>) /\ ~Leaving(<<"poll">>)
  /\ ~Leaving(<<"peek">>) /\ ~Leaving(<<"signal", "peek">>)
  /\ ~Leaving(<<"begin">>) /\ ~Leaving(<<"loop">>) /\ ~Leaving(<<"wait">>)
  /\ ~Leaving(<<"woken">>) /\ ~Leaving(<<"cleanup">>) /\ ~Leaving(<< >>)
  /\ ~Leaving(<<"stop">>) /\ ~Leaving(<<"stop", "loop">>)
  /\ Leaving(<<"leave">>) /\ Leaving(<<"signal", "leave">>)
  /\ Leaving(<<"first", "leave">>) /\ Leaving(<<"signal", "first", "leave">>)
  /\ Leaving(<<"cancel", "leave">>) /\ Leaving(<<"shutdown", "cancel", "leave">>)
  /\ Leaving(<<"enqueue", "leave">>) /\ Leaving(<<"enqueue", "first", "leave">>)
  /\ \A rest \in {<<"leave">>, <<"first", "leave">>} :
       Leaving(rest) /\ Leaving(<<"enqueue">> \o rest)
<1>1. /\ <<"enqueue">> \o <<"leave">> = <<"enqueue", "leave">>
      /\ <<"enqueue">> \o <<"first", "leave">> = <<"enqueue", "first", "leave">>
  BY ShapeTails
<1>2. /\ Leaving(<<"leave">>) /\ Leaving(<<"first", "leave">>)
      /\ Leaving(<<"enqueue", "leave">>) /\ Leaving(<<"enqueue", "first", "leave">>)
  BY ShapeKinds DEF EnqShapes, FirstShapes, LeaveShapes
<1>3. \A rest \in {<<"leave">>, <<"first", "leave">>} :
        Leaving(rest) /\ Leaving(<<"enqueue">> \o rest)
  BY <1>1, <1>2
<1>4. /\ Leaving(<<"signal", "leave">>) /\ Leaving(<<"signal", "first", "leave">>)
      /\ Leaving(<<"cancel", "leave">>) /\ Leaving(<<"shutdown", "cancel", "leave">>)
  BY ShapeKinds DEF CloseShapes, FirstShapes, LeaveShapes
<1>5. /\ ~Leaving(<<"run">>) /\ ~Leaving(<<"signal", "run">>) /\ ~Leaving(<<"poll">>)
      /\ ~Leaving(<<"peek">>) /\ ~Leaving(<<"signal", "peek">>)
  BY ShapeKinds DEF RunShapes, TaskShapes
<1>6. /\ ~Leaving(<<"begin">>) /\ ~Leaving(<<"loop">>) /\ ~Leaving(<<"wait">>)
      /\ ~Leaving(<<"woken">>) /\ ~Leaving(<<"cleanup">>) /\ ~Leaving(<< >>)
      /\ ~Leaving(<<"stop">>) /\ ~Leaving(<<"stop", "loop">>)
  BY ShapeKinds DEF StopShapes, RestShapes
<1> QED
  BY <1>2, <1>3, <1>4, <1>5, <1>6

LEMMA LoopingServes ==
  ASSUME TypeInv, ProgramInv, NEW t \in Threads, Looping(t)
  PROVE  ~Leaving(todo'[t]) /\ todo'[t] \notin StopShapes
<1>1. PICK q, i : q \in Queues /\ Finds(t, q, i)
  BY LoopingStep
<1>2. todo \in [Threads -> Shapes]
  BY DEF TypeInv
<1>3. todo'[t] \in {<< >>, <<"wait">>, <<"poll">>, <<"peek">>, <<"signal", "peek">>,
                    <<"run">>, <<"signal", "run">>}
  <2>1. <<"signal">> \o <<"run">> = <<"signal", "run">>
    BY JoinTwo
  <2> QED
    BY <1>1, <1>2, <2>1 DEF Finds, GoTo, WakeOne
<1> QED
  BY <1>3, LeavingAt DEF StopShapes

LEMMA WorkSame ==
  ASSUME TypeInv, WorkInv, NEW t \in Threads, Others(t),
         Open' = Open, Timed' = Timed, Posted' = Posted, work' = work,
         privWork' = privWork, Leaving(todo'[t]) <=> Leaving(todo[t])
  PROVE  WorkInv'
<1>1. Serving' = Serving
  BY ServingAfter
<1>2. Owing' = Owing
  BY DEF Owing
<1> QED
  BY <1>1, <1>2 DEF WorkInv

LEMMA SetsKept ==
  ASSUME TypeInv, ProgramInv, ReadInv, WaitInv, CallbackInv, NEW t \in Threads,
         \/ Quiet(t) \/ Looping(t) \/ Enqueue(t) \/ Perform(t) \/ ReadsOn(t)
         \/ Cancel(t) \/ Poll(t)
  PROVE  Open' = Open /\ Timed' = Timed /\ Posted' = Posted
<1>1. Open' = Open
  BY OpenStep
<1>2. Timed' = Timed
  BY TimedStep
<1>3. Posted' = Posted
  BY PostedStep
<1> QED
  BY <1>1, <1>2, <1>3

LEMMA WorkPreserved ==
  ASSUME PlaceInv, WorkInv, [Next]_vars
  PROVE  WorkInv'
<1>0. /\ TypeInv /\ ProgramInv /\ ReadInv /\ WaitInv /\ CallbackInv
      /\ privWork' \in [Threads -> {0, 1}]
      /\ \A t \in Threads : privWork[t] \in {0, 1} /\ privWork'[t] \in {0, 1}
      /\ \A t \in Threads : ~Leaving(todo[t]) => privWork[t] = 0
  <2>1. TypeInv /\ ProgramInv /\ ReadInv /\ WaitInv /\ CallbackInv /\ TypeInv'
    BY TypePreserved DEF PlaceInv
  <2> QED
    BY <2>1 DEF TypeInv, ProgramInv, ProgramAt
<1>1. CASE World \/ UNCHANGED vars
  <2>1. Open' = Open /\ Timed' = Timed /\ Posted' = Posted
    BY <1>0, <1>1, OpenStep, TimedStep, PostedStep
  <2>2. Serving' = Serving /\ Owing' = Owing /\ work' = work
    BY <1>0, <1>1, WorldStep DEF thread, Serving, Owing
  <2> QED
    BY <2>1, <2>2 DEF WorkInv
<1>2. PICK k \in Int : k = Cardinality(Open) + Cardinality(Timed) + Cardinality(Posted)
  BY Counts
<1>3. ASSUME NEW t \in Threads, Quiet(t) PROVE WorkInv'
  <2>0. Open' = Open /\ Timed' = Timed /\ Posted' = Posted /\ Others(t)
    BY <1>0, <1>3, SetsKept, QuietSockets
  <2>1. CASE Leave(t)
    <3>1. Leaving(todo[t]) /\ ~Leaving(todo'[t])
      <4>1. todo[t] \in Shapes
        BY <1>0 DEF TypeInv
      <4>2. todo[t] = <<"leave">>
        BY <2>1, <4>1, ShapeAt DEF Leave, At
      <4>3. todo'[t] \in {<<"stop", "loop">>, <<"loop">>}
        BY <1>0, <2>1 DEF Leave, GoTo, TypeInv
      <4> QED
        BY <4>2, <4>3, LeavingAt
    <3>2. work' = work + (privWork[t] - 1) /\ privWork'[t] = 0
      BY <1>0, <2>1 DEF Leave, TypeInv
    <3> DEFINE w == privWork[t] - 1
    <3>3. PICK p \in {0, 1} : p = privWork[t]
      BY <1>0
    <3>4. work' = work + (p - 1) /\ p - 1 \in Int /\ (p - 1) + 0 - p = 0 - 1
      BY <3>2, <3>3
    <3> QED
      BY <1>0, <1>2, <2>0, <3>1, <3>2, <3>3, <3>4, WorkAfter
  <2>2. CASE ~Leave(t)
    <3>1. work' = work /\ privWork' = privWork
      BY <1>0, <1>3, <2>2, QuietSockets
    <3>2. Leaving(todo'[t]) <=> Leaving(todo[t])
      BY <1>0, <1>3, <2>2, QuietStep, LeavingAt DEF Goes
    <3> QED
      BY <1>0, <2>0, <3>1, <3>2, WorkSame
  <2> QED
    BY <2>1, <2>2
<1>4. ASSUME NEW t \in Threads, Looping(t) PROVE WorkInv'
  <2>1. ~Leaving(todo[t]) /\ ~Leaving(todo'[t]) /\ work' = work
        /\ privWork' = privWork /\ Others(t)
    BY <1>0, <1>4, LoopingStep, LoopingServes
  <2> QED
    BY <1>0, <1>4, <2>1, SetsKept, WorkSame
<1>5. ASSUME NEW t \in Threads, Enqueue(t) PROVE WorkInv'
  <2>1. Leaving(todo[t]) /\ Leaving(todo'[t]) /\ work' = work
        /\ privWork' = privWork /\ Others(t)
    BY <1>0, <1>5, EnqueueStep, LeavingAt, ShapeKinds DEF Goes
  <2> QED
    BY <1>0, <1>5, <2>1, SetsKept, WorkSame
<1>6. ASSUME NEW t \in Threads, Perform(t) PROVE WorkInv'
  <2>0. Open' = Open /\ Timed' = Timed /\ Posted' = Posted
    BY <1>0, <1>6, SetsKept
  <2>1. todo[t] = <<"run">> /\ Others(t) /\ work' = work
    BY <1>0, <1>6, PerformStep
  <2>2. CASE privWork' = privWork /\ todo' = todo
    BY <1>0, <2>0, <2>1, <2>2, WorkSame
  <2>3. CASE /\ privWork[t] = 0 /\ privWork' = [privWork EXCEPT ![t] = 1]
             /\ todo' = [todo EXCEPT ![t] = <<"leave">>]
    <3>1. privWork'[t] = 1 /\ todo'[t] = <<"leave">>
      BY <1>0, <2>3 DEF TypeInv
    <3>2. ~Leaving(todo[t]) /\ Leaving(todo'[t])
      BY <2>1, <3>1, LeavingAt
    <3>3. 0 \in Int /\ 0 + 1 - 0 = 0 + 1 - 0 /\ work' = work + 0
      BY <1>0, <2>1 DEF TypeInv
    <3> QED
      BY <1>0, <1>2, <2>0, <2>1, <2>3, <3>1, <3>2, <3>3, WorkAfter
  <2> QED
    BY <1>0, <1>6, <2>2, <2>3, PerformStep
<1>7. ASSUME NEW t \in Threads, NEW c \in Sockets,
             NEW rest \in {<<"leave">>, <<"first", "leave">>},
             Others(t), StartEffect(t, c, rest), privWork[t] = 0,
             NEW n \in Int, NEW s \in {0, 1}, s = 1 <=> Leaving(todo[t]), n = s - 0,
             Cardinality(Open') + Cardinality(Timed') + Cardinality(Posted') = k + n
      PROVE  WorkInv'
  <2>1. Leaving(todo'[t])
    BY <1>7, LeavingAt DEF StartEffect
  <2>2. CASE privWork' = [privWork EXCEPT ![t] = 1] /\ work' = work
    <3>1. privWork'[t] = 1 /\ work' = work + 0 /\ 0 + 1 - 0 = n + 1 - s
      BY <1>0, <1>7, <2>2 DEF TypeInv
    <3> QED
      BY <1>0, <1>2, <1>7, <2>1, <3>1, WorkAfter
  <2>3. CASE privWork' = privWork /\ work' = work + 1
    <3>1. privWork'[t] = 0 /\ 1 + 0 - 0 = n + 1 - s
      BY <1>7, <2>3
    <3> QED
      BY <1>0, <1>2, <1>7, <2>1, <2>3, <3>1, WorkAfter
  <2> QED
    BY <1>7, <2>2, <2>3 DEF StartEffect
<1>8. ASSUME NEW t \in Threads, ReadsOn(t) PROVE WorkInv'
  <2>1. Open' = Open /\ Timed' = Timed /\ Posted' = Posted
    BY <1>0, <1>8, SetsKept
  <2>2. PICK c \in Sockets, rest \in {<<"leave">>, <<"first", "leave">>} :
          StartEffect(t, c, rest)
    BY <1>0, <1>8, ReadsOnStep
  <2>3. Others(t) /\ privWork[t] = 0 /\ ~Leaving(todo[t])
    BY <1>0, <1>8, ReadsOnStep, LeavingAt
  <2>4. Cardinality(Open') + Cardinality(Timed') + Cardinality(Posted') = k + 0
    BY <1>2, <2>1
  <2> QED
    BY <1>7, <2>2, <2>3, <2>4
<1>9. ASSUME NEW t \in Threads, FirstRead(t) PROVE WorkInv'
  <2>1. Timed' = Timed
    BY <1>0, <1>9, TimedStep
  <2>2. Posted' = Posted
    BY <1>0, <1>9, PostedStep
  <2>3. Cardinality(Open') = Cardinality(Open) + 1
    BY <1>0, <1>9, OpenStep, Counts, CountMoves
  <2>4. PICK c \in Sockets : StartEffect(t, c, <<"leave">>)
    BY <1>0, <1>9, FirstReadStep DEF Sockets
  <2>5. Others(t) /\ privWork[t] = 0 /\ Leaving(todo[t])
    BY <1>0, <1>9, FirstReadStep, LeavingAt
  <2>6. Cardinality(Open') + Cardinality(Timed') + Cardinality(Posted') = k + 1
    BY <1>2, <2>1, <2>2, <2>3, Counts
  <2> QED
    BY <1>7, <2>4, <2>5, <2>6
<1>10. ASSUME NEW t \in Threads, Others(t), ~Leaving(todo[t]), Leaving(todo'[t]),
              work' = work, privWork' = privWork,
              Cardinality(Open') + Cardinality(Timed') + Cardinality(Posted')
                = k + (0 - 1)
       PROVE  WorkInv'
  <2>1. /\ work' = work + 0 /\ privWork[t] = 0 /\ privWork'[t] = 0
        /\ 0 - 1 \in Int /\ 0 + 0 - 0 = (0 - 1) + 1 - 0
    BY <1>0, <1>10 DEF TypeInv
  <2> QED
    BY <1>0, <1>2, <1>10, <2>1, WorkAfter
<1>11. ASSUME NEW t \in Threads, Drops(t) PROVE WorkInv'
  <2>1. Timed' = Timed
    BY <1>0, <1>11, TimedStep
  <2>2. Posted' = Posted
    BY <1>0, <1>11, PostedStep
  <2>3. Cardinality(Open') = Cardinality(Open) - 1
    BY <1>0, <1>11, OpenStep, Counts, CountMoves
  <2>4. Others(t) /\ ~Leaving(todo[t]) /\ work' = work /\ privWork' = privWork
    BY <1>0, <1>11, DropsStep, LeavingAt
  <2>5. Leaving(todo'[t])
    BY <1>0, <1>11, DropsStep, LeavingAt
  <2>6. Cardinality(Open') + Cardinality(Timed') + Cardinality(Posted') = k + (0 - 1)
    BY <1>2, <2>1, <2>2, <2>3, Counts
  <2> QED
    BY <1>10, <2>4, <2>5, <2>6
<1>12. ASSUME NEW t \in Threads, TimesOut(t) PROVE WorkInv'
  <2>1. Open' = Open
    BY <1>0, <1>12, OpenStep
  <2>2. Posted' = Posted
    BY <1>0, <1>12, PostedStep
  <2>3. Cardinality(Timed') = Cardinality(Timed) - 1
    BY <1>0, <1>12, TimedStep, Counts, CountMoves
  <2>4. Others(t) /\ ~Leaving(todo[t]) /\ work' = work /\ privWork' = privWork
    BY <1>0, <1>12, TimesOutStep, LeavingAt
  <2>5. Leaving(todo'[t])
    BY <1>0, <1>12, TimesOutStep, LeavingAt
  <2>6. Cardinality(Open') + Cardinality(Timed') + Cardinality(Posted') = k + (0 - 1)
    BY <1>2, <2>1, <2>2, <2>3, Counts
  <2> QED
    BY <1>10, <2>4, <2>5, <2>6
<1>13. ASSUME NEW t \in Threads, Called(t) PROVE WorkInv'
  <2>1. Open' = Open
    BY <1>0, <1>13, OpenStep
  <2>2. Timed' = Timed
    BY <1>0, <1>13, TimedStep
  <2>3. Cardinality(Posted') = Cardinality(Posted) - 1
    <3>1. Posted = {Callback} /\ Posted' = {}
      BY <1>0, <1>13, PostedStep
    <3>2. Cardinality({Callback}) = 1 /\ Cardinality({}) = 0
      BY FS_EmptySet, FS_Singleton
    <3> QED
      BY <3>1, <3>2
  <2>4. Others(t) /\ ~Leaving(todo[t]) /\ work' = work /\ privWork' = privWork
    BY <1>0, <1>13, CalledStep, LeavingAt
  <2>5. Leaving(todo'[t])
    BY <1>0, <1>13, CalledStep, LeavingAt
  <2>6. Cardinality(Open') + Cardinality(Timed') + Cardinality(Posted') = k + (0 - 1)
    BY <1>2, <2>1, <2>2, <2>3, Counts
  <2> QED
    BY <1>10, <2>4, <2>5, <2>6
<1>14. ASSUME NEW t \in Threads, Cancel(t) PROVE WorkInv'
  <2>1. Others(t) /\ work' = work /\ privWork' = privWork /\ Leaving(todo[t])
    BY <1>0, <1>14, CancelStep, LeavingAt
  <2>2. Leaving(todo'[t])
    BY <1>0, <1>14, CancelStep, LeavingAt
  <2> QED
    BY <1>0, <1>14, <2>1, <2>2, SetsKept, WorkSame
<1>15. ASSUME NEW t \in Threads, Poll(t) PROVE WorkInv'
  <2>1. /\ Others(t) /\ work' = work /\ privWork' = privWork
        /\ ~Leaving(todo[t]) /\ ~Leaving(todo'[t])
    BY <1>0, <1>15, PollStep, LeavingAt
  <2> QED
    BY <1>0, <1>15, <2>1, SetsKept, WorkSame
<1> QED
  BY <1>1, <1>3, <1>4, <1>5, <1>6, <1>8, <1>9, <1>11, <1>12, <1>13, <1>14, <1>15,
     Cases

----------------------------------------------------------------------------
(* The end                                                                 *)

LEMMA StartWork == SomeStart => WorkInv /\ EndInv
<1> SUFFICES ASSUME NEW ts \in SUBSET Threads, NEW cs \in SUBSET Sockets,
                    NEW tm \in SUBSET cs, NEW m \in Nat, Starts(ts, cs, tm, m)
             PROVE  WorkInv /\ EndInv
  BY DEF SomeStart
<1>1. /\ \A t \in Threads : todo[t] \in {<<"begin">>, << >>} /\ privWork[t] = 0
      /\ \A S : Task \notin S /\ Callback \notin S => ~SomeOf(queue, priv, Hand, S)
      /\ SomeOf(queue, priv, Hand, {Callback})
  BY StartStep
<1>2. Open = cs
  BY DEF Open, Starts
<1>3. Timed = tm
  <2>1. \A c \in Sockets : ~SomeOf(queue, priv, Hand, WaitsOf(c))
    BY <1>1, WaitsApart
  <2> QED
    BY <2>1 DEF Timed, Starts
<1>4. Posted = {Callback} /\ Serving = {} /\ Owing = {}
  <2>1. Posted = {Callback}
    BY <1>1 DEF Posted
  <2>2. \A t \in Threads : ~Leaving(todo[t]) /\ privWork[t] # 1
    BY <1>1, LeavingAt
  <2> QED
    BY <2>1, <2>2 DEF Serving, Owing
<1>5. Cardinality({Callback}) = 1 /\ Cardinality({}) = 0
  BY FS_EmptySet, FS_Singleton
<1>6. Cardinality(cs) \in Int /\ Cardinality(tm) \in Int
  BY <1>2, <1>3, Counts
<1>7. work = Cardinality(cs) + Cardinality(tm) + 1
  BY DEF Starts
<1>8. WorkInv
  BY <1>2, <1>3, <1>4, <1>5, <1>6, <1>7 DEF WorkInv
<1>9. EndInv
  <2>1. \A s \in {<<"begin">>, << >>} : s \notin StopShapes
    BY DEF StopShapes
  <2>2. stopped = FALSE
    BY DEF Starts
  <2> QED
    BY <1>1, <2>1, <2>2 DEF EndInv
<1> QED
  BY <1>8, <1>9

(* Only a thread that serves may owe work: with none outstanding, every    *)
(* one of them does, and none is about to accept.                          *)
LEMMA NoWorkEnds == PlaceInv /\ WorkInv /\ work = 0 => Ended
<1> SUFFICES ASSUME PlaceInv, WorkInv, work = 0 PROVE Ended
  OBVIOUS
<1>1. Owing \subseteq Serving
  BY DEF PlaceInv, ProgramInv, ProgramAt, Owing, Serving
<1>2. PICK o \in Nat, d \in Nat, p \in Nat, s \in Nat, w \in Nat :
        /\ o = Cardinality(Open) /\ d = Cardinality(Timed)
        /\ p = Cardinality(Posted) /\ s = Cardinality(Serving)
        /\ w = Cardinality(Owing)
  BY Counts
<1>3. w = o + d + p + s
  BY <1>2 DEF WorkInv
<1>4. w <= s
  BY <1>1, <1>2, Counts, FS_Subset
<1>5. o = 0 /\ d = 0 /\ w = s
  BY <1>2, <1>3, <1>4
<1>6. Open = {} /\ Timed = {}
  BY <1>2, <1>5, Counts, FS_EmptySet
<1>7. Serving = Owing
  BY <1>1, <1>2, <1>5, Counts, FS_Subset
<1>8. ASSUME NEW t \in Threads, todo[t] \in FirstShapes PROVE FALSE
  <2>1. Leaving(todo[t]) /\ Accepting(todo[t])
    BY <1>8, ShapeKinds DEF Accepting
  <2>2. privWork[t] = 0
    BY <2>1 DEF PlaceInv, ProgramInv, ProgramAt
  <2>3. t \in Serving /\ t \notin Owing
    BY <2>1, <2>2 DEF Serving, Owing
  <2> QED
    BY <1>7, <2>3
<1> QED
  BY <1>6, <1>8 DEF Ended

LEMMA ShapeAfter ==
  ASSUME TypeInv, ProgramInv, NEW t \in Threads
  PROVE  /\ \/ Looping(t) \/ Enqueue(t) \/ Perform(t) \/ ReadsOn(t)
            \/ FirstRead(t) \/ Drops(t) \/ TimesOut(t) \/ Cancel(t)
            \/ Called(t) \/ Poll(t)
            => todo'[t] \notin StopShapes
         /\ \/ Looping(t) \/ Perform(t) \/ Drops(t) \/ TimesOut(t) \/ Cancel(t)
            \/ Called(t) \/ Poll(t)
            => todo'[t] \notin FirstShapes
<1>1. /\ \A s \in FirstShapes : Leaving(s)
      /\ \A s \in StopShapes : ~Leaving(s) /\ s # <<"run">> /\ s # <<"cleanup">>
  BY ShapeKinds DEF StopShapes
<1>2. /\ <<"run">> \notin FirstShapes /\ <<"cleanup">> \notin FirstShapes
      /\ <<"leave">> \notin FirstShapes /\ <<"enqueue", "leave">> \notin FirstShapes
      /\ <<"shutdown", "cancel", "leave">> \notin FirstShapes
  BY DEF FirstShapes
<1>3. Looping(t) => todo'[t] \notin StopShapes /\ todo'[t] \notin FirstShapes
  BY <1>1, LoopingServes
<1>4. Enqueue(t) => todo'[t] \notin StopShapes
  BY <1>1, EnqueueStep, ShapeKinds DEF Goes
<1>5. Perform(t) => todo'[t] \in {<<"run">>, <<"leave">>}
  BY PerformStep DEF TypeInv
<1>6. ReadsOn(t) \/ FirstRead(t) => Leaving(todo'[t])
  BY ReadsOnStep, FirstReadStep, LeavingAt DEF StartEffect
<1>7. Drops(t) => todo'[t] \in {<<"leave">>, <<"enqueue", "leave">>}
  BY DropsStep
<1>8. TimesOut(t) => todo'[t] \in {<<"leave">>, <<"shutdown", "cancel", "leave">>}
  BY TimesOutStep
<1>9. Cancel(t) => todo'[t] \in {<<"leave">>, <<"enqueue", "leave">>}
  BY CancelStep
<1>10. Called(t) => todo'[t] = <<"leave">>
  BY CalledStep
<1>11. Poll(t) => todo'[t] = <<"cleanup">>
  BY PollStep
<1>12. \A s \in {<<"run">>, <<"leave">>, <<"enqueue", "leave">>, <<"cleanup">>,
                 <<"shutdown", "cancel", "leave">>} :
         s \notin StopShapes /\ s \notin FirstShapes
  BY <1>1, <1>2, LeavingAt
<1> QED
  BY <1>1, <1>3, <1>4, <1>5, <1>6, <1>7, <1>8, <1>9, <1>10, <1>11, <1>12

(* In the hands of a thread: the connection is open, or its timer is out.  *)
LEMMA HeldIsUnderWay ==
  ASSUME PlaceInv, NEW t \in Threads, NEW c \in Sockets
  PROVE  /\ Hand[t] \in ReadsOf(c) => c \in Open
         /\ Hand[t] \in WaitsOf(c) => c \in Timed
<1>1. \A S : Hand[t] \in S => Has(S)
  BY DEF Has, SomeOf, Spot, Who
<1> QED
  BY <1>1 DEF PlaceInv, ReadInv, Has, Open, Timed

LEMMA EndedStays ==
  ASSUME PlaceInv, Ended, [Next]_vars
  PROVE  Ended'
<1>0. /\ TypeInv /\ ProgramInv /\ ReadInv /\ WaitInv
      /\ Open = {} /\ Timed = {} /\ \A t \in Threads : todo[t] \notin FirstShapes
  BY DEF PlaceInv, Ended
<1>1. CASE World \/ UNCHANGED vars
  <2>1. Open' = Open /\ Timed' = Timed /\ todo' = todo
    BY <1>0, <1>1, OpenStep, TimedStep, WorldStep DEF thread
  <2> QED
    BY <1>0, <2>1 DEF Ended
<1>2. ASSUME NEW t \in Threads, Others(t), Open' = Open \/ Drops(t),
             Timed' = Timed \/ TimesOut(t), todo'[t] \notin FirstShapes
      PROVE  Ended'
  <2>1. Open' = {}
    BY <1>0, <1>2, OpenStep
  <2>2. Timed' = {}
    BY <1>0, <1>2, TimedStep
  <2>3. \A u \in Threads \ {t} : todo'[u] \notin FirstShapes
    BY <1>0, <1>2, OthersKeep
  <2> QED
    BY <1>2, <2>1, <2>2, <2>3 DEF Ended
<1>3. ASSUME NEW t \in Threads, Quiet(t) PROVE Ended'
  <2>1. Open' = Open /\ Timed' = Timed /\ Others(t)
    BY <1>0, <1>3, OpenStep, TimedStep, QuietSockets
  <2>2. todo'[t] \notin FirstShapes
    <3>1. <<"signal", "first", "leave">> \in FirstShapes
          /\ \A s \in {<<"stop">>, <<"loop">>, <<"run">>, <<"peek">>, <<"leave">>,
                       <<"woken">>, <<"cancel", "leave">>, <<"stop", "loop">>, << >>,
                       <<"cleanup">>, <<"wait">>} : s \notin FirstShapes
      BY DEF FirstShapes
    <3> QED
      BY <1>0, <1>3, <3>1, QuietStep DEF Goes
  <2> QED
    BY <1>2, <2>1, <2>2
<1>4. ASSUME NEW t \in Threads, Looping(t) PROVE Ended'
  <2>1. Open' = Open /\ Timed' = Timed /\ Others(t) /\ todo'[t] \notin FirstShapes
    BY <1>0, <1>4, OpenStep, TimedStep, LoopingStep, ShapeAfter
  <2> QED
    BY <1>2, <2>1
<1>5. ASSUME NEW t \in Threads, Enqueue(t) PROVE Ended'
  <2>1. todo[t] \in EnqShapes /\ Hand[t] = op[t]
    BY <1>0, <1>5, EnqueueStep, ShapeKinds DEF Goes, EnqShapes, Hand
  <2>2. PICK c \in Sockets : op[t] \in ReadsOf(c) \cup WaitsOf(c)
    BY <1>0, <2>1 DEF ProgramInv, ProgramAt
  <2> QED
    BY <1>0, <2>1, <2>2, HeldIsUnderWay
<1>6. ASSUME NEW t \in Threads, Perform(t) \/ Cancel(t) \/ Called(t) \/ Poll(t)
      PROVE  Ended'
  <2>1. Open' = Open /\ Timed' = Timed
    BY <1>0, <1>6, OpenStep, TimedStep
  <2>2. Others(t) /\ todo'[t] \notin FirstShapes
    BY <1>0, <1>6, PerformStep, CancelStep, CalledStep, PollStep, ShapeAfter
  <2> QED
    BY <1>2, <2>1, <2>2
<1>7. ASSUME NEW t \in Threads, ReadsOn(t) \/ Drops(t) PROVE Ended'
  <2>1. PICK c \in Sockets, ok \in BOOLEAN : Hand[t] = Read(c, ok)
    <3>1. TRUE \in BOOLEAN
      OBVIOUS
    <3>2. ReadsOn(t) => \E c \in Sockets : Hand[t] = Read(c, TRUE)
      BY <1>0, ReadsOnStep
    <3>3. Drops(t) => \E c \in Sockets, ok \in BOOLEAN : Hand[t] = Read(c, ok)
      BY <1>0, DropsStep
    <3> QED
      BY <1>7, <3>1, <3>2, <3>3
  <2>2. Read(c, ok) \in ReadsOf(c)
    BY ReadsApart
  <2> QED
    BY <1>0, <2>1, <2>2, HeldIsUnderWay
<1>8. ASSUME NEW t \in Threads, FirstRead(t) PROVE Ended'
  <2>1. todo[t] = <<"first", "leave">>
    BY <1>0, <1>8, FirstReadStep
  <2> QED
    BY <1>0, <2>1 DEF FirstShapes
<1>9. ASSUME NEW t \in Threads, TimesOut(t) PROVE Ended'
  <2>1. Open' = Open /\ Others(t) /\ todo'[t] \notin FirstShapes
    BY <1>0, <1>9, OpenStep, TimesOutStep, ShapeAfter
  <2> QED
    BY <1>2, <1>9, <2>1
<1> QED
  BY <1>1, <1>3, <1>4, <1>5, <1>6, <1>7, <1>8, <1>9, Cases

LEMMA EndPreserved ==
  ASSUME PlaceInv, WorkInv, EndInv, [Next]_vars
  PROVE  EndInv'
<1>0. /\ TypeInv /\ ProgramInv /\ TypeInv'
      /\ stopped /\ ~asked => Ended
      /\ \A t \in Threads : todo[t] \in StopShapes => Ended
  BY TypePreserved DEF PlaceInv, EndInv
<1>1. Ended => Ended'
  BY EndedStays
<1>2. work' = 0 => Ended'
  <2>1. PlaceInv' /\ WorkInv'
    BY PlacePreserved, WorkPreserved
  <2>2. (PlaceInv /\ WorkInv /\ work = 0 => Ended)'
    BY NoWorkEnds, PTL
  <2> QED
    BY <2>1, <2>2
<1>3. ASSUME stopped' = stopped, asked' = asked,
             \A t \in Threads : todo'[t] \in StopShapes => todo[t] \in StopShapes
      PROVE  EndInv'
  BY <1>0, <1>1, <1>3 DEF EndInv
<1>4. CASE World \/ UNCHANGED vars
  <2>1. stopped' = stopped /\ asked' = asked /\ todo' = todo
    BY <1>0, <1>4, WorldStep DEF thread
  <2> QED
    BY <1>3, <2>1
<1>5. ASSUME NEW t \in Threads,
             \/ Looping(t) \/ Enqueue(t) \/ Perform(t) \/ ReadsOn(t)
             \/ FirstRead(t) \/ Drops(t) \/ TimesOut(t) \/ Cancel(t)
             \/ Called(t) \/ Poll(t)
      PROVE  EndInv'
  <2>1. todo'[t] \notin StopShapes
    BY <1>0, <1>5, ShapeAfter
  <2>2. stopped' = stopped /\ asked' = asked
    BY <1>0, <1>5, LoopingStep, EnqueueStep, PerformStep, ReadsOnStep, FirstReadStep,
       DropsStep, TimesOutStep, CancelStep, CalledStep, PollStep DEF sched
  <2>3. Others(t)
    BY <1>0, <1>5, LoopingStep, EnqueueStep, PerformStep, ReadsOnStep, FirstReadStep,
       DropsStep, TimesOutStep, CancelStep, CalledStep, PollStep
  <2>4. \A u \in Threads \ {t} : todo'[u] \in StopShapes => todo[u] \in StopShapes
    BY <1>0, <2>3, OthersKeep
  <2> QED
    BY <1>3, <2>1, <2>2, <2>4
<1>6. ASSUME NEW t \in Threads, Quiet(t) PROVE EndInv'
  <2>1. Others(t) /\ \A u \in Threads \ {t} : todo'[u] \in StopShapes => todo[u] \in StopShapes
    BY <1>0, <1>6, QuietSockets, OthersKeep
  <2>2. todo'[t] \in StopShapes => Ended'
    <3>1. /\ <<"stop">> \in StopShapes /\ <<"stop", "loop">> \in StopShapes
          /\ \A s \in {<<"loop">>, <<"run">>, <<"peek">>, <<"leave">>, <<"woken">>,
                       <<"cancel", "leave">>, <<"first", "leave">>, << >>,
                       <<"cleanup">>, <<"wait">>} : s \notin StopShapes
      BY DEF StopShapes
    <3>2. \/ todo'[t] \notin StopShapes
          \/ todo'[t] = todo[t]
          \/ Begin(t) /\ todo'[t] = <<"stop">>
          \/ Leave(t) /\ todo'[t] = <<"stop", "loop">>
      BY <1>0, <1>6, <3>1, QuietStep DEF Goes
    <3>3. Begin(t) /\ todo'[t] = <<"stop">> => work' = 0
      BY <1>0, <1>6, QuietSockets
    <3>4. Leave(t) /\ todo'[t] = <<"stop", "loop">> => work' = 0
      <4> SUFFICES ASSUME Leave(t), todo'[t] = <<"stop", "loop">> PROVE work' = 0
        OBVIOUS
      <4>1. todo' = [todo EXCEPT ![t] = IF work' = 0 /\ privWork[t] = 0
                                        THEN <<"stop", "loop">> ELSE <<"loop">>]
        BY DEF Leave, GoTo
      <4> QED
        BY <1>0, <4>1 DEF TypeInv
    <3> QED
      BY <1>0, <1>1, <1>2, <3>2, <3>3, <3>4
  <2>3. stopped' /\ ~asked' => Ended'
    <3>1. \/ stopped' = stopped /\ asked' = asked
          \/ Stop(t)
          \/ asked' = TRUE
      BY <1>0, <1>6, QuietSockets
    <3>2. Stop(t) => todo[t] \in StopShapes
      <4>1. todo[t] \in Shapes
        BY <1>0 DEF TypeInv
      <4> QED
        BY <4>1, ShapeAt DEF Stop, At, StopShapes
    <3> QED
      BY <1>0, <1>1, <3>1, <3>2
  <2> QED
    BY <1>0, <1>1, <2>1, <2>2, <2>3 DEF EndInv
<1> QED
  BY <1>4, <1>5, <1>6, Cases

(* The work that the pool counts as outstanding is what is under way: the  *)
(* reads of the open connections, the timers, the posted callback and the  *)
(* handlers being called, but for what their threads have still to add;    *)
(* and when it comes to nothing, all of it has ended for good.             *)
THEOREM WorkInvariant == AnySpec => [](PlaceInv /\ WorkInv /\ EndInv)
<1>1. SomeStart => PlaceInv /\ WorkInv /\ EndInv
  BY StartPlace, StartWork
<1>2. PlaceInv /\ WorkInv /\ EndInv /\ [Next]_vars => (PlaceInv /\ WorkInv /\ EndInv)'
  BY PlacePreserved, WorkPreserved, EndPreserved
<1> QED
  BY <1>1, <1>2, PTL DEF AnySpec

LEMMA EndInvImplies == PlaceInv /\ EndInv => NoEarlyStop
<1> SUFFICES ASSUME PlaceInv, Ended, NEW c \in Sockets
             PROVE  alive[c] # "open" /\ timer[c] = "out" /\ Places("wait", c) = 0
  BY DEF NoEarlyStop, EndInv
<1>1. alive[c] # "open"
  BY DEF Ended, Open
<1>2. timer[c] = "out" /\ ~Has(WaitsOf(c))
  BY DEF Ended, Timed, Has
<1> QED
  BY <1>1, <1>2, PlacesByKind

(* Unless SIGINT asked for it, the pool does not stop under an operation:  *)
(* neither a descriptor event that completes nothing, nor work a thread    *)
(* has started and not yet added to the count, ends the server.            *)
THEOREM StopsOnlyAtTheEnd == AnySpec => []NoEarlyStop
BY WorkInvariant, EndInvImplies, PTL

----------------------------------------------------------------------------
(* Who wakes whom                                                          *)

(* A thread that sleeps until it is woken, whatever happens to sockets.    *)
Sleeping(t) == todo[t] = <<"wait">> \/ (todo[t] = <<"poll">> /\ ~intr)
(* A thread that will look at the queue, or wake one that does: it calls   *)
(* no handler first.                                                       *)
HelpShapes == {<<"begin">>, <<"loop">>, <<"cleanup">>, <<"woken">>, <<"peek">>,
               <<"signal", "peek">>} \cup LeaveShapes \cup StopShapes
Helping(t) ==
  \/ todo[t] \in HelpShapes
  \/ todo[t] = <<"poll">> /\ intr
  \/ /\ todo[t] \in {<<"signal", "run">>, <<"signal", "first", "leave">>}
     /\ \E u \in Threads : todo[u] = <<"wait">>
Helped == (\E t \in Threads : Sleeping(t)) => \E t \in Threads : Helping(t)

(* A poll that is to be interrupted has been; and as long as the queue     *)
(* holds anything, the event is set and nobody sleeps without a helper.    *)
PollInv == \A t \in Threads : todo[t] = <<"poll">> /\ interrupted => intr
WakeInv == /\ PollInv
           /\ ~stopped /\ queue # << >> => signalled /\ Helped

(* Steps that leave the scheduler alone. *)
LEMMA WakeFrame ==
  ASSUME WakeInv, NEW t \in Threads, Others(t), UNCHANGED sched,
         todo'[t] \notin {<<"wait">>, <<"poll">>},
         Helping(t) \/ todo[t] = <<"wait">> =>
           \E u \in Threads : todo'[u] \in HelpShapes
  PROVE  WakeInv'
<1>1. \A u \in Threads : \/ u = t \/ todo'[u] = todo[u] \/ todo'[u] = <<"woken">>
  BY DEF Others
<1>2. <<"woken">> \in HelpShapes
  BY DEF HelpShapes
<1>3. PollInv'
  <2>1. interrupted' = interrupted /\ intr' = intr
    BY DEF sched
  <2> SUFFICES ASSUME NEW u \in Threads, todo'[u] = <<"poll">>, interrupted'
               PROVE  intr'
    BY DEF PollInv
  <2>2. todo[u] = <<"poll">>
    BY <1>1
  <2> QED
    BY <2>1, <2>2 DEF WakeInv, PollInv
<1>4. ASSUME ~stopped, queue # << >>, NEW u \in Threads, Sleeping(u)'
      PROVE  \E v \in Threads : Helping(v)'
  <2>1. CASE \E v \in Threads : todo'[v] \in HelpShapes
    BY <2>1 DEF Helping
  <2>2. CASE ~\E v \in Threads : todo'[v] \in HelpShapes
    <3>1. \A v \in Threads : v = t \/ todo'[v] = todo[v]
      BY <1>1, <1>2, <2>2
    <3>2. Sleeping(u)
      BY <1>4, <3>1 DEF Sleeping, sched
    <3>3. PICK v \in Threads : Helping(v)
      BY <1>4, <3>2 DEF WakeInv, Helped
    <3>4. v # t /\ todo'[v] = todo[v] /\ todo[t] # <<"wait">>
      BY <2>2, <3>1, <3>3
    <3> QED
      BY <3>1, <3>3, <3>4 DEF Helping, sched
  <2> QED
    BY <2>1, <2>2
<1> QED
  BY <1>3, <1>4 DEF WakeInv, Helped, sched

(* wake_one_thread_and_unlock leaves a helper. *)
LEMMA WakeOneHelps ==
  ASSUME TypeInv, NEW t \in Threads, NEW i,
         NEW rest \in {<<"run">>, <<"leave">>, <<"first", "leave">>},
         WakeOne(t, i, rest),
         \A u \in Threads \ {t} : todo[u] = <<"poll">> /\ i => intr
  PROVE  signalled' /\ PollInv' /\ Helped'
<1>1. \A u \in Threads : At(u, "wait") \/ At(u, "woken") <=>
                           todo[u] = <<"wait">> \/ todo[u] = <<"woken">>
  BY ShapeAt DEF TypeInv, At
<1>2. rest # <<"poll">> /\ rest # <<"wait">>
  OBVIOUS
<1>3. CASE /\ Waiters \ {t} # {} /\ interrupted' = i /\ intr' = intr
           /\ GoTo(t, <<"signal">> \o rest)
  <2>1. todo'[t] \in {<<"signal", "run">>, <<"signal", "leave">>,
                      <<"signal", "first", "leave">>}
    BY <1>3, ShapeTails DEF GoTo, TypeInv
  <2>2. \A u \in Threads \ {t} : todo'[u] = todo[u]
    BY <1>3 DEF GoTo, TypeInv
  <2>3. PICK w \in Threads \ {t} : todo[w] = <<"wait">> \/ todo[w] = <<"woken">>
    BY <1>1, <1>3 DEF Waiters
  <2>4. todo'[w] = todo[w] /\ <<"woken">> \in HelpShapes
        /\ <<"signal", "leave">> \in HelpShapes
    BY <2>2 DEF HelpShapes, LeaveShapes
  <2>5. todo[w] = <<"woken">> => Helping(w)'
    BY <2>4 DEF Helping
  <2>6. todo[w] = <<"wait">> => Helping(t)'
    BY <2>1, <2>4 DEF Helping
  <2>7. PollInv'
    <3>1. todo'[t] # <<"poll">>
      BY <2>1
    <3> QED
      BY <1>3, <2>2, <3>1 DEF PollInv
  <2> QED
    BY <2>3, <2>5, <2>6, <2>7 DEF WakeOne, Helped
<1>4. CASE /\ Waiters \ {t} = {} /\ interrupted' = TRUE /\ intr' = (intr \/ ~i)
           /\ GoTo(t, rest)
  <2>1. todo'[t] = rest /\ \A u \in Threads \ {t} : todo'[u] = todo[u]
    BY <1>4 DEF GoTo, TypeInv
  <2>2. \A u \in Threads : todo'[u] = <<"poll">> => intr'
    BY <1>2, <1>4, <2>1
  <2>3. \A u \in Threads : todo'[u] # <<"wait">>
    BY <1>1, <1>2, <1>4, <2>1 DEF Waiters
  <2> QED
    BY <2>2, <2>3 DEF WakeOne, PollInv, Helped, Sleeping
<1> QED
  BY <1>3, <1>4 DEF WakeOne

(* The loop of do_run_one. *)
LEMMA LoopingWakes ==
  ASSUME PlaceInv, TaskInv', WakeInv, NEW t \in Threads, Looping(t)
  PROVE  WakeInv'
<1>0. TypeInv /\ ProgramInv /\ TaskInv
  BY DEF PlaceInv
<1>1. PICK q, i : /\ Finds(t, q, i)
                  /\ \/ i = interrupted
                     \/ i = TRUE /\ todo[t] = <<"cleanup">>
  <2>1. TaskReturns(t) => todo[t] = <<"cleanup">>
    BY <1>0, ShapeAt DEF TaskReturns, At, TypeInv
  <2> QED
    BY <2>1 DEF Looping, Loop, TaskReturns, Wakes
<1>2. Others(t) /\ stopped' = stopped /\ todo[t] \notin {<<"wait">>, <<"poll">>}
  BY <1>0, LoopingStep
<1>3. \A u \in Threads \ {t} : todo[u] = <<"poll">> /\ i => intr
  <2>1. CASE i = interrupted
    BY <2>1 DEF WakeInv, PollInv
  <2>2. CASE todo[t] = <<"cleanup">>
    BY <1>0, <2>2 DEF TaskInv, HasTask, Polling, TaskShapes
  <2> QED
    BY <1>1, <2>1, <2>2
<1>4. ASSUME NEW s, GoTo(t, s), s # <<"poll">>, interrupted' = i, intr' = intr
      PROVE  PollInv'
  <2>1. todo'[t] = s /\ \A u \in Threads \ {t} : todo'[u] = todo[u]
    BY <1>0, <1>4 DEF GoTo, TypeInv
  <2> QED
    BY <1>3, <1>4, <2>1 DEF PollInv
<1>5. CASE stopped /\ GoTo(t, << >>) /\ interrupted' = i /\ intr' = intr
  BY <1>2, <1>4, <1>5 DEF WakeInv
<1>6. CASE /\ GoTo(t, <<"wait">>) /\ interrupted' = i /\ intr' = intr
           /\ queue' = << >>
  BY <1>4, <1>6 DEF WakeInv
<1>7. CASE /\ queue' = Tail(q) /\ interrupted' = (Tail(q) # << >>)
           /\ IF Tail(q) = << >>
              THEN GoTo(t, <<"poll">>) /\ UNCHANGED signalled
              ELSE /\ GoTo(t, IF Waiters \ {t} # {} THEN <<"signal", "peek">>
                              ELSE <<"peek">>)
                   /\ signalled' = TRUE
  <2>1. /\ Tail(q) = << >> => todo'[t] = <<"poll">>
        /\ Tail(q) # << >> => todo'[t] \in {<<"signal", "peek">>, <<"peek">>}
    BY <1>0, <1>7 DEF GoTo, TypeInv
  <2>2. \A u \in Threads : todo'[u] = <<"poll">> => u = t
    BY <2>1 DEF TaskInv, HasTask, Polling, TaskShapes
  <2>3. PollInv'
    <3> SUFFICES ASSUME NEW u \in Threads, todo'[u] = <<"poll">>, interrupted'
                 PROVE  FALSE
      BY DEF PollInv
    <3>1. todo'[t] = <<"poll">> /\ Tail(q) # << >>
      BY <1>7, <2>2
    <3> QED
      BY <2>1, <3>1
  <2>4. queue' # << >> => signalled' /\ Helped'
    BY <1>7, <2>1 DEF Helped, Helping, HelpShapes
  <2> QED
    BY <2>3, <2>4 DEF WakeInv
<1>8. CASE /\ queue' = Tail(q)
           /\ IF Tail(q) = << >>
              THEN /\ GoTo(t, <<"run">>) /\ interrupted' = i
                   /\ UNCHANGED <<signalled, intr>>
              ELSE WakeOne(t, i, <<"run">>)
  <2>1. CASE Tail(q) = << >>
    BY <1>4, <1>8, <2>1 DEF WakeInv
  <2>2. CASE Tail(q) # << >>
    <3>1. WakeOne(t, i, <<"run">>)
      BY <1>8, <2>2
    <3>2. <<"run">> \in {<<"run">>, <<"leave">>, <<"first", "leave">>}
      OBVIOUS
    <3>3. signalled' /\ PollInv' /\ Helped'
      BY <1>0, <1>3, <3>1, <3>2, WakeOneHelps
    <3> QED
      BY <3>3 DEF WakeInv
  <2> QED
    BY <2>1, <2>2
<1> QED
  BY <1>1, <1>5, <1>6, <1>7, <1>8 DEF Finds

LEMMA WakePreserved ==
  ASSUME PlaceInv, WakeInv, [Next]_vars
  PROVE  WakeInv'
<1>0. TypeInv /\ ProgramInv /\ TaskInv /\ TaskInv'
  BY TaskPreserved DEF PlaceInv
<1>1. CASE World \/ UNCHANGED vars
  <2>1. todo' = todo /\ sched' = sched
    BY <1>1 DEF World, Connect, Send, Expires, vars, thread
  <2> QED
    BY <2>1 DEF WakeInv, PollInv, Helped, Helping, Sleeping, sched
<1>2. ASSUME NEW t \in Threads, StopAll, \A u \in Threads : todo'[u] = <<"poll">> =>
                                                             todo[u] = <<"poll">>
      PROVE  WakeInv'
  <2>1. PollInv'
    BY <1>2 DEF StopAll, WakeInv, PollInv
  <2> QED
    BY <1>2, <2>1 DEF StopAll, WakeInv
<1>3. ASSUME NEW t \in Threads, Quiet(t) PROVE WakeInv'
  <2>0. Others(t)
    BY <1>0, <1>3, QuietSockets
  <2>1. ASSUME todo'[t] \in HelpShapes, sched' = sched PROVE WakeInv'
    <3>1. todo'[t] \notin {<<"wait">>, <<"poll">>}
      BY <2>1 DEF HelpShapes, LeaveShapes, StopShapes
    <3> QED
      BY <2>0, <2>1, <3>1, WakeFrame
  <2>2. CASE Begin(t) \/ Spurious(t) \/ Leave(t)
    <3>1. todo'[t] \in HelpShapes
      BY <1>0, <2>2 DEF Begin, Spurious, Leave, GoTo, TypeInv, HelpShapes, StopShapes
    <3> QED
      BY <2>1, <2>2, <3>1 DEF Begin, Spurious, Leave
  <2>3. CASE Signal(t)
    <3>1. sched' = sched /\ todo[t] # <<"wait">>
      BY <2>3 DEF Signal, At
    <3>2. /\ todo[t] \in {<<"signal", "run">>, <<"signal", "peek">>,
                         <<"signal", "leave">>, <<"signal", "first", "leave">>}
          /\ todo'[t] = Tail(todo[t])
      <4>1. todo[t] \in {<<"signal", "run">>, <<"signal", "peek">>,
                        <<"signal", "leave">>, <<"signal", "first", "leave">>}
        BY <1>0, <2>3, ShapeAt DEF Signal, At, TypeInv
      <4>2. ~At(t, "wait")
        BY <4>1 DEF At
      <4> QED
        BY <1>0, <2>3, <4>1, <4>2 DEF Signal, Continue, GoTo, TypeInv
    <3>5. todo'[t] \notin {<<"wait">>, <<"poll">>}
      <4>1. todo'[t] \in {<<"run">>, <<"peek">>, <<"leave">>, <<"first", "leave">>}
        BY <3>2, ShapeTails
      <4> QED
        BY <4>1
    <3>3. CASE \E u \in Threads : todo'[u] \in HelpShapes
      BY <2>0, <3>1, <3>3, <3>5, WakeFrame
    <3>4. CASE ~\E u \in Threads : todo'[u] \in HelpShapes
      <4>1. \A u \in Threads : ~At(u, "wait")
        <5>1. <<"woken">> \in HelpShapes
          BY DEF HelpShapes
        <5>2. ASSUME NEW u \in Threads,
                     todo' = [todo EXCEPT ![t] = Tail(@), ![u] = <<"woken">>]
              PROVE  FALSE
          BY <1>0, <3>4, <5>1, <5>2 DEF TypeInv
        <5> QED
          BY <2>3, <5>2 DEF Signal
      <4>2. \A u \in Threads : todo[u] # <<"wait">>
        BY <4>1 DEF At
      <4>4. todo[t] \in {<<"signal", "run">>, <<"signal", "first", "leave">>}
        BY <3>2, <3>4, ShapeTails DEF HelpShapes, LeaveShapes
      <4>5. ~Helping(t)
        BY <4>2, <4>4 DEF Helping, HelpShapes, LeaveShapes, StopShapes
      <4> QED
        BY <2>0, <3>1, <3>5, <4>5, WakeFrame
    <3> QED
      BY <3>3, <3>4
  <2>4. CASE Shutdown(t)
    <3>1. /\ todo[t] = <<"shutdown", "cancel", "leave">>
          /\ todo'[t] = <<"cancel", "leave">>
      BY <1>0, <2>4, ShapeAt, ShapeTails
      DEF Shutdown, Continue, GoTo, At, TypeInv
    <3>2. ~Helping(t)
      BY <3>1 DEF Helping, HelpShapes, LeaveShapes, StopShapes
    <3> QED
      BY <2>0, <2>4, <3>1, <3>2, WakeFrame DEF Shutdown
  <2>5. CASE Stop(t) \/ Sigint(t)
    <3>1. StopAll
      BY <2>5 DEF Stop, Sigint
    <3>2. todo'[t] = <<"poll">> => todo[t] = <<"poll">>
      BY <1>0, <1>3, <2>5, QuietStep DEF Goes
    <3> QED
      BY <1>2, <2>0, <3>1, <3>2 DEF Others
  <2>6. CASE Wakes(t) /\ ~signalled
    <3>1. sched' = sched /\ todo'[t] = <<"wait">>
      BY <1>0, <2>6 DEF Wakes, GoTo, TypeInv
    <3>2. stopped \/ queue = << >>
      BY <2>6 DEF WakeInv
    <3>3. PollInv'
      BY <2>0, <3>1 DEF WakeInv, PollInv, Others, sched
    <3> QED
      BY <3>1, <3>2, <3>3 DEF WakeInv, sched
  <2> QED
    BY <1>3, <2>2, <2>3, <2>4, <2>5, <2>6 DEF Quiet
<1>4. ASSUME NEW t \in Threads, Enqueue(t) PROVE WakeInv'
  <2>1. PICK rest \in {<<"run">>, <<"leave">>, <<"first", "leave">>} :
          rest = Tail(todo[t])
    <3>1. Tail(todo[t]) \in {<<"leave">>, <<"first", "leave">>}
      BY <1>0, <1>4, EnqueueStep, ShapeTails DEF Goes
    <3> QED
      BY <3>1
  <2>2. PICK i : i = interrupted /\ WakeOne(t, i, rest)
    BY <1>4, <2>1 DEF Enqueue
  <2>3. \A u \in Threads \ {t} : todo[u] = <<"poll">> /\ i => intr
    BY <2>2 DEF WakeInv, PollInv
  <2> QED
    <3>1. signalled' /\ PollInv' /\ Helped'
      BY <1>0, <2>2, <2>3, WakeOneHelps
    <3> QED
      BY <3>1 DEF WakeInv
<1>5. ASSUME NEW t \in Threads, sched' = sched, Others(t),
             todo[t] \in {<<"run">>, <<"first", "leave">>, <<"cancel", "leave">>},
             todo'[t] \notin {<<"wait">>, <<"poll">>}
      PROVE  WakeInv'
  <2>1. ~Helping(t) /\ todo[t] # <<"wait">>
    BY <1>5 DEF Helping, HelpShapes, LeaveShapes, StopShapes
  <2> QED
    BY <1>5, <2>1, WakeFrame
<1>6. ASSUME NEW t \in Threads,
             Perform(t) \/ Drops(t) \/ TimesOut(t) \/ Called(t) \/ Cancel(t)
      PROVE  WakeInv'
  <2>1. sched' = sched
    BY <1>6 DEF Perform, Drops, TimesOut, Called, Cancel
  <2>2. /\ Others(t) /\ todo[t] \in {<<"run">>, <<"cancel", "leave">>}
        /\ todo'[t] \in {<<"run">>, <<"leave">>, <<"enqueue", "leave">>,
                        <<"shutdown", "cancel", "leave">>}
    <3>1. Perform(t) => /\ Others(t) /\ todo[t] = <<"run">>
                        /\ todo'[t] \in {<<"run">>, <<"leave">>}
      BY <1>0, PerformStep DEF TypeInv
    <3>2. Drops(t) => /\ Others(t) /\ todo[t] = <<"run">>
                      /\ todo'[t] \in {<<"leave">>, <<"enqueue", "leave">>}
      BY <1>0, DropsStep
    <3>3. TimesOut(t) =>
            /\ Others(t) /\ todo[t] = <<"run">>
            /\ todo'[t] \in {<<"leave">>, <<"shutdown", "cancel", "leave">>}
      BY <1>0, TimesOutStep
    <3>4. Called(t) => Others(t) /\ todo[t] = <<"run">> /\ todo'[t] = <<"leave">>
      BY <1>0, CalledStep
    <3>5. Cancel(t) => /\ Others(t) /\ todo[t] = <<"cancel", "leave">>
                       /\ todo'[t] \in {<<"leave">>, <<"enqueue", "leave">>}
      BY <1>0, CancelStep
    <3> QED
      BY <1>6, <3>1, <3>2, <3>3, <3>4, <3>5
  <2>3. todo'[t] \notin {<<"wait">>, <<"poll">>}
    BY <2>2
  <2> QED
    BY <1>5, <2>1, <2>2, <2>3
<1>7. ASSUME NEW t \in Threads, ReadsOn(t) \/ FirstRead(t) PROVE WakeInv'
  <2>1. sched' = sched
    BY <1>7 DEF ReadsOn, FirstRead
  <2>2. Others(t) /\ todo[t] \in {<<"run">>, <<"first", "leave">>}
    BY <1>0, <1>7, ReadsOnStep, FirstReadStep
  <2>3. Leaving(todo'[t])
    BY <1>0, <1>7, ReadsOnStep, FirstReadStep, LeavingAt DEF StartEffect
  <2>4. todo'[t] \notin {<<"wait">>, <<"poll">>}
    <3>1. ~Leaving(<<"wait">>) /\ ~Leaving(<<"poll">>)
      BY DEF Leaving, EnqShapes, CloseShapes, FirstShapes, LeaveShapes
    <3> QED
      BY <2>3, <3>1
  <2> QED
    BY <1>5, <2>1, <2>2, <2>4
<1>8. ASSUME NEW t \in Threads, Poll(t) PROVE WakeInv'
  <2>1. /\ todo[t] \in {<<"poll">>, <<"peek">>} /\ todo'[t] = <<"cleanup">>
        /\ Others(t) /\ UNCHANGED <<queue, stopped>>
    BY <1>0, <1>8, PollStep
  <2>2. signalled' = signalled
    BY <1>8 DEF Poll
  <2>3. \A u \in Threads \ {t} : todo[u] # <<"poll">>
    BY <1>0, <2>1 DEF TaskInv, HasTask, Polling, TaskShapes
  <2>4. PollInv'
    BY <2>1, <2>3 DEF PollInv, Others
  <2>5. Helped'
    BY <2>1 DEF Helped, Helping, HelpShapes
  <2> QED
    BY <2>1, <2>2, <2>4, <2>5 DEF WakeInv
<1>9. ASSUME NEW t \in Threads, Looping(t) PROVE WakeInv'
  BY <1>0, <1>9, LoopingWakes
<1> QED
  BY <1>1, <1>3, <1>4, <1>6, <1>7, <1>8, <1>9, Cases

LEMMA StartWake == SomeStart => WakeInv
<1> SUFFICES ASSUME NEW ts \in SUBSET Threads, NEW cs \in SUBSET Sockets,
                    NEW tm \in SUBSET cs, NEW m \in Nat, Starts(ts, cs, tm, m)
             PROVE  WakeInv
  BY DEF SomeStart
<1>1. /\ intr /\ signalled
      /\ \A t \in Threads : todo[t] \in {<<"begin">>, << >>}
  BY DEF Starts
<1>2. \A t \in Threads : ~Sleeping(t)
  BY <1>1 DEF Sleeping
<1> QED
  BY <1>1, <1>2 DEF WakeInv, PollInv, Helped

LEMMA WakeInvImplies == TypeInv /\ WakeInv => NoneSleepsOn
<1> SUFFICES ASSUME TypeInv, WakeInv, ~stopped, NEW i \in DOMAIN queue,
                    NEW u \in Threads, Asleep(u)
             PROVE  \E t \in Threads : ~Asleep(t) /\ ~Busy(t)
  BY DEF NoneSleepsOn
<1>1. queue # << >>
  OBVIOUS
<1>2. Sleeping(u)
  BY ShapeAt DEF Asleep, At, Events, Sleeping, TypeInv
<1>3. PICK t \in Threads : Helping(t)
  BY <1>1, <1>2 DEF WakeInv, Helped
<1>4. \/ todo[t] \in HelpShapes \cup {<<"signal", "run">>, <<"signal", "first", "leave">>}
      \/ todo[t] = <<"poll">> /\ Events
  BY <1>3 DEF Helping, Events
<1>5. CASE todo[t] \in HelpShapes \cup {<<"signal", "run">>,
                                       <<"signal", "first", "leave">>}
  <2>1. /\ todo[t] # << >>
        /\ Head(todo[t]) \in {"begin", "loop", "cleanup", "woken", "peek", "signal",
                              "leave", "stop"}
    BY <1>5 DEF HelpShapes, LeaveShapes, StopShapes
  <2> QED
    BY <2>1 DEF Asleep, Busy, At
<1>6. CASE todo[t] = <<"poll">> /\ Events
  <2>1. todo[t] # << >> /\ Head(todo[t]) = "poll"
    BY <1>6
  <2> QED
    BY <1>6, <2>1 DEF Asleep, Busy, At
<1> QED
  BY <1>4, <1>5, <1>6

(* No wakeup is lost, for any number of threads: as long as the pool runs  *)
(* and its queue holds anything, the event is set, and if a thread sleeps  *)
(* another is on its way to the queue, or to wake one that is.             *)
THEOREM WakeInvariant == AnySpec => []WakeInv
<1>1. PlaceInv /\ WakeInv /\ [Next]_vars => WakeInv'
  BY WakePreserved
<1> QED
  BY <1>1, StartWake, PlaceInvariant, PTL DEF AnySpec

(* No thread sleeps on, in the condition variable or in epoll_wait, while  *)
(* a handler is queued and every other thread is busy with its own.        *)
THEOREM WakeupsSuffice == AnySpec => []NoneSleepsOn
<1>1. PlaceInv => TypeInv
  BY DEF PlaceInv
<1> QED
  BY <1>1, WakeInvImplies, PlaceInvariant, WakeInvariant, PTL

----------------------------------------------------------------------------
(* The pool its users rely on                                              *)

Runs(S) == \E t \in Threads : todo[t] \in RunShapes /\ Hand[t] \in S

(* StateOf, from what the invariant says of a socket's operations. *)
ReadState(c) == IF Runs(ReadsOf(c)) THEN "running"
                ELSE IF pending[c] THEN "waiting"
                ELSE IF alive[c] = "open" THEN "ready" ELSE "idle"
WaitState(c) == IF Runs(WaitsOf(c)) THEN "running"
                ELSE IF timer[c] # "out" THEN "waiting"
                ELSE IF c \in Timed THEN "ready" ELSE "idle"

LEMMA RunsHas ==
  ASSUME NEW S, Runs(S)
  PROVE  Has(S)
<1>1. PICK t \in Threads : Hand[t] \in S
  BY DEF Runs
<1> QED
  BY <1>1 DEF Has, SomeOf, Spot, Who

LEMMA StatesAre ==
  ASSUME PlaceInv, NEW c \in Sockets
  PROVE  /\ StateOf("read", c) = ReadState(c)
         /\ StateOf("wait", c) = WaitState(c)
         /\ Runs(ReadsOf(c)) => alive[c] = "open" /\ ~pending[c]
         /\ Runs(WaitsOf(c)) => c \in Timed /\ timer[c] = "out"
         /\ pending[c] => alive[c] = "open"
<1>0. TypeInv /\ ReadAt(c) /\ WaitAt(c)
  BY DEF PlaceInv, ReadInv, ReadAt, WaitInv, WaitAt, Single, Has
<1>1. ASSUME NEW kind, NEW S, \A o \in Operations : IsOp(o, kind, c) <=> o \in S
      PROVE  Running(kind, c) # {} <=> Runs(S)
  <2>1. \A t \in Threads : /\ op[t] \in Operations
                           /\ Contains(todo[t], "run") <=> todo[t] \in RunShapes
                           /\ todo[t] \in RunShapes => Hand[t] = op[t]
    BY <1>0, ShapeContains, ShapeKinds DEF TypeInv, Hand
  <2> QED
    BY <1>1, <2>1 DEF Running, Runs
<1>2. /\ Running("read", c) # {} <=> Runs(ReadsOf(c))
      /\ Running("wait", c) # {} <=> Runs(WaitsOf(c))
  <2>1. /\ \A o \in Operations : IsOp(o, "read", c) <=> o \in ReadsOf(c)
        /\ \A o \in Operations : IsOp(o, "wait", c) <=> o \in WaitsOf(c)
    BY OpsByKind
  <2> QED
    BY <1>1, <2>1
<1>3. /\ Places("read", c) > 0 <=> Has(ReadsOf(c))
      /\ Places("wait", c) > 0 <=> Has(WaitsOf(c))
  BY PlacesByKind
<1>4. /\ Runs(ReadsOf(c)) => Has(ReadsOf(c))
      /\ Runs(WaitsOf(c)) => Has(WaitsOf(c))
  BY RunsHas
<1>5. Has(WaitsOf(c)) => c \in Timed
  BY DEF Has, Timed
<1>6. c \in Timed <=> timer[c] # "out" \/ Has(WaitsOf(c))
  BY DEF Has, Timed
<1>7. StateOf("read", c) = ReadState(c)
  BY <1>0, <1>2, <1>3, <1>4 DEF StateOf, ReadState, ReadAt
<1>8. StateOf("wait", c) = WaitState(c)
  BY <1>0, <1>2, <1>3, <1>4, <1>6 DEF StateOf, WaitState, WaitAt
<1> QED
  BY <1>0, <1>4, <1>5, <1>7, <1>8 DEF ReadAt, WaitAt

(* The same, as a fact of any state. *)
StateFacts == \A c \in Sockets :
  /\ StateOf("read", c) = ReadState(c)
  /\ StateOf("wait", c) = WaitState(c)
  /\ Runs(ReadsOf(c)) => alive[c] = "open" /\ ~pending[c]
  /\ Runs(WaitsOf(c)) => c \in Timed /\ timer[c] = "out"
  /\ pending[c] => alive[c] = "open"
LEMMA StateFactsHold == PlaceInv => StateFacts
BY StatesAre DEF StateFacts

LEMMA RunsAfter ==
  ASSUME TypeInv, NEW t \in Threads, Others(t), NEW S
  PROVE  /\ (todo[t] \in RunShapes /\ Hand[t] \in S <=>
               todo'[t] \in RunShapes /\ Hand'[t] \in S) => (Runs(S)' <=> Runs(S))
         /\ todo[t] \in RunShapes /\ Hand[t] \in S => Runs(S)
         /\ todo'[t] \in RunShapes /\ Hand'[t] \in S => Runs(S)'
         /\ Single(S) /\ Hand[t] \in S
              /\ ~(todo'[t] \in RunShapes /\ Hand'[t] \in S) => ~Runs(S)'
<1>1. \A u \in Threads \ {t} : /\ todo'[u] \in RunShapes <=> todo[u] \in RunShapes
                               /\ Hand'[u] = Hand[u]
  BY OthersKeep, HandsAfter
<1>2. ASSUME Single(S), Hand[t] \in S, NEW u \in Threads \ {t} PROVE Hand[u] \notin S
  <2>1. Spot(queue, priv, Hand, t, 0, S) /\ t \in Who /\ u \in Who
    BY <1>2 DEF Spot, Who
  <2>2. Hand[u] \in S => Spot(queue, priv, Hand, u, 0, S)
    BY DEF Spot
  <2> QED
    BY <1>2, <2>1, <2>2 DEF Single, AtMostOne
<1> QED
  BY <1>1, <1>2 DEF Runs

(* What a step may do to the states of the operations. *)
May(a, b) == a = b \/ <<a, b>> \in Pool!Moves
Mays == \A c \in Sockets : /\ May(ReadState(c), ReadState(c)')
                           /\ May(WaitState(c), WaitState(c)')

(* A read or a wait of d is the one c stands for. *)
LEMMA StatesMove ==
  ASSUME PlaceInv, PlaceInv', NEW c \in Sockets
  PROVE  /\ /\ Runs(ReadsOf(c))' <=> Runs(ReadsOf(c))
            /\ pending'[c] = pending[c] /\ alive'[c] = alive[c]
            => ReadState(c)' = ReadState(c)
         /\ /\ Runs(WaitsOf(c))' <=> Runs(WaitsOf(c))
            /\ timer'[c] = "out" <=> timer[c] = "out"
            /\ c \in Timed' <=> c \in Timed
            => WaitState(c)' = WaitState(c)
         /\ Runs(ReadsOf(c)) /\ ~Runs(ReadsOf(c))' => May(ReadState(c), ReadState(c)')
         /\ Runs(WaitsOf(c)) /\ ~Runs(WaitsOf(c))' /\ timer' = timer
            => May(WaitState(c), WaitState(c)')
         /\ /\ pending[c] /\ ~pending'[c] /\ alive'[c] = alive[c]
            => May(ReadState(c), ReadState(c)')
         /\ /\ timer[c] # "out" /\ c \in Timed' /\ ~Runs(WaitsOf(c))'
            => May(WaitState(c), WaitState(c)')
         /\ alive[c] = "new" => May(ReadState(c), ReadState(c)') \/ Runs(ReadsOf(c))'
<1>1. /\ Runs(ReadsOf(c)) => alive[c] = "open" /\ ~pending[c]
      /\ Runs(WaitsOf(c)) => c \in Timed /\ timer[c] = "out"
      /\ pending[c] => alive[c] = "open"
  BY StatesAre
<1>2. StateFacts'
  BY StateFactsHold, PTL
<1>3. \A a \in {"waiting", "running"} : May("waiting", a)
  BY DEF May, Pool!Moves
<1>4. May("waiting", "ready") /\ \A a \in {"waiting", "ready", "idle"} :
                                   May("running", a) /\ May("idle", a)
  BY DEF May, Pool!Moves
<1> QED
  BY <1>1, <1>2, <1>3, <1>4 DEF ReadState, WaitState, StateFacts

(* The loop has the handler called of an operation that is ready, or of    *)
(* none.                                                                   *)
Same(o) == StateOf(o[1], o[2])' = StateOf(o[1], o[2])
Begins(o) == StateOf(o[1], o[2]) = "ready" /\ StateOf(o[1], o[2])' = "running"

LEMMA LoopingStates ==
  ASSUME PlaceInv, PlaceInv', NEW t \in Threads, Looping(t)
  PROVE  /\ \/ \A o \in PoolOps : Same(o)
            \/ \E o \in PoolOps : ~stopped /\ Begins(o)
                                 /\ \A p \in PoolOps \ {o} : Same(p)
         /\ stopped' = stopped
<1>0. TypeInv /\ ProgramInv /\ ReadInv /\ WaitInv
  BY DEF PlaceInv
<1>1. StateFacts /\ StateFacts'
  BY StateFactsHold, PTL
<1>2. /\ Others(t) /\ ~Holding(todo[t]) /\ stopped' = stopped
      /\ UNCHANGED <<pending, timer, alive>>
  BY <1>0, LoopingStep DEF socket
<1>3. Timed' = Timed
  BY <1>0, TimedStep
<1>4. todo[t] \notin RunShapes
  BY <1>2, ShapeKinds
<1>5. ASSUME NEW S, ~(todo'[t] \in RunShapes /\ Hand'[t] \in S)
      PROVE  Runs(S)' <=> Runs(S)
  BY <1>0, <1>2, <1>4, <1>5, RunsAfter
<1>6. \A c \in Sockets :
        /\ (Runs(ReadsOf(c))' <=> Runs(ReadsOf(c))) => ReadState(c)' = ReadState(c)
        /\ (Runs(WaitsOf(c))' <=> Runs(WaitsOf(c))) => WaitState(c)' = WaitState(c)
  BY <1>2, <1>3 DEF ReadState, WaitState
<1>7. \A c \in Sockets : /\ ReadState(c)' = ReadState(c) => Same(<<"read", c>>)
                         /\ WaitState(c)' = WaitState(c) => Same(<<"wait", c>>)
  BY <1>1 DEF StateFacts, Same
<1>8. \A o \in PoolOps : \E c \in Sockets : o = <<"read", c>> \/ o = <<"wait", c>>
  BY DEF PoolOps
<1>9. CASE todo'[t] \notin RunShapes
  <2>1. \A c \in Sockets : Same(<<"read", c>>) /\ Same(<<"wait", c>>)
    BY <1>5, <1>6, <1>7, <1>9
  <2> QED
    BY <1>2, <1>8, <2>1
<1>10. CASE todo'[t] \in RunShapes
  <2>1. PICK h \in Operations : Hand'[t] = h
    BY <1>0, <1>2, HandsAfter
  <2>2. ~stopped
    <3>1. PICK q, i : Finds(t, q, i)
      BY <1>0, LoopingStep
    <3>2. stopped => todo'[t] = << >>
      BY <1>0, <3>1 DEF Finds, GoTo, TypeInv
    <3> QED
      BY <1>10, <3>2 DEF RunShapes
  <2>3. ASSUME NEW S, h \in S, Single(S)'
        PROVE  Runs(S)' /\ ~Runs(S)
    <3>1. Runs(S)'
      BY <1>0, <1>2, <1>10, <2>1, <2>3, RunsAfter
    <3>2. ASSUME NEW u \in Threads, todo[u] \in RunShapes, Hand[u] \in S
          PROVE  FALSE
      <4>1. u # t /\ Hand'[u] \in S
        BY <1>0, <1>2, <1>4, <3>2, HandsAfter
      <4>2. /\ Spot(queue', priv', Hand', t, 0, S)
            /\ Spot(queue', priv', Hand', u, 0, S)
            /\ t \in Who /\ u \in Who
        BY <2>1, <2>3, <4>1 DEF Spot, Who
      <4>3. AtMostOne(queue', priv', Hand', S)
        BY <2>3 DEF Single
      <4> QED
        BY <4>1, <4>2, <4>3 DEF AtMostOne
    <3> QED
      BY <3>1, <3>2 DEF Runs
  <2>4. \A c \in Sockets : /\ h \notin ReadsOf(c) => Same(<<"read", c>>)
                           /\ h \notin WaitsOf(c) => Same(<<"wait", c>>)
    BY <1>5, <1>6, <1>7, <2>1
  <2>5. CASE \E c \in Sockets, ok \in BOOLEAN : h = Read(c, ok)
    <3>1. PICK c \in Sockets, ok \in BOOLEAN : h = Read(c, ok)
      BY <2>5
    <3>2. /\ h \in ReadsOf(c) /\ \A d \in Sockets \ {c} : h \notin ReadsOf(d)
          /\ \A d \in Sockets : h \notin WaitsOf(d)
      BY <3>1, ReadsApart, WaitsApart
    <3>3. Single(ReadsOf(c))'
      BY DEF PlaceInv, ReadInv, Single, ReadsOf, Read
    <3>4. Runs(ReadsOf(c))' /\ ~Runs(ReadsOf(c))
      BY <2>3, <3>2, <3>3
    <3>5. Begins(<<"read", c>>)
      BY <1>1, <1>2, <3>4 DEF StateFacts, ReadState, Begins
    <3>6. \A p \in PoolOps \ {<<"read", c>>} : Same(p)
      BY <1>8, <2>4, <3>2
    <3>7. <<"read", c>> \in PoolOps
      BY DEF PoolOps
    <3> QED
      BY <1>2, <2>2, <3>5, <3>6, <3>7
  <2>6. CASE \E c \in Sockets, ok \in BOOLEAN : h = Wait(c, ok)
    <3>1. PICK c \in Sockets, ok \in BOOLEAN : h = Wait(c, ok)
      BY <2>6
    <3>2. /\ h \in WaitsOf(c) /\ \A d \in Sockets \ {c} : h \notin WaitsOf(d)
          /\ \A d \in Sockets : h \notin ReadsOf(d)
      <4>1. \A d \in Sockets : Wait(c, ok) \in WaitsOf(d) <=> d = c
        BY DEF WaitsOf, Wait
      <4>2. \A d \in Sockets : Wait(c, ok) \notin ReadsOf(d)
        BY DEF ReadsOf, Read, Wait
      <4> QED
        BY <3>1, <4>1, <4>2
    <3>3. Single(WaitsOf(c))'
      BY DEF PlaceInv, WaitInv, Single, WaitsOf, Wait
    <3>4. Runs(WaitsOf(c))' /\ ~Runs(WaitsOf(c))
      BY <2>3, <3>2, <3>3
    <3>5. Begins(<<"wait", c>>)
      BY <1>1, <1>2, <1>3, <3>4 DEF StateFacts, WaitState, Begins
    <3>6. \A p \in PoolOps \ {<<"wait", c>>} : Same(p)
      BY <1>8, <2>4, <3>2
    <3>7. <<"wait", c>> \in PoolOps
      BY DEF PoolOps
    <3> QED
      BY <1>2, <2>2, <3>5, <3>6, <3>7
  <2>7. CASE h \in {Task, Callback} \/ \E c \in Sockets : h = Descriptor(c)
    <3>1. \A d \in Sockets : h \notin ReadsOf(d) /\ h \notin WaitsOf(d)
      <4>1. \A d \in Sockets : /\ Task \notin ReadsOf(d) /\ Task \notin WaitsOf(d)
                               /\ Callback \notin ReadsOf(d)
                               /\ Callback \notin WaitsOf(d)
        BY ReadsApart, WaitsApart
      <4>2. \A c, d \in Sockets : /\ Descriptor(c) \notin ReadsOf(d)
                                  /\ Descriptor(c) \notin WaitsOf(d)
        BY DEF ReadsOf, WaitsOf, Read, Wait, Descriptor
      <4> QED
        BY <2>7, <4>1, <4>2
    <3> QED
      BY <1>2, <1>8, <2>4, <3>1
  <2> QED
    BY <2>5, <2>6, <2>7 DEF Operations
<1> QED
  BY <1>9, <1>10

(* Steps that begin no handler of the queue. *)
LEMMA Unmoved ==
  ASSUME PlaceInv, PlaceInv',
         \A c \in Sockets : /\ Runs(ReadsOf(c))' <=> Runs(ReadsOf(c))
                            /\ Runs(WaitsOf(c))' <=> Runs(WaitsOf(c))
                            /\ timer'[c] = "out" <=> timer[c] = "out",
         UNCHANGED <<pending, alive>>, Timed' = Timed
  PROVE  Mays
BY StatesMove DEF Mays, May

LEMMA CalmMays ==
  ASSUME PlaceInv, PlaceInv',
         \/ World \/ UNCHANGED vars
         \/ \E t \in Threads : Quiet(t) \/ Enqueue(t) \/ Called(t)
  PROVE  Mays
<1>0. TypeInv /\ ProgramInv /\ WaitInv
  BY DEF PlaceInv
<1>1. CASE World \/ UNCHANGED vars
  <2>1. UNCHANGED <<todo, pending, alive>> /\ Hand' = Hand /\ Timed' = Timed
    BY <1>0, <1>1, WorldStep, TimedStep DEF thread
  <2>2. \A S : Runs(S)' <=> Runs(S)
    BY <2>1 DEF Runs
  <2>3. \A c \in Sockets : timer'[c] = "out" <=> timer[c] = "out"
    BY <1>0, <1>1, WorldStep
  <2> QED
    BY <2>1, <2>2, <2>3, Unmoved
<1>2. ASSUME NEW t \in Threads, UNCHANGED <<pending, alive, timer>>, Timed' = Timed,
             Others(t), todo[t] \in RunShapes /\ Hand[t] # Callback <=>
                          todo'[t] \in RunShapes /\ Hand'[t] # Callback,
             todo[t] \in RunShapes /\ Hand[t] # Callback => Hand'[t] = Hand[t]
      PROVE  Mays
  <2>1. ASSUME NEW S, Callback \notin S PROVE Runs(S)' <=> Runs(S)
    BY <1>0, <1>2, <2>1, RunsAfter
  <2>2. \A c \in Sockets : Callback \notin ReadsOf(c) /\ Callback \notin WaitsOf(c)
    BY ReadsApart, WaitsApart
  <2>3. \A c \in Sockets : /\ Runs(ReadsOf(c))' <=> Runs(ReadsOf(c))
                           /\ Runs(WaitsOf(c))' <=> Runs(WaitsOf(c))
    BY <2>1, <2>2
  <2> QED
    BY <1>2, <2>3, Unmoved
<1>3. ASSUME NEW t \in Threads, Quiet(t) PROVE Mays
  <2>1. /\ UNCHANGED <<pending, alive, timer>> /\ Others(t) /\ Hand' = Hand
        /\ Timed' = Timed
    BY <1>0, <1>3, QuietSockets, QuietKeeps, TimedStep
  <2>2. todo'[t] \in RunShapes <=> todo[t] \in RunShapes
    BY <1>0, <1>3, QuietStep DEF Goes, RunShapes
  <2> QED
    BY <1>2, <2>1, <2>2
<1>4. ASSUME NEW t \in Threads, Enqueue(t) PROVE Mays
  <2>1. UNCHANGED <<pending, alive, timer>> /\ Others(t) /\ Timed' = Timed
    BY <1>0, <1>4, EnqueueStep, TimedStep DEF socket
  <2>2. todo[t] \notin RunShapes /\ todo'[t] \notin RunShapes
    BY <1>0, <1>4, EnqueueStep, ShapeKinds DEF Goes, RunShapes
  <2> QED
    BY <1>2, <2>1, <2>2
<1>5. ASSUME NEW t \in Threads, Called(t) PROVE Mays
  <2>1. UNCHANGED <<pending, alive, timer>> /\ Others(t) /\ Timed' = Timed
    BY <1>0, <1>5, CalledStep, TimedStep DEF socket
  <2>2. Hand[t] = Callback /\ todo'[t] \notin RunShapes
    BY <1>0, <1>5, CalledStep DEF RunShapes
  <2> QED
    BY <1>2, <2>1, <2>2
<1> QED
  BY <1>1, <1>3, <1>4, <1>5

(* Steps that call, or complete, what is in the hands of a thread: what    *)
(* only ends a handler of t moves no operation but the one t ran, unless   *)
(* it completes one that waited, or starts one that was idle.              *)
LEMMA EndingMays ==
  ASSUME PlaceInv, PlaceInv', NEW t \in Threads, Others(t),
         todo'[t] \notin RunShapes,
         \A c \in Sockets :
           /\ alive[c] = "open" /\ ~(todo[t] \in RunShapes /\ Hand[t] \in ReadsOf(c))
              => alive'[c] = "open" /\ (pending'[c] => pending[c])
           /\ c \in Timed /\ ~(todo[t] \in RunShapes /\ Hand[t] \in WaitsOf(c))
              => c \in Timed' /\ (timer'[c] # "out" => timer[c] # "out")
  PROVE  Mays
<1>1. TypeInv /\ StateFacts /\ StateFacts'
  BY StateFactsHold, PTL DEF PlaceInv
<1>2. ASSUME NEW S, ~(todo[t] \in RunShapes /\ Hand[t] \in S)
      PROVE  Runs(S)' <=> Runs(S)
  BY <1>1, <1>2, RunsAfter
<1>3. ASSUME NEW S, todo[t] \in RunShapes /\ Hand[t] \in S, Single(S)
      PROVE  Runs(S) /\ ~Runs(S)'
  BY <1>1, <1>3, RunsAfter
<1>4. /\ \A a \in {"waiting", "ready", "idle"} : May("idle", a) /\ May("running", a)
      /\ May("waiting", "waiting") /\ May("waiting", "ready")
      /\ May("ready", "ready") /\ May("running", "running")
  BY DEF May, Pool!Moves
<1>5. ASSUME NEW c \in Sockets PROVE May(ReadState(c), ReadState(c)')
  <2>1. CASE todo[t] \in RunShapes /\ Hand[t] \in ReadsOf(c)
    <3>1. Single(ReadsOf(c))
      BY DEF PlaceInv, ReadInv, Single
    <3>2. Runs(ReadsOf(c)) /\ ~Runs(ReadsOf(c))'
      BY <1>3, <2>1, <3>1
    <3> QED
      BY <1>4, <3>2 DEF ReadState
  <2>2. CASE ~(todo[t] \in RunShapes /\ Hand[t] \in ReadsOf(c))
    <3>1. Runs(ReadsOf(c))' <=> Runs(ReadsOf(c))
      BY <1>2, <2>2
    <3>2. /\ alive[c] = "open" => alive'[c] = "open" /\ (pending'[c] => pending[c])
          /\ pending[c] => alive[c] = "open"
      BY <1>1, <2>2 DEF StateFacts
    <3> QED
      BY <1>4, <3>1, <3>2 DEF ReadState
  <2> QED
    BY <2>1, <2>2
<1>6. ASSUME NEW c \in Sockets PROVE May(WaitState(c), WaitState(c)')
  <2>1. CASE todo[t] \in RunShapes /\ Hand[t] \in WaitsOf(c)
    <3>1. Single(WaitsOf(c))
      BY DEF PlaceInv, WaitInv, Single
    <3>2. Runs(WaitsOf(c)) /\ ~Runs(WaitsOf(c))'
      BY <1>3, <2>1, <3>1
    <3> QED
      BY <1>4, <3>2 DEF WaitState
  <2>2. CASE ~(todo[t] \in RunShapes /\ Hand[t] \in WaitsOf(c))
    <3>1. Runs(WaitsOf(c))' <=> Runs(WaitsOf(c))
      BY <1>2, <2>2
    <3>2. /\ c \in Timed => c \in Timed' /\ (timer'[c] # "out" => timer[c] # "out")
          /\ timer[c] # "out" => c \in Timed
      BY <2>2 DEF Timed
    <3> QED
      BY <1>4, <3>1, <3>2 DEF WaitState
  <2> QED
    BY <2>1, <2>2
<1> QED
  BY <1>5, <1>6 DEF Mays

(* A read completed by its event, and its handler called, in one go. *)
LEMMA PerformMays ==
  ASSUME PlaceInv, PlaceInv', NEW t \in Threads, Perform(t)
  PROVE  Mays
<1>0. TypeInv /\ ProgramInv /\ WaitInv
  BY DEF PlaceInv
<1>1. PICK c \in Sockets :
        /\ Hand[t] = Descriptor(c)
        /\ \/ /\ pending[c] /\ pending' = [pending EXCEPT ![c] = FALSE]
              /\ \E ok \in BOOLEAN : Hand' = [Hand EXCEPT ![t] = Read(c, ok)]
              /\ privWork' = privWork /\ todo' = todo
           \/ /\ pending' = pending
              /\ Hand' = [Hand EXCEPT ![t] = Task]
              /\ privWork[t] = 0 /\ privWork' = [privWork EXCEPT ![t] = 1]
              /\ todo' = [todo EXCEPT ![t] = <<"leave">>]
  BY <1>0, PerformStep
<1>2. Others(t) /\ UNCHANGED <<timer, alive>> /\ Timed' = Timed
  BY <1>0, PerformStep, TimedStep
<1>3. /\ pending \in [Sockets -> BOOLEAN] /\ Hand \in [Threads -> Operations]
      /\ todo \in [Threads -> Shapes]
  BY <1>0, <1>2, HandsAfter DEF TypeInv
<1>4. CASE pending' = pending /\ todo' = [todo EXCEPT ![t] = <<"leave">>]
  <2>1. todo'[t] \notin RunShapes
    BY <1>3, <1>4 DEF RunShapes
  <2> QED
    BY <1>2, <1>4, <2>1, EndingMays
<1>5. CASE /\ pending[c] /\ pending' = [pending EXCEPT ![c] = FALSE]
           /\ \E ok \in BOOLEAN : Hand' = [Hand EXCEPT ![t] = Read(c, ok)]
  <2>1. PICK ok \in BOOLEAN : Hand'[t] = Read(c, ok)
    BY <1>3, <1>5
  <2>2. ASSUME NEW S, Descriptor(c) \notin S, Read(c, ok) \notin S
        PROVE  Runs(S)' <=> Runs(S)
    BY <1>0, <1>1, <1>2, <2>1, <2>2, RunsAfter
  <2>3. ASSUME NEW d \in Sockets PROVE May(WaitState(d), WaitState(d)')
    <3>1. Runs(WaitsOf(d))' <=> Runs(WaitsOf(d))
      BY <2>2, WaitsApart
    <3> QED
      BY <1>2, <3>1, StatesMove DEF May
  <2>4. ASSUME NEW d \in Sockets PROVE May(ReadState(d), ReadState(d)')
    <3>1. CASE d = c
      <4>1. pending[c] /\ ~pending'[c] /\ alive'[c] = alive[c]
        BY <1>2, <1>3, <1>5
      <4> QED
        BY <3>1, <4>1, StatesMove
    <3>2. CASE d # c
      <4>1. Runs(ReadsOf(d))' <=> Runs(ReadsOf(d))
        BY <2>2, <3>2, ReadsApart
      <4>2. pending'[d] = pending[d] /\ alive'[d] = alive[d]
        BY <1>2, <1>3, <1>5, <3>2
      <4> QED
        BY <4>1, <4>2, StatesMove DEF May
    <3> QED
      BY <3>1, <3>2
  <2> QED
    BY <2>3, <2>4 DEF Mays
<1> QED
  BY <1>1, <1>4, <1>5

LEMMA HandlerMays ==
  ASSUME PlaceInv, PlaceInv', NEW t \in Threads,
         \/ ReadsOn(t) \/ FirstRead(t) \/ Drops(t) \/ TimesOut(t) \/ Cancel(t)
         \/ Poll(t)
  PROVE  Mays
<1>0. TypeInv /\ ProgramInv /\ WaitInv
  BY DEF PlaceInv
<1>1. /\ pending \in [Sockets -> BOOLEAN]
      /\ timer \in [Sockets -> {"armed", "due", "out"}]
      /\ alive \in [Sockets -> {"new", "open", "gone"}]
  BY <1>0 DEF TypeInv
<1>2. \A rest \in {<<"leave">>, <<"first", "leave">>} :
        rest \notin RunShapes /\ <<"enqueue">> \o rest \notin RunShapes
  BY LeavingAt, ShapeKinds
<1>3. ASSUME NEW c \in Sockets, NEW rest \in {<<"leave">>, <<"first", "leave">>},
             StartEffect(t, c, rest)
      PROVE  /\ todo'[t] \notin RunShapes
             /\ \A d \in Sockets \ {c} : pending'[d] = pending[d]
  BY <1>1, <1>2, <1>3 DEF StartEffect
<1>4. CASE ReadsOn(t)
  <2>1. PICK c \in Sockets, rest \in {<<"leave">>, <<"first", "leave">>} :
          Hand[t] = Read(c, TRUE) /\ StartEffect(t, c, rest)
    BY <1>0, <1>4, ReadsOnStep
  <2>2. /\ todo[t] = <<"run">> /\ Others(t) /\ UNCHANGED <<timer, alive>>
        /\ Timed' = Timed
    BY <1>0, <1>4, ReadsOnStep, TimedStep
  <2>3. Read(c, TRUE) \in ReadsOf(c)
    BY ReadsApart
  <2>4. todo[t] \in RunShapes /\ Hand[t] \in ReadsOf(c)
    BY <2>1, <2>2, <2>3 DEF RunShapes
  <2> QED
    BY <1>3, <2>1, <2>2, <2>4, EndingMays
<1>5. CASE FirstRead(t)
  <2>1. PICK c \in Sockets :
          /\ alive[c] = "new" /\ alive' = [alive EXCEPT ![c] = "open"]
          /\ StartEffect(t, c, <<"leave">>)
    BY <1>0, <1>5, FirstReadStep DEF Sockets
  <2>2. Others(t) /\ timer' = timer /\ Timed' = Timed
    BY <1>0, <1>5, FirstReadStep, TimedStep
  <2> QED
    BY <1>1, <1>3, <2>1, <2>2, EndingMays
<1>6. CASE Drops(t)
  <2>1. PICK c \in Sockets, ok \in BOOLEAN :
          /\ Hand[t] = Read(c, ok)
          /\ alive' = [alive EXCEPT ![c] = "gone"]
          /\ timer' = [timer EXCEPT ![c] = "out"]
          /\ todo'[t] \in {<<"leave">>, <<"enqueue", "leave">>}
    BY <1>0, <1>6, DropsStep
  <2>2. /\ todo[t] = <<"run">> /\ Others(t) /\ pending' = pending
        /\ Timed' = Timed
    BY <1>0, <1>6, DropsStep, TimedStep
  <2>3. Read(c, ok) \in ReadsOf(c)
    BY ReadsApart
  <2>4. /\ todo[t] \in RunShapes /\ Hand[t] \in ReadsOf(c)
        /\ todo'[t] \notin RunShapes
    BY <2>1, <2>2, <2>3 DEF RunShapes
  <2> QED
    BY <1>1, <2>1, <2>2, <2>4, EndingMays
<1>7. CASE TimesOut(t)
  <2>1. PICK c \in Timed : Timed' = Timed \ {c} /\ Hand[t] \in WaitsOf(c)
    BY <1>0, <1>7, TimedStep
  <2>2. /\ todo[t] = <<"run">> /\ Others(t) /\ UNCHANGED <<pending, timer, alive>>
        /\ todo'[t] \in {<<"shutdown", "cancel", "leave">>, <<"leave">>}
    BY <1>0, <1>7, TimesOutStep DEF socket
  <2>3. todo[t] \in RunShapes /\ todo'[t] \notin RunShapes
    BY <2>2 DEF RunShapes
  <2> QED
    BY <2>1, <2>2, <2>3, EndingMays
<1>8. CASE Cancel(t)
  <2>1. /\ Others(t) /\ UNCHANGED <<timer, alive>> /\ Timed' = Timed
        /\ \A c \in Sockets : pending'[c] => pending[c]
        /\ todo'[t] \in {<<"leave">>, <<"enqueue", "leave">>}
    BY <1>0, <1>1, <1>8, CancelStep, TimedStep
  <2>2. todo'[t] \notin RunShapes
    BY <2>1 DEF RunShapes
  <2> QED
    BY <2>1, <2>2, EndingMays
<1>9. CASE Poll(t)
  <2>1. /\ Others(t) /\ UNCHANGED <<pending, alive>> /\ Timed' = Timed
        /\ \A c \in Sockets : timer'[c] # "out" => timer[c] # "out"
        /\ todo'[t] = <<"cleanup">>
    BY <1>0, <1>9, PollStep, TimedStep
  <2>2. todo'[t] \notin RunShapes
    BY <2>1 DEF RunShapes
  <2> QED
    BY <2>1, <2>2, EndingMays
<1> QED
  BY <1>4, <1>5, <1>6, <1>7, <1>8, <1>9

LEMMA StoppedStep ==
  ASSUME TypeInv, [Next]_vars
  PROVE  stopped' \in {stopped, TRUE}
BY DEF Next, Step, Begin, Loop, TaskReturns, Wakes, Spurious, Signal, Poll,
       Perform, ReadsOn, FirstRead, Drops, TimesOut, Shutdown, Cancel, Called,
       Enqueue, Leave, Stop, StopAll, Connect, Send, Expires, Sigint, Finds,
       vars, sched

LEMMA PoolStep ==
  PlaceInv /\ PlaceInv' /\ [Next]_vars => [Pool!Next]_(Pool!vars)
<1> SUFFICES ASSUME PlaceInv, PlaceInv', [Next]_vars PROVE [Pool!Next]_(Pool!vars)
  OBVIOUS
<1> DEFINE state == [o \in PoolOps |-> StateOf(o[1], o[2])]
<1>1. TypeInv /\ StateFacts /\ StateFacts'
  BY StateFactsHold, PTL DEF PlaceInv
<1>2. stopped' \in {stopped, TRUE}
  BY <1>1, StoppedStep
<1>3. \A o \in PoolOps : \E c \in Sockets : o = <<"read", c>> \/ o = <<"wait", c>>
  BY DEF PoolOps
<1>4. CASE Mays
  <2>1. \A o \in PoolOps : May(StateOf(o[1], o[2]), StateOf(o[1], o[2])')
    BY <1>1, <1>3, <1>4 DEF Mays, StateFacts
  <2>2. Pool!Progress
    BY <1>2, <2>1 DEF Pool!Progress, May
  <2> QED
    BY <2>2 DEF Pool!Next
<1>5. ASSUME NEW t \in Threads, Looping(t) PROVE [Pool!Next]_(Pool!vars)
  <2>1. CASE \A o \in PoolOps : Same(o)
    <3>1. Pool!Progress
      BY <1>2, <2>1 DEF Pool!Progress, Same
    <3> QED
      BY <3>1 DEF Pool!Next
  <2>2. ASSUME NEW o \in PoolOps, ~stopped, Begins(o), stopped' = stopped,
               \A p \in PoolOps \ {o} : Same(p)
        PROVE  Pool!Run(o)
    BY <2>2 DEF Pool!Run, Begins, Same
  <2> QED
    BY <1>5, <2>1, <2>2, LoopingStates DEF Pool!Next
<1> QED
  BY <1>4, <1>5, Cases, CalmMays, PerformMays, HandlerMays

LEMMA PoolStart == SomeStart /\ PlaceInv => Pool!Init
<1> SUFFICES ASSUME SomeStart, PlaceInv PROVE Pool!Init
  OBVIOUS
<1>1. PICK ts \in SUBSET Threads, cs \in SUBSET Sockets :
        \E tm \in SUBSET cs, m \in Nat : Starts(ts, cs, tm, m)
  BY DEF SomeStart
<1>2. stopped = FALSE /\ \A t \in Threads : todo[t] \in {<<"begin">>, << >>}
  BY <1>1, StartStep DEF Starts
<1>3. \A S : ~Runs(S)
  BY <1>2 DEF Runs, RunShapes
<1>4. StateFacts
  BY StateFactsHold
<1>5. \A c \in Sockets : /\ StateOf("read", c) \in {"idle", "waiting", "ready"}
                         /\ StateOf("wait", c) \in {"idle", "waiting", "ready"}
  BY <1>3, <1>4 DEF StateFacts, ReadState, WaitState
<1>6. \A o \in PoolOps : StateOf(o[1], o[2]) \in {"idle", "waiting", "ready"}
  BY <1>5 DEF PoolOps
<1> QED
  BY <1>2, <1>6 DEF Pool!Init

(* The safety of ImplementsPool: whatever the threads do, each operation   *)
(* goes the way HandlerPool says.  None that has completed is lost, or     *)
(* called twice; one taken from the queue is called alone, and not once    *)
(* the pool is stopped.                                                    *)
THEOREM CallsEachOnce == AnySpec => Pool!Init /\ [][Pool!Next]_(Pool!vars)
<1>1. SomeStart => Pool!Init
  BY StartPlace, PoolStart
<1>2. PlaceInv /\ PlaceInv' /\ [Next]_vars => [Pool!Next]_(Pool!vars)
  BY PoolStep
<1> QED
  BY <1>1, <1>2, PlaceInvariant, PTL DEF AnySpec

(* All of it holds of the server as it starts. *)
THEOREM PoolIsSafe ==
  Spec => /\ [](OnePlaceEach /\ NoEarlyStop /\ NoneSleepsOn)
          /\ Pool!Init /\ [][Pool!Next]_(Pool!vars)
BY SpecIsAny, OperationsHaveOnePlace, StopsOnlyAtTheEnd, WakeupsSuffice,
   CallsEachOnce, PTL

----------------------------------------------------------------------------
(* SIGINT inside a critical section                                        *)

(* What is proved above for behaviours in which SIGINT comes while no      *)
(* thread holds the mutex, here for those in which it may come at any time.*)
AnyInsideNext == Next \/ \E t \in Threads : SigintInside(t)
AnyInsideSpec == SomeStart /\ [][AnyInsideNext]_vars

SafeInv == PlaceInv /\ WorkInv /\ EndInv /\ WakeInv

(* The handler waits for the mutex that the thread it interrupted holds.   *)
Stuck == holder # Nobody
StuckInv ==
  /\ todo \in [Threads -> Shapes]
  /\ Stuck => /\ holder \in Threads /\ asked
              /\ \E label \in Critical : At(holder, label)

(* The thread never makes a step again, nobody takes a handler from the    *)
(* queue or adds one, and the pool is not stopped if it was not.           *)
StuckForEver ==
  [][Stuck => /\ Stuck' /\ holder' = holder /\ todo'[holder] = todo[holder]
              /\ queue' = queue /\ stopped' = stopped]_vars

LEMMA SafeInside == SafeInv /\ [AnyInsideNext]_vars => SafeInv'
<1>1. ASSUME SafeInv, [Next]_vars PROVE SafeInv'
  BY <1>1, PlacePreserved, WorkPreserved, EndPreserved, WakePreserved
     DEF SafeInv
<1>2. ASSUME SafeInv, NEW t \in Threads, SigintInside(t) PROVE SafeInv'
  <2>1. UNCHANGED <<sched, work, thread, socket>> /\ asked' = TRUE
    BY <1>2 DEF SigintInside
  <2>2. Hand' = Hand
    BY <2>1 DEF Hand, thread
  <2>3. PlaceInv'
    BY <1>2, <2>1, <2>2
       DEF SafeInv, PlaceInv, TypeInv, ProgramInv, ProgramAt, TaskInv, HasTask,
           DescriptorInv, ReadInv, WaitInv, CallbackInv, sched, thread, socket
  <2>4. WorkInv'
    BY <1>2, <2>1, <2>2
       DEF SafeInv, WorkInv, Owing, Open, Timed, Posted, Serving, sched,
           thread, socket
  <2>5. Ended' <=> Ended
    BY <2>1, <2>2 DEF Ended, Open, Timed, sched, thread, socket
  <2>6. EndInv'
    BY <1>2, <2>1, <2>5 DEF SafeInv, EndInv, thread
  <2>7. WakeInv'
    BY <1>2, <2>1
       DEF SafeInv, WakeInv, PollInv, Helped, Sleeping, Helping, sched, thread
  <2> QED
    BY <2>3, <2>4, <2>6, <2>7 DEF SafeInv
<1> QED
  BY <1>1, <1>2 DEF AnyInsideNext

LEMMA StuckStep ==
  ASSUME StuckInv, Stuck, [AnyInsideNext]_vars
  PROVE  /\ holder' = holder /\ todo'[holder] = todo[holder]
         /\ queue' = queue /\ stopped' = stopped /\ asked' = asked
<1>1. /\ holder \in Threads /\ todo[holder] # << >>
      /\ Head(todo[holder]) \in Critical /\ todo \in [Threads -> Shapes]
  BY DEF StuckInv, At
<1>2. \A t \in Threads : \A label : At(t, label) /\ label \notin Critical =>
        t # holder
  BY <1>1 DEF At
<1>3. ~Free
  BY DEF Stuck, Free
<1>4. ASSUME NEW t \in Threads, Begin(t) \/ Perform(t) \/ ReadsOn(t)
               \/ FirstRead(t) \/ Drops(t) \/ TimesOut(t) \/ Shutdown(t)
               \/ Cancel(t) \/ Called(t) \/ Leave(t) \/ Poll(t) \/ Spurious(t)
      PROVE  /\ t # holder
             /\ \/ UNCHANGED todo
                \/ \E s : todo' = [todo EXCEPT ![t] = s]
             /\ UNCHANGED <<queue, stopped, holder, asked>>
  <2>1. CASE Begin(t) \/ TimesOut(t) \/ Called(t) \/ Leave(t) \/ Spurious(t)
    BY <1>2, <2>1 DEF Begin, TimesOut, Called, Leave, Spurious, GoTo,
       Critical, sched
  <2>2. CASE Shutdown(t) \/ Cancel(t)
    BY <1>2, <2>2 DEF Shutdown, Cancel, GoTo, Continue, Critical, sched
  <2>3. CASE Perform(t) \/ Drops(t)
    BY <1>2, <2>3 DEF Perform, Drops, GoTo, Critical, sched
  <2>4. CASE ReadsOn(t) \/ FirstRead(t)
    BY <1>2, <2>4 DEF ReadsOn, FirstRead, StartRead, GoTo, Critical, sched
  <2>5. CASE Poll(t)
    BY <1>2, <2>5 DEF Poll, GoTo, Critical
  <2> QED
    BY <1>4, <2>1, <2>2, <2>3, <2>4, <2>5
<1>5. ASSUME NEW t \in Threads, Signal(t)
      PROVE  /\ todo'[holder] = todo[holder]
             /\ UNCHANGED <<queue, stopped, holder, asked>>
  <2>1. t # holder
    BY <1>2, <1>5 DEF Signal, Critical
  <2>2. \A u \in Threads : At(u, "wait") => u # holder
    BY <1>2 DEF Critical
  <2> QED
    BY <1>1, <1>5, <2>1, <2>2 DEF Signal, Continue, GoTo, sched
<1>6. ASSUME NEW t \in Threads
      PROVE  ~(\/ Loop(t) \/ TaskReturns(t) \/ Wakes(t) \/ Enqueue(t) \/ Stop(t)
               \/ Sigint(t) \/ SigintInside(t))
  BY <1>3 DEF Loop, TaskReturns, Wakes, Enqueue, Stop, Sigint, SigintInside
<1>7. ASSUME Connect \/ (\E c \in Conns : Send(c) \/ Expires(c))
             \/ UNCHANGED vars
      PROVE  UNCHANGED <<todo, queue, stopped, holder, asked>>
  BY <1>7 DEF Connect, Send, Expires, vars, sched, thread
<1> QED
  BY <1>1, <1>4, <1>5, <1>6, <1>7 DEF AnyInsideNext, Next, Step

LEMMA StuckPreserved ==
  SafeInv /\ SafeInv' /\ StuckInv /\ [AnyInsideNext]_vars => StuckInv'
<1> SUFFICES ASSUME SafeInv, SafeInv', StuckInv, [AnyInsideNext]_vars
             PROVE  StuckInv'
  OBVIOUS
<1>1. todo' \in [Threads -> Shapes]
  BY DEF SafeInv, PlaceInv, TypeInv
<1>2. CASE Stuck
  BY <1>1, <1>2, StuckStep DEF StuckInv, Stuck, At
<1>3. CASE ~Stuck
  <2>1. \/ holder' = holder
        \/ \E t \in Threads : SigintInside(t)
    BY <1>3 DEF AnyInsideNext, Next, Step, Begin, Loop, TaskReturns, Wakes,
       Signal, Poll, Perform, ReadsOn, FirstRead, Drops, TimesOut, Shutdown,
       Cancel, Called, Enqueue, Leave, Stop, Spurious, Sigint, Connect, Send,
       Expires, vars
  <2>2. ASSUME NEW t \in Threads, SigintInside(t) PROVE StuckInv'
    BY <1>1, <2>2 DEF SigintInside, StuckInv, At, thread
  <2> QED
    BY <1>1, <1>3, <2>1, <2>2 DEF Stuck, StuckInv
<1> QED
  BY <1>2, <1>3

LEMMA InsideInvariant == AnyInsideSpec => [](SafeInv /\ StuckInv)
<1>1. SomeStart => SafeInv /\ StuckInv
  <2>1. SomeStart => SafeInv
    BY StartPlace, StartWork, StartWake DEF SafeInv
  <2>2. SomeStart => holder = Nobody
    BY DEF SomeStart, Starts
  <2> QED
    BY <2>1, <2>2 DEF SafeInv, PlaceInv, TypeInv, StuckInv, Stuck
<1>2. SafeInv /\ StuckInv /\ [AnyInsideNext]_vars => SafeInv' /\ StuckInv'
  BY SafeInside, StuckPreserved
<1> QED
  BY <1>1, <1>2, PTL DEF AnyInsideSpec

(* Whenever SIGINT comes, also while a thread holds the mutex: no          *)
(* operation is lost or duplicated, the pool does not stop early unless    *)
(* asked to, and no thread sleeps on.  What goes wrong then is not that.   *)
THEOREM SafeWhenInterruptedInside ==
  AnyInsideSpec => [](OnePlaceEach /\ NoEarlyStop /\ NoneSleepsOn)
<1>1. SafeInv => OnePlaceEach /\ NoEarlyStop /\ NoneSleepsOn
  BY PlaceInvImplies, EndInvImplies, WakeInvImplies DEF SafeInv, PlaceInv
<1> QED
  BY <1>1, InsideInvariant, PTL

(* When SIGINT's handler waits for a mutex that its own thread holds, it   *)
(* waits for ever, and no thread takes a handler from the queue any more:  *)
(* for any number of threads, whatever they and the clients do.            *)
THEOREM InterruptedInsideIsStuck == AnyInsideSpec => StuckForEver
<1>1. StuckInv /\ [AnyInsideNext]_vars =>
        [Stuck => /\ Stuck' /\ holder' = holder /\ todo'[holder] = todo[holder]
                  /\ queue' = queue /\ stopped' = stopped]_vars
  BY StuckStep DEF Stuck
<1> QED
  BY <1>1, InsideInvariant, PTL DEF AnyInsideSpec, StuckForEver

(* Every SIGINT inside a critical section, then, and not just that of the  *)
(* counterexample, keeps its handler's announcement from coming true.      *)
THEOREM NeverEndsInside == AnyInsideSpec /\ <>Stuck => ~SigintEnds
<1> DEFINE Returned == \A t \in Threads : todo[t] = << >>
<1>1. StuckInv /\ Stuck => asked /\ ~Returned
  BY DEF StuckInv, At
<1>2. StuckInv /\ Stuck /\ [AnyInsideNext]_vars => Stuck'
  BY StuckStep DEF Stuck
<1> QED
  BY <1>1, <1>2, InsideInvariant, PTL DEF AnyInsideSpec, SigintEnds
==============================================================================
